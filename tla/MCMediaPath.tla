-------------------------------------- MODULE MCMediaPath --------------------------------------
(* The two ends of the media path, which have each other as their environment, and the split  *)
(* stream, that share no state with one another, side by side: a behaviour exercises one of   *)
(* them and leaves the others as they start.                                                  *)
EXTENDS Naturals, Sequences, FiniteSets

CONSTANTS ConfiguredLimit, MaxPending, PackLimit, FreshCooldown, MaxCaptureRestarts,
          MaxEncoderRestarts, PeriodicKeyframes, QueueMaxAge, Prompt, MaxFaults, K, MaxInFlight,
          MaxRecent, MaxGroups, MaxDone, IdSpace, MaxReorder, Grace, BatchSize, Cooldown,
          RebuildAfter, RingSize, MaxAir, Endless, MaxUnits, MaxUpsets, InFlight, CaptureLimit,
          SoftExpiries, MaxCaptures, MaxRequests, MaxExpiries, MaxDisturbances

VARIABLES part,
  host, waiting, faults,   \* HostEncoder
  sender, air, up, viewer, fed, upsets,   \* MediaReceiver
  flow, enc, pipe, outs, jobs, net, wire, excused, cleaning, asks, spent   \* SplitPipeline

H == INSTANCE HostEncoder
M == INSTANCE MediaReceiver WITH host <- sender
S == INSTANCE SplitPipeline

hostVars == <<host, waiting, faults>>
viewerVars == <<sender, air, up, viewer, fed, upsets>>
splitVars == <<flow, enc, pipe, outs, jobs, net, wire, excused, cleaning, asks, spent>>
vars == <<part, hostVars, viewerVars, splitVars>>

Parts == {"host", "viewer", "split"}
\* The choices of a component's initial state are made only where it is exercised.
Init ==
  /\ part \in Parts
  /\ H!Init
  /\ M!Init
  /\ S!Init

HostStep == part = "host" /\ H!Next /\ UNCHANGED <<part, viewerVars, splitVars>>
ViewerStep == part = "viewer" /\ M!Next /\ UNCHANGED <<part, hostVars, splitVars>>
SplitStep == part = "split" /\ S!Next /\ UNCHANGED <<part, hostVars, viewerVars>>
Next == HostStep \/ ViewerStep \/ SplitStep

Spec == Init /\ [][Next]_vars

------------------------------------------------------------------------------------------------
\* Submissions and encode slots agree, no delta from before a recovery boundary is queued, and a
\* delayed retry has its timer: see HostEncoder.
SlotsAndBoundariesHold == H!SlotsAndBoundariesHold
\* The sequencer is no playback queue: see MediaReceiver.
PendingIsBounded == M!ReceiverTypeOK /\ M!PendingIsBounded
\* The decoder's reference chain is intact: see FrameFeed.
FeedSpec == M!FeedSpec
\* What is reserved for a hole is not renewed: see MediaReceiver.
ReservedOnce == M!ReservedOnce
\* Every lease is carried by one pair, slots are taken pair by pair, and a delta is sent behind
\* its reference: see SplitPipeline.
PairsFollowTheirReference == S!PairsFollowTheirReference
================================================================================================
