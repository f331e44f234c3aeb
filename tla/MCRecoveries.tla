------------------------------------- MODULE MCRecoveries --------------------------------------
(* Components whose recovery is checked, and that share no state with one another, side by    *)
(* side: a behaviour exercises one of them and leaves the others as they start.               *)
EXTENDS Naturals, Sequences, FiniteSets

CONSTANTS Starts, MaxToggles, MaxCurtainFaults, ConfiguredLimit, MaxPending, PackLimit,
          FreshCooldown, MaxCaptureRestarts, MaxEncoderRestarts, PeriodicKeyframes, QueueMaxAge,
          Prompt, MaxFaults, K, MaxInFlight, MaxRecent, MaxGroups, MaxDone, IdSpace, MaxReorder,
          Grace, BatchSize, Cooldown, RebuildAfter, RingSize, MaxAir, Endless, MaxUnits,
          MaxUpsets, Hosts, Requests, Reads, Home, MaxSelections, MaxSockets, Retries

VARIABLES part,
  enabled, drawn, drawings, last, start, excludes, remaking, restarts, awaited, unmade, toggles,
  failures, crossed,   \* PrivacyCurtain
  host, waiting, faults,   \* HostEncoder
  sender, air, up, viewer, fed, upsets,   \* MediaReceiver
  gen, client, context, tries, shared, socks, reqs, retiring, probes, ran, requestFaults   \* ViewerSession

C == INSTANCE PrivacyCurtain
E == INSTANCE HostEncoder
M == INSTANCE MediaReceiver WITH host <- sender
V == INSTANCE ViewerSession WITH faults <- requestFaults

curtainVars == <<enabled, drawn, drawings, last, start, excludes, remaking, restarts, awaited,
    unmade, toggles, failures, crossed>>
encoderVars == <<host, waiting, faults>>
mediaVars == <<sender, air, up, viewer, fed, upsets>>
sessionVars == <<gen, client, context, tries, shared, socks, reqs, retiring, probes, ran,
    requestFaults>>
vars == <<part, curtainVars, encoderVars, mediaVars, sessionVars>>

Parts == {"curtain", "encoder", "media", "session"}
\* The choices of a component's initial state are made only where it is exercised.
Init ==
  /\ part \in Parts
  /\ C!Init
  /\ part = "curtain" \/ ~enabled
  /\ E!Init
  /\ M!Init
  /\ V!Init

CurtainStep == part = "curtain" /\ C!CurtainNext /\ UNCHANGED <<part, encoderVars, mediaVars,
    sessionVars>>
EncoderStep == part = "encoder" /\ E!Next /\ UNCHANGED <<part, curtainVars, mediaVars,
    sessionVars>>
MediaStep == part = "media" /\ M!Next /\ UNCHANGED <<part, curtainVars, encoderVars,
    sessionVars>>
SessionStep == part = "session" /\ V!Next /\ UNCHANGED <<part, curtainVars, encoderVars,
    mediaVars>>
Next == CurtainStep \/ EncoderStep \/ MediaStep \/ SessionStep

Spec == Init /\ [][Next]_vars

exercised == CASE part = "curtain" -> curtainVars
               [] part = "encoder" -> encoderVars
               [] part = "media" -> mediaVars
               [] part = "session" -> sessionVars
\* The fairness of each component's own specification. The part never changes, so that a
\* condition may name one action of each part.
FairSpec ==
  /\ Spec
  /\ WF_exercised(UNCHANGED part /\ (
       \/ part = "curtain" /\ C!Poll
       \/ part = "encoder" /\ E!SourceDelivers
       \/ part = "media" /\ M!PresentQueued
       \/ part = "session" /\ V!AttemptEnds))
  /\ SF_exercised(UNCHANGED part /\ (
       \/ part = "encoder" /\ E!GateOpens
       \/ part = "media" /\ M!Send))
  /\ WF_exercised(UNCHANGED part /\ (
       \/ part = "encoder" /\ E!CaptureStalls
       \/ part = "media" /\ M!Resume))
  /\ WF_exercised(UNCHANGED part /\ part = "encoder" /\ (E!Drain \/ E!Encode))
  /\ WF_exercised(UNCHANGED part /\ part = "encoder" /\ E!FailedOutput)
  /\ WF_exercised(UNCHANGED part /\ part = "encoder" /\ E!RetryFires)
  /\ WF_exercised(UNCHANGED part /\ part = "encoder" /\ E!HealthCheck)
  /\ WF_exercised(UNCHANGED part /\ part = "encoder" /\ E!VideoToolbox)
  /\ WF_exercised(UNCHANGED part /\ part = "encoder" /\ E!Packets)
  /\ WF_exercised(UNCHANGED part /\ part = "encoder" /\ E!NetworkTake)
  /\ WF_exercised(UNCHANGED part /\ part = "encoder" /\ E!WriteFrame)
  /\ WF_exercised(UNCHANGED part /\ part = "encoder" /\ E!ViewerIdr)
  /\ SF_exercised(UNCHANGED part /\ (
       \/ part = "encoder" /\ E!CoolAges
       \/ part = "media" /\ M!Tick))
  /\ WF_exercised(UNCHANGED part /\ part = "encoder" /\ E!RestartAges)
  /\ SF_air(part = "media" /\ M!Taken)
  /\ SF_exercised(UNCHANGED part /\ part = "media" /\ (M!Idr \in up /\ M!HandleUp(M!Idr)))
  /\ \A s \in V!Sockets : WF_exercised(UNCHANGED part /\ part = "session" /\ V!TimeoutFront(s))
  /\ \A s \in V!Sockets : WF_exercised(UNCHANGED part /\ part = "session" /\ V!Closes(s))

------------------------------------------------------------------------------------------------
\* What each component calls unsettled does not last, under the fairness that it assumes.
EachSettles ==
  LET Unsettled ==
        \/ part = "curtain" /\ C!Unsettled
        \/ part = "encoder" /\ E!Unsettled
        \/ part = "media" /\ M!Unsettled
        \/ part = "session" /\ V!Unsettled
      Settled ==
        /\ part = "curtain" => ~C!Unsettled
        /\ part = "encoder" => ~E!Unsettled
        /\ part = "media" => ~M!Unsettled
        /\ part = "session" => ~V!Unsettled
  IN Unsettled ~> Settled
================================================================================================
