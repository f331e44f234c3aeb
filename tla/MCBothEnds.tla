-------------------------------------- MODULE MCBothEnds ---------------------------------------
(* What a viewer and a host keep in step, and parts of the viewer, that share no state with   *)
(* one another, side by side: a behaviour exercises one of them and leaves the others as they *)
(* start.                                                                                     *)
EXTENDS Naturals, Sequences, FiniteSets

CONSTANTS WordBits, Words, Starts, MaxFrames, MaxChallenges, BacklogCap, Hosts, Requests, Reads,
          Home, MaxSelections, MaxSockets, Retries, MaxFaults, MaxEpoch, MaxPresses, MaxQueue,
          MaxInFlight

VARIABLES part,
  counter, left, fresh, nonce, proven, air, echoes, phase, backlog, highest, bits, challenges,
  opened, replays,   \* MediaSealing
  gen, client, context, tries, shared, socks, reqs, retiring, probes, ran, faults,   \* ViewerSession
  host, batch, mac, tab, h2t, t2h, wire, linkFaults   \* KmDuplex

S == INSTANCE MediaSealing
V == INSTANCE ViewerSession
D == INSTANCE KmDuplex WITH faults <- linkFaults

sealingVars == <<counter, left, fresh, nonce, proven, air, echoes, phase, backlog, highest,
    bits, challenges, opened, replays>>
sessionVars == <<gen, client, context, tries, shared, socks, reqs, retiring, probes, ran,
    faults>>
duplexVars == <<host, batch, mac, tab, h2t, t2h, wire, linkFaults>>
vars == <<part, sealingVars, sessionVars, duplexVars>>

Parts == {"sealing", "session", "duplex"}
\* The choices of a component's initial state are made only where it is exercised.
Init ==
  /\ part \in Parts
  /\ S!Init
  /\ part = "sealing" \/ counter = 1
  /\ V!Init
  /\ D!Init

SealingStep == part = "sealing" /\ S!Next /\ UNCHANGED <<part, sessionVars, duplexVars>>
SessionStep == part = "session" /\ V!Next /\ UNCHANGED <<part, sealingVars, duplexVars>>
DuplexStep == part = "duplex" /\ D!Next /\ UNCHANGED <<part, sealingVars, sessionVars>>
Next == SealingStep \/ SessionStep \/ DuplexStep

Spec == Init /\ [][Next]_vars

------------------------------------------------------------------------------------------------
\* The bitmap is the set of accepted counters, so that none is accepted twice; an answered
\* challenge resets nothing; early media is kept: see MediaSealing.
DatagramsOpenOnce == S!DatagramsOpenOnce
\* A request runs at its own host, once unless it only reads, and gets its own answer; every
\* socket has an owner: see ViewerSession.
RequestsKeepTheirHost == V!RequestsKeepTheirHost
\* The two ends never take each other's input at once, a confirmed return is applied, and no key
\* stays down at either end: see KmDuplex.
NoInputIsStranded == D!NoInputIsStranded
\* What no step of a component may do: see the modules named above.
EachStep ==
  /\ V!SelectionPrevails
  /\ D!ExclusiveOwner
================================================================================================
