------------------------------ MODULE KmMachine ------------------------------
(***************************************************************************)
(* The machine of KmStates under every event its owner may deliver, with   *)
(* the subsystems its effects switch: an edge watch, a watchdog, the       *)
(* suppression of the Mac's input, the tablet's key filter, observation    *)
(* and capture of its mouse.                                               *)
(***************************************************************************)
EXTENDS KmStates

VARIABLES
    caps,      \* KmStateMachine.capabilities
    machine,   \* its state, consent and mouse_observation_active
    running,   \* the subsystems that are on after the effects so far
    emitted    \* the effects of the last event

vars == <<caps, machine, running, emitted>>

Init ==
    /\ caps \in SUBSET Capabilities
    /\ machine = New
    /\ running = {}
    /\ emitted = <<>>

(* The start of s at i is not undone later. *)
Lasts(es, s, i) ==
    es[i] = Start(s) /\ \A j \in 1..Len(es) : j > i => es[j] # Stop(s)

(* The subsystems that are on once the effects were carried out in order.  *)
Carried(on, es) ==
    {s \in Subsystems :
        \/ \E i \in 1..Len(es) : Lasts(es, s, i)
        \/ s \in on /\ \A i \in 1..Len(es) : es[i] # Stop(s)}

(* An event: its effects are carried out in the order they are emitted. *)
On(result) ==
    /\ machine' = result.to
    /\ emitted' = result.effects
    /\ running' = Carried(running, result.effects)
    /\ UNCHANGED caps

ArmRequested == \E c \in SUBSET Directions : On(Arm(machine, caps, c))
Returned == On(ReturnToLocal(machine))
FailedClosed == On(ExitToOff(machine))
ConsentGranted == \E ds \in SUBSET Directions \ {{}} : On(Grant(machine, ds))
ConsentRevoked == \E ds \in SUBSET Directions \ {{}} : On(RevokeConsent(machine, ds))
PointerCrossed == On(EnterMacToAndroid(machine, caps))
Triggered == \E source \in Triggers : On(EnterAndroidToMac(machine, caps, source))
Reconnected == On(Only(machine, <<>>))

Next ==
    \/ ArmRequested \/ Returned \/ FailedClosed \/ ConsentGranted
    \/ ConsentRevoked \/ PointerCrossed \/ Triggered \/ Reconnected

Spec == Init /\ [][Next]_vars

-----------------------------------------------------------------------------
TypeOK ==
    /\ caps \subseteq Capabilities
    /\ machine \in Machine
    /\ running \subseteq Subsystems
    /\ \A i \in 1..Len(emitted) : emitted[i] \in Effects

(* What intercepts input while it goes in a direction. *)
Intercepts(state) ==
    CASE state = "macToAndroid" -> {"suppression"}
      [] state = "androidToMac" -> {"keyFilter", "mouseCapture"}
      [] OTHER -> {}

(* The subsystems that are on in a state of the machine. *)
Warranted(m) ==
    (IF m.state = "off" THEN {} ELSE {"edgeWatch", "watchdog"})
      \cup Intercepts(m.state)
      \cup (IF m.observing THEN {"mouseObservation"} ELSE {})

(* Whatever the events and their order, the subsystems that are on are     *)
(* the ones the state warrants: no exit leaves a filter, a capture or a    *)
(* watch behind, and none is stopped while its state lasts (invariants I2  *)
(* and I3 of km.rs).                                                       *)
RunningFollowsState == running = Warranted(machine)

(* Input goes in a direction only while the machine holds the consent and  *)
(* the capabilities of that direction; consent may be withdrawn one        *)
(* direction at a time, in any state.                                      *)
ActiveIsAuthorised ==
    machine.state \in Directions =>
        /\ machine.state \in machine.consent
        /\ machine.state \in caps

(* Injected input is released before anything else, and local input is     *)
(* restored only when whatever intercepted it is stopped (invariant I3).   *)
ReleasedBeforeRestored ==
    \A i \in 1..Len(emitted) :
        emitted[i] = RestoreLocal =>
            /\ emitted[1] = ReleaseAll
            /\ running \cap {"suppression", "keyFilter", "mouseCapture"} = {}
            /\ \A j \in i..Len(emitted) : emitted[j][1] # "stop"

(* Keyboard and mouse cross the edge as the consents, the capabilities and *)
(* the state allow, and every exit gives them back in the right order.     *)
SharingIsConsented ==
    /\ RunningFollowsState
    /\ ActiveIsAuthorised
    /\ ReleasedBeforeRestored

(* Who has the physical input. *)
Holder == IF machine.state \in Directions THEN machine.state ELSE "local"

Owner == INSTANCE KmOwner WITH owner <- Holder

(* The machine implements exclusive ownership (invariants I1 and I4). *)
ExclusiveOwner == Owner!Spec

=============================================================================
