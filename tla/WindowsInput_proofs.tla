------------------------- MODULE WindowsInput_proofs -------------------------
(* Theorems about WindowsInput, for every value of its constants.          *)
EXTENDS WindowsInput, TLAPS

(* The domains without the gate. *)
Domains ==
    /\ {enabled, retired, stop, revoked, drained, answer, badge}
          \subseteq BOOLEAN
    /\ thread \in ThreadPlaces /\ event \in Event
    /\ operator \in {"idle", "enabling", "disabling", "releasing", "fencing"}
    /\ retirement \in {"live", "stopping", "gated", "joining", "joined",
                       "dropped"}
    /\ remembered \subseteq Held /\ down \subseteq Held
    /\ wire \subseteq BOOLEAN
    /\ {events, toggles, losses, failures} \subseteq Nat

(* ReleaseAll, whatever it manages to send, lifts only and forgets.        *)
LEMMA ReleaseAllLifts ==
    ASSUME Domains, ReleaseAll
    PROVE  /\ down' \subseteq down
           /\ remembered' \subseteq remembered
           /\ failures' \in Nat
<1>1. CASE ReleaseSucceeds
      BY <1>1 DEF ReleaseSucceeds, Domains
<1>2. CASE ReleaseFails
      BY <1>2 DEF ReleaseFails, Domains
<1> QED BY <1>1, <1>2 DEF ReleaseAll

(* Injecting an event keeps the injector's sets among the held inputs.     *)
LEMMA InjectStaysHeld ==
    ASSUME Domains, Inject(event)
    PROVE  /\ down' \subseteq Held
           /\ remembered' \subseteq Held
           /\ failures' \in Nat
<1>1. CASE event.op = "release"
      BY <1>1, ReleaseAllLifts DEF Inject, Domains
<1>2. CASE event.op = "text"
      BY <1>2 DEF Inject, injectorVars, Domains
<1>3. CASE event.op \in {"down", "up"}
  <2>1. event.on \in Held
        BY <1>3 DEF Domains, Event
  <2> QED BY <1>3, <2>1 DEF Inject, injectorVars, Domains
<1> QED BY <1>1, <1>2, <1>3 DEF Domains, Event

(* What InputGate puts on the wire is a flag. *)
LEMMA PublishesFlags ==
    ASSUME wire \subseteq BOOLEAN, NEW flag \in BOOLEAN, Publish(flag)
    PROVE  wire' \subseteq BOOLEAN
  BY DEF Publish, Send

(* TypeOK is inductive. *)
LEMMA TypeInit == Init => TypeOK
<1> SUFFICES ASSUME Init PROVE TypeOK
    OBVIOUS
<1>1. [op |-> "release"] \in Event
      BY DEF Event
<1>2. wire \subseteq BOOLEAN
      BY DEF Init
<1>3. {enabled, retired, stop, revoked, drained, answer, badge} \subseteq BOOLEAN
      BY DEF Init
<1>4. {events, toggles, losses, failures} \subseteq Nat
      BY DEF Init
<1> QED BY <1>1, <1>2, <1>3, <1>4 DEF Init, TypeOK, ThreadPlaces

(* Every step keeps the types. *)
LEMMA TypeStep == TypeOK /\ [Next]_vars => TypeOK'
<1> SUFFICES ASSUME TypeOK, [Next]_vars PROVE TypeOK'
    OBVIOUS
<1>d. Domains
      BY DEF TypeOK, Domains
<1> USE DEF TypeOK, ThreadPlaces
<1>1. ASSUME NEW ev \in Event, TakeUp(ev)
      PROVE  TypeOK'
  <2>1. CASE revoked
        BY <1>1, <2>1
        DEF TakeUp, Reading, gateVars, leaseVars, threadVars, injectorVars,
            budgets
  <2>2. CASE ~revoked
        BY <1>1, <2>2
        DEF TakeUp, Reading, gateVars, leaseVars, threadVars, injectorVars,
            budgets
  <2> QED BY <2>1, <2>2
<1>2. CASE Heartbeat
      BY <1>2
      DEF Heartbeat, Reading, Publish, Send, gateVars, leaseVars,
          threadVars, injectorVars, budgets
<1>3. CASE Halt
      BY <1>3 DEF Halt, gateVars, leaseVars, threadVars, injectorVars, budgets
<1>4. CASE Expire
      BY <1>4
      DEF Expire, Reading, gateVars, leaseVars, threadVars, injectorVars,
          budgets
<1>5. CASE ReleaseExpired
      BY <1>5, <1>d, ReleaseAllLifts
      DEF ReleaseExpired, gateVars, leaseVars, threadVars, injectorVars,
          budgets
<1>6. CASE CheckGate
      BY <1>6
      DEF CheckGate, gateVars, leaseVars, threadVars, injectorVars, budgets
<1>7. CASE Apply
      BY <1>7, <1>d, InjectStaysHeld
      DEF Apply, gateVars, leaseVars, threadVars, injectorVars, budgets
<1>8. CASE ReadFlag
      BY <1>8
      DEF ReadFlag, gateVars, leaseVars, threadVars, injectorVars, budgets
<1>9. CASE Reply
      BY <1>9
      DEF Reply, Send, gateVars, leaseVars, threadVars, injectorVars,
          budgets
<1>10. CASE Leave
      BY <1>10
      DEF Leave, gateVars, leaseVars, threadVars, injectorVars, budgets
<1>11. CASE LeaveGate
      BY <1>11
      DEF LeaveGate, gateVars, leaseVars, threadVars, injectorVars, budgets
<1>12. CASE LeaveReleased
      BY <1>12, <1>d, ReleaseAllLifts
      DEF LeaveReleased, gateVars, leaseVars, threadVars, injectorVars,
          budgets
<1>13. ASSUME NEW b \in BOOLEAN, BeginToggle(b)
      PROVE  TypeOK'
      BY <1>13
      DEF BeginToggle, gateVars, leaseVars, threadVars, injectorVars,
          budgets
<1>14. ASSUME NEW b \in BOOLEAN, Deliver(b)
      PROVE  TypeOK'
      BY <1>14
      DEF Deliver, gateVars, leaseVars, threadVars, injectorVars, budgets
<1>15. CASE Enable
  <2>1. wire' \subseteq BOOLEAN
        BY <1>15, PublishesFlags DEF Enable, SetGate
  <2>2. CASE retired
        BY <1>15, <2>1, <2>2
        DEF Enable, SetGate, gateVars, leaseVars, threadVars, injectorVars,
            budgets
  <2>3. CASE ~retired
        BY <1>15, <2>1, <2>3
        DEF Enable, SetGate, gateVars, leaseVars, threadVars, injectorVars,
            budgets
  <2> QED BY <2>2, <2>3
<1>16. CASE Disable
  <2>1. wire' \subseteq BOOLEAN
        BY <1>16, PublishesFlags DEF Disable, SetGate
  <2>2. CASE retired
        BY <1>16, <2>1, <2>2
        DEF Disable, SetGate, gateVars, leaseVars, threadVars, injectorVars,
            budgets
  <2>3. CASE ~retired
        BY <1>16, <2>1, <2>3
        DEF Disable, SetGate, gateVars, leaseVars, threadVars, injectorVars,
            budgets
  <2> QED BY <2>2, <2>3
<1>17. CASE ReleaseDisabled
      BY <1>17, <1>d, ReleaseAllLifts
      DEF ReleaseDisabled, ReleaseAll, gateVars, leaseVars, threadVars, injectorVars, budgets
<1>18. CASE FenceSession
      BY <1>18
      DEF FenceSession, gateVars, leaseVars, threadVars, injectorVars,
          budgets
<1>19. CASE BeginRetire
      BY <1>19
      DEF BeginRetire, gateVars, leaseVars, threadVars, injectorVars,
          budgets
<1>20. CASE RetireGate
      BY <1>20
      DEF RetireGate, gateVars, leaseVars, threadVars, injectorVars, budgets
<1>21. CASE ReleaseRetired
      BY <1>21, <1>d, ReleaseAllLifts
      DEF ReleaseRetired, gateVars, leaseVars, threadVars, injectorVars,
          budgets
<1>22. CASE Join
      BY <1>22
      DEF Join, gateVars, leaseVars, threadVars, injectorVars, budgets
<1>23. CASE DropInjector
      BY <1>23, <1>d, ReleaseAllLifts
      DEF DropInjector, gateVars, leaseVars, threadVars, injectorVars,
          budgets
<1>24. CASE Revoke
      BY <1>24
      DEF Revoke, gateVars, leaseVars, threadVars, injectorVars, budgets
<1>25. CASE WaitIdle
      BY <1>25
      DEF WaitIdle, gateVars, leaseVars, threadVars, injectorVars, budgets
<1>26. CASE Lose
      BY <1>26
      DEF Lose, gateVars, leaseVars, threadVars, injectorVars, budgets
<1>27. CASE UNCHANGED vars
      BY <1>27
      DEF vars, gateVars, leaseVars, threadVars, injectorVars, budgets
<1> QED
    BY <1>1, <1>2, <1>3, <1>4, <1>5, <1>6, <1>7, <1>8, <1>9, <1>10,
       <1>11, <1>12, <1>13, <1>14, <1>15, <1>16, <1>17, <1>18, <1>19,
       <1>20, <1>21, <1>22, <1>23, <1>24, <1>25, <1>26, <1>27
    DEF Next, ThreadWork, OperatorWork, RetireWork

(* Every variable keeps its domain, and a retired gate never opens again:  *)
(* retire's promise in input_gate.rs.                                      *)
THEOREM TypeCorrect == Spec => []TypeOK
  BY TypeInit, TypeStep, PTL DEF Spec

-----------------------------------------------------------------------------
(* Who drained the lease found no operation under it, and none begins.     *)
DrainedIdle == drained => revoked /\ ~InFlight

DrainedInv == TypeOK /\ DrainedIdle

(* Once the gate is drained, no step puts input in flight. *)
LEMMA DrainedStep == DrainedInv /\ [Next]_vars => DrainedInv'
<1> SUFFICES ASSUME DrainedInv, [Next]_vars PROVE DrainedIdle'
    BY TypeStep DEF DrainedInv
<1> USE DEF DrainedInv, DrainedIdle, InFlight
<1>1. ASSUME NEW ev \in Event, TakeUp(ev)
      PROVE  DrainedIdle'
      BY <1>1
      DEF TakeUp, Reading, gateVars, leaseVars, threadVars, injectorVars,
          budgets
<1>2. CASE Heartbeat
      BY <1>2
      DEF Heartbeat, Reading, Publish, Send, gateVars, leaseVars,
          threadVars, injectorVars, budgets
<1>3. CASE Halt
      BY <1>3 DEF Halt, gateVars, leaseVars, threadVars, injectorVars, budgets
<1>4. CASE Expire
      BY <1>4
      DEF Expire, Reading, gateVars, leaseVars, threadVars, injectorVars,
          budgets
<1>5. CASE ReleaseExpired
      BY <1>5
      DEF ReleaseExpired, gateVars, leaseVars, threadVars, injectorVars,
          budgets
<1>6. CASE CheckGate
      BY <1>6
      DEF CheckGate, gateVars, leaseVars, threadVars, injectorVars, budgets
<1>7. CASE Apply
      BY <1>7
      DEF Apply, gateVars, leaseVars, threadVars, injectorVars, budgets
<1>8. CASE ReadFlag
      BY <1>8
      DEF ReadFlag, gateVars, leaseVars, threadVars, injectorVars, budgets
<1>9. CASE Reply
      BY <1>9
      DEF Reply, Send, gateVars, leaseVars, threadVars, injectorVars,
          budgets
<1>10. CASE Leave
      BY <1>10
      DEF Leave, gateVars, leaseVars, threadVars, injectorVars, budgets
<1>11. CASE LeaveGate
      BY <1>11
      DEF LeaveGate, gateVars, leaseVars, threadVars, injectorVars, budgets
<1>12. CASE LeaveReleased
      BY <1>12
      DEF LeaveReleased, gateVars, leaseVars, threadVars, injectorVars,
          budgets
<1>13. ASSUME NEW b \in BOOLEAN, BeginToggle(b)
      PROVE  DrainedIdle'
      BY <1>13
      DEF BeginToggle, gateVars, leaseVars, threadVars, injectorVars,
          budgets
<1>14. ASSUME NEW b \in BOOLEAN, Deliver(b)
      PROVE  DrainedIdle'
      BY <1>14
      DEF Deliver, gateVars, leaseVars, threadVars, injectorVars, budgets
<1>15. CASE Enable
      BY <1>15
      DEF Enable, SetGate, Publish, Send, gateVars, leaseVars, threadVars,
          injectorVars, budgets
<1>16. CASE Disable
      BY <1>16
      DEF Disable, SetGate, Publish, Send, gateVars, leaseVars, threadVars,
          injectorVars, budgets
<1>17. CASE ReleaseDisabled
      BY <1>17
      DEF ReleaseDisabled, gateVars, leaseVars, threadVars, injectorVars,
          budgets
<1>18. CASE FenceSession
      BY <1>18
      DEF FenceSession, gateVars, leaseVars, threadVars, injectorVars,
          budgets
<1>19. CASE BeginRetire
      BY <1>19
      DEF BeginRetire, gateVars, leaseVars, threadVars, injectorVars,
          budgets
<1>20. CASE RetireGate
      BY <1>20
      DEF RetireGate, gateVars, leaseVars, threadVars, injectorVars, budgets
<1>21. CASE ReleaseRetired
      BY <1>21
      DEF ReleaseRetired, gateVars, leaseVars, threadVars, injectorVars,
          budgets
<1>22. CASE Join
      BY <1>22
      DEF Join, gateVars, leaseVars, threadVars, injectorVars, budgets
<1>23. CASE DropInjector
      BY <1>23
      DEF DropInjector, gateVars, leaseVars, threadVars, injectorVars,
          budgets
<1>24. CASE Revoke
      BY <1>24
      DEF Revoke, gateVars, leaseVars, threadVars, injectorVars, budgets
<1>25. CASE WaitIdle
      BY <1>25
      DEF WaitIdle, gateVars, leaseVars, threadVars, injectorVars, budgets
<1>26. CASE Lose
      BY <1>26
      DEF Lose, gateVars, leaseVars, threadVars, injectorVars, budgets
<1>27. CASE UNCHANGED vars
      BY <1>27
      DEF vars, gateVars, leaseVars, threadVars, injectorVars, budgets
<1> QED
    BY <1>1, <1>2, <1>3, <1>4, <1>5, <1>6, <1>7, <1>8, <1>9, <1>10,
       <1>11, <1>12, <1>13, <1>14, <1>15, <1>16, <1>17, <1>18, <1>19,
       <1>20, <1>21, <1>22, <1>23, <1>24, <1>25, <1>26, <1>27
    DEF Next, ThreadWork, OperatorWork, RetireWork

(* A drained lease lets neither an injection nor an enabling through.      *)
LEMMA DrainedIsQuiet ==
    ASSUME DrainedInv, [Next]_vars, drained
    PROVE  down' \subseteq down /\ ~(enabled' /\ ~enabled)
<1>d. Domains
      BY DEF DrainedInv, TypeOK, Domains
<1> USE DEF DrainedInv, DrainedIdle, InFlight
<1>1. ASSUME NEW ev \in Event, TakeUp(ev)
      PROVE  down' \subseteq down /\ ~(enabled' /\ ~enabled)
      BY <1>1
      DEF TakeUp, Reading, gateVars, leaseVars, threadVars, injectorVars,
          budgets
<1>2. CASE Heartbeat
      BY <1>2
      DEF Heartbeat, Reading, Publish, Send, gateVars, leaseVars,
          threadVars, injectorVars, budgets
<1>3. CASE Halt
      BY <1>3 DEF Halt, gateVars, leaseVars, threadVars, injectorVars, budgets
<1>4. CASE Expire
      BY <1>4
      DEF Expire, Reading, gateVars, leaseVars, threadVars, injectorVars,
          budgets
<1>5. CASE ReleaseExpired
      BY <1>5, <1>d, ReleaseAllLifts
      DEF ReleaseExpired, gateVars, leaseVars, threadVars, injectorVars,
          budgets
<1>6. CASE CheckGate
      BY <1>6
      DEF CheckGate, gateVars, leaseVars, threadVars, injectorVars, budgets
<1>7. CASE Apply
      BY <1>7
      DEF Apply, gateVars, leaseVars, threadVars, injectorVars, budgets
<1>8. CASE ReadFlag
      BY <1>8
      DEF ReadFlag, gateVars, leaseVars, threadVars, injectorVars, budgets
<1>9. CASE Reply
      BY <1>9
      DEF Reply, Send, gateVars, leaseVars, threadVars, injectorVars,
          budgets
<1>10. CASE Leave
      BY <1>10
      DEF Leave, gateVars, leaseVars, threadVars, injectorVars, budgets
<1>11. CASE LeaveGate
      BY <1>11
      DEF LeaveGate, gateVars, leaseVars, threadVars, injectorVars, budgets
<1>12. CASE LeaveReleased
      BY <1>12, <1>d, ReleaseAllLifts
      DEF LeaveReleased, gateVars, leaseVars, threadVars, injectorVars,
          budgets
<1>13. ASSUME NEW b \in BOOLEAN, BeginToggle(b)
      PROVE  down' \subseteq down /\ ~(enabled' /\ ~enabled)
      BY <1>13
      DEF BeginToggle, gateVars, leaseVars, threadVars, injectorVars,
          budgets
<1>14. ASSUME NEW b \in BOOLEAN, Deliver(b)
      PROVE  down' \subseteq down /\ ~(enabled' /\ ~enabled)
      BY <1>14
      DEF Deliver, gateVars, leaseVars, threadVars, injectorVars, budgets
<1>15. CASE Enable
      BY <1>15
      DEF Enable, SetGate, Publish, Send, gateVars, leaseVars, threadVars,
          injectorVars, budgets
<1>16. CASE Disable
      BY <1>16
      DEF Disable, SetGate, Publish, Send, gateVars, leaseVars, threadVars,
          injectorVars, budgets
<1>17. CASE ReleaseDisabled
      BY <1>17, <1>d, ReleaseAllLifts
      DEF ReleaseDisabled, ReleaseAll, gateVars, leaseVars, threadVars,
          injectorVars, budgets
<1>18. CASE FenceSession
      BY <1>18
      DEF FenceSession, gateVars, leaseVars, threadVars, injectorVars,
          budgets
<1>19. CASE BeginRetire
      BY <1>19
      DEF BeginRetire, gateVars, leaseVars, threadVars, injectorVars,
          budgets
<1>20. CASE RetireGate
      BY <1>20
      DEF RetireGate, gateVars, leaseVars, threadVars, injectorVars, budgets
<1>21. CASE ReleaseRetired
      BY <1>21, <1>d, ReleaseAllLifts
      DEF ReleaseRetired, gateVars, leaseVars, threadVars, injectorVars,
          budgets
<1>22. CASE Join
      BY <1>22
      DEF Join, gateVars, leaseVars, threadVars, injectorVars, budgets
<1>23. CASE DropInjector
      BY <1>23, <1>d, ReleaseAllLifts
      DEF DropInjector, gateVars, leaseVars, threadVars, injectorVars,
          budgets
<1>24. CASE Revoke
      BY <1>24
      DEF Revoke, gateVars, leaseVars, threadVars, injectorVars, budgets
<1>25. CASE WaitIdle
      BY <1>25
      DEF WaitIdle, gateVars, leaseVars, threadVars, injectorVars, budgets
<1>26. CASE Lose
      BY <1>26
      DEF Lose, gateVars, leaseVars, threadVars, injectorVars, budgets
<1>27. CASE UNCHANGED vars
      BY <1>27
      DEF vars, gateVars, leaseVars, threadVars, injectorVars, budgets
<1> QED
    BY <1>1, <1>2, <1>3, <1>4, <1>5, <1>6, <1>7, <1>8, <1>9, <1>10,
       <1>11, <1>12, <1>13, <1>14, <1>15, <1>16, <1>17, <1>18, <1>19,
       <1>20, <1>21, <1>22, <1>23, <1>24, <1>25, <1>26, <1>27
    DEF Next, ThreadWork, OperatorWork, RetireWork

(* Once a revocation drained the lease, the session presses nothing more   *)
(* and is not enabled again (DrainedMeansQuiet): revocation in control.rs  *)
(* waits for SourceLease::wait_idle before it reports success.             *)
THEOREM RevocationIsFinal == Spec => DrainedMeansQuiet
<1>1. Init => DrainedInv
      BY TypeInit DEF Init, DrainedInv, DrainedIdle
<1>2. DrainedInv /\ [Next]_vars =>
        [drained => down' \subseteq down /\ ~(enabled' /\ ~enabled)]_vars
      BY DrainedIsQuiet
<1> QED BY <1>1, <1>2, DrainedStep, PTL DEF Spec, DrainedMeansQuiet

-----------------------------------------------------------------------------
(* While Windows refuses nothing, the injector remembers what is down, and *)
(* the thread's own release is the last word: nothing is pressed after it. *)
ReleaseInv ==
    /\ TypeOK
    /\ failures = 0 => /\ down \subseteq remembered
                       /\ thread = "done" => down = {}
    /\ retirement \in {"joined", "dropped"} => thread = "done"

(* Without the side buttons, every step keeps the invariant of releases. *)
LEMMA ReleaseStep ==
    ASSUME SideButtons = {}
    PROVE  ReleaseInv /\ [Next]_vars => ReleaseInv'
<1> SUFFICES ASSUME ReleaseInv, [Next]_vars PROVE ReleaseInv'
    OBVIOUS
<1>d. Domains /\ TypeOK'
      BY TypeStep DEF ReleaseInv, TypeOK, Domains
<1>n. failures \in Nat /\ failures' \in Nat
      BY <1>d DEF TypeOK, Domains
<1>r. ASSUME ReleaseAll, failures' = 0
      PROVE  down' = {} /\ failures = 0
  <2>1. ~ReleaseFails
        BY <1>r, <1>n DEF ReleaseFails
  <2>2. ReleaseSucceeds
        BY <1>r, <2>1 DEF ReleaseAll
  <2> QED BY <1>r, <2>2 DEF ReleaseSucceeds, ReleaseInv
<1> USE <1>d DEF ReleaseInv
<1>1. ASSUME NEW ev \in Event, TakeUp(ev)
      PROVE  ReleaseInv'
      BY <1>1
      DEF TakeUp, Reading, gateVars, leaseVars, threadVars, injectorVars,
          budgets
<1>2. CASE Heartbeat
      BY <1>2
      DEF Heartbeat, Reading, Publish, Send, gateVars, leaseVars,
          threadVars, injectorVars, budgets
<1>3. CASE Halt
      BY <1>3 DEF Halt, gateVars, leaseVars, threadVars, injectorVars, budgets
<1>4. CASE Expire
      BY <1>4
      DEF Expire, Reading, gateVars, leaseVars, threadVars, injectorVars,
          budgets
<1>5. CASE ReleaseExpired
      BY <1>5, <1>r, <1>n
      DEF ReleaseExpired, gateVars, leaseVars, threadVars, injectorVars,
          budgets
<1>6. CASE CheckGate
      BY <1>6
      DEF CheckGate, gateVars, leaseVars, threadVars, injectorVars, budgets
<1>7. CASE Apply
      BY <1>7, <1>r, <1>n
      DEF Apply, Inject, gateVars, leaseVars, threadVars, injectorVars,
          budgets
<1>8. CASE ReadFlag
      BY <1>8
      DEF ReadFlag, gateVars, leaseVars, threadVars, injectorVars, budgets
<1>9. CASE Reply
      BY <1>9
      DEF Reply, Send, gateVars, leaseVars, threadVars, injectorVars,
          budgets
<1>10. CASE Leave
      BY <1>10
      DEF Leave, gateVars, leaseVars, threadVars, injectorVars, budgets
<1>11. CASE LeaveGate
      BY <1>11
      DEF LeaveGate, gateVars, leaseVars, threadVars, injectorVars, budgets
<1>12. CASE LeaveReleased
      BY <1>12, <1>r, <1>n
      DEF LeaveReleased, gateVars, leaseVars, threadVars, injectorVars,
          budgets
<1>13. ASSUME NEW b \in BOOLEAN, BeginToggle(b)
      PROVE  ReleaseInv'
      BY <1>13
      DEF BeginToggle, gateVars, leaseVars, threadVars, injectorVars,
          budgets
<1>14. ASSUME NEW b \in BOOLEAN, Deliver(b)
      PROVE  ReleaseInv'
      BY <1>14
      DEF Deliver, gateVars, leaseVars, threadVars, injectorVars, budgets
<1>15. CASE Enable
      BY <1>15
      DEF Enable, SetGate, Publish, Send, gateVars, leaseVars, threadVars,
          injectorVars, budgets
<1>16. CASE Disable
      BY <1>16
      DEF Disable, SetGate, Publish, Send, gateVars, leaseVars, threadVars,
          injectorVars, budgets
<1>17. CASE ReleaseDisabled
      BY <1>17, <1>r, <1>n
      DEF ReleaseDisabled, ReleaseAll, gateVars, leaseVars, threadVars,
          injectorVars, budgets
<1>18. CASE FenceSession
      BY <1>18
      DEF FenceSession, gateVars, leaseVars, threadVars, injectorVars,
          budgets
<1>19. CASE BeginRetire
      BY <1>19
      DEF BeginRetire, gateVars, leaseVars, threadVars, injectorVars,
          budgets
<1>20. CASE RetireGate
      BY <1>20
      DEF RetireGate, gateVars, leaseVars, threadVars, injectorVars, budgets
<1>21. CASE ReleaseRetired
      BY <1>21, <1>r, <1>n
      DEF ReleaseRetired, gateVars, leaseVars, threadVars, injectorVars,
          budgets
<1>22. CASE Join
      BY <1>22
      DEF Join, gateVars, leaseVars, threadVars, injectorVars, budgets
<1>23. CASE DropInjector
      BY <1>23, <1>r, <1>n
      DEF DropInjector, gateVars, leaseVars, threadVars, injectorVars,
          budgets
<1>24. CASE Revoke
      BY <1>24
      DEF Revoke, gateVars, leaseVars, threadVars, injectorVars, budgets
<1>25. CASE WaitIdle
      BY <1>25
      DEF WaitIdle, gateVars, leaseVars, threadVars, injectorVars, budgets
<1>26. CASE Lose
      BY <1>26
      DEF Lose, gateVars, leaseVars, threadVars, injectorVars, budgets
<1>27. CASE UNCHANGED vars
      BY <1>27
      DEF vars, gateVars, leaseVars, threadVars, injectorVars, budgets
<1> QED
    BY <1>1, <1>2, <1>3, <1>4, <1>5, <1>6, <1>7, <1>8, <1>9, <1>10,
       <1>11, <1>12, <1>13, <1>14, <1>15, <1>16, <1>17, <1>18, <1>19,
       <1>20, <1>21, <1>22, <1>23, <1>24, <1>25, <1>26, <1>27
    DEF Next, ThreadWork, OperatorWork, RetireWork

(* Without back and forward buttons, and as long as Windows accepts every  *)
(* up, a retired session leaves nothing pressed, however its thread, the   *)
(* operator, the retirement and the revocation interleaved.                *)
THEOREM RetirementLetsGo ==
    ASSUME SideButtons = {}
    PROVE  Spec => []RetirementReleases
<1>1. Init => ReleaseInv
      BY TypeInit DEF Init, ReleaseInv
<1>2. ReleaseInv => RetirementReleases
  <2> SUFFICES ASSUME ReleaseInv, retirement = "dropped", failures = 0
               PROVE  down = {}
      BY DEF RetirementReleases
  <2>1. thread = "done"
        BY DEF ReleaseInv
  <2> QED BY <2>1 DEF ReleaseInv
<1> QED BY <1>1, <1>2, ReleaseStep, PTL DEF Spec
=============================================================================
