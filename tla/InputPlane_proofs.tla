------------------------- MODULE InputPlane_proofs -------------------------
(***************************************************************************)
(* Theorems about InputPlane, for every value of its constants: how many   *)
(* keys and events, how long the queue, how often datagrams are lost.      *)
(* What concerns order and acknowledgements holds as long as the viewer    *)
(* has opened one challenge: the second starts a new sequence space on the *)
(* viewer and not on the host, and the promises end there.                 *)
(***************************************************************************)
EXTENDS InputPlane, SequenceTheorems, TLAPS

-----------------------------------------------------------------------------
(* Types.                                                                  *)

(* What is pressed is a key. *)
Pressed(ev) == ev.op = "down" => ev.key \in Keys

(* The scheduler keeps its types by itself, ... *)
SchedInv ==
    /\ SchedTypeOK
    /\ \A i \in 1..Len(queue) : Pressed(queue[i])
    /\ Pressed(pending.ev)

(* ... and so does the receiver, ... *)
RecvInv ==
    /\ phase \in Phases
    /\ last \in Nat /\ lastPtr \in Nat /\ hostPtr \in Nat
    /\ enabled \in BOOLEAN
    /\ handling \in [m : Datagram, last : Nat, enabled : BOOLEAN, newer : BOOLEAN]
    /\ Pressed(handling.m.ev)
    /\ langSeq \in Nat
    /\ langTask \in Datagram
    /\ releaseTasks \in Nat
    /\ held \subseteq Keys
    /\ done \in Nat /\ resynced \in BOOLEAN

(* ... of whatever travels between them. *)
WireInv ==
    /\ net \subseteq Datagram
    /\ \A m \in net : Pressed(m.ev)
    /\ acks \subseteq [seq : Nat, hi : Nat, attempt : Nat, space : Nat]
    /\ challenges \in Nat /\ echoes \in Nat /\ sent \in Nat /\ space \in Nat

UserInv ==
    /\ phys \subseteq Keys
    /\ pushed \in Nat /\ moves \in Nat /\ releases \in Nat
    /\ confirmed \in Nat /\ faults \in Nat /\ toggles \in Nat

TypeInv == SchedInv /\ RecvInv /\ WireInv /\ UserInv

(* The four parts give the type invariant of the module. *)
LEMMA TypeInvImplies == TypeInv => TypeOK
  BY DEF TypeInv, TypeOK, SchedInv, RecvInv, WireInv, UserInv

(* The records the plane builds are of their types. *)
LEMMA Records ==
    /\ \A at \in Nat : Release(at) \in Event /\ Pressed(Release(at))
    /\ NoDatagram \in Datagram /\ NoPending \in Pending
    /\ Pressed(NoDatagram.ev) /\ Pressed(NoPending.ev)
    /\ \A p \in Pending, s \in Nat :
          /\ ReliableDatagram(p, s) \in Datagram
          /\ ReliableDatagram(p, s).ev = p.ev
    /\ \A s, i, sp \in Nat :
          MoveDatagram(s, i, sp) \in Datagram /\ Pressed(MoveDatagram(s, i, sp).ev)
  BY DEF Release, Event, Kinds, Pressed, NoDatagram, NoPending, Pending, Datagram,
         ReliableDatagram, MoveDatagram

(* The types hold at the start. *)
LEMMA TypeInit == Init => TypeInv
<1> SUFFICES ASSUME Init PROVE TypeInv
    OBVIOUS
<1>1. SchedInv
  <2>1. /\ queue = <<>> /\ pending = NoPending /\ nextSeq = 1
        /\ pointer = 0 /\ nextPtrSeq = 1
        BY DEF Init, SchedInit
  <2> QED BY <2>1, Records, SchedulerAssumption DEF SchedInv, SchedTypeOK, Outstanding, NoPending
<1>2. RecvInv
  <2>1. /\ Idle \in [m : Datagram, last : Nat, enabled : BOOLEAN, newer : BOOLEAN]
        /\ Pressed(Idle.m.ev)
        BY Records DEF Idle
  <2> QED BY <2>1, Records DEF Init, RecvInit, RecvInv, Phases
<1>3. WireInv /\ UserInv
      BY DEF Init, WireInv, UserInv
<1> QED BY <1>1, <1>2, <1>3 DEF TypeInv

-----------------------------------------------------------------------------
(* The scheduler by itself.                                                *)

(* A full queue becomes one ReleaseAll; else the event is appended. *)
LEMMA EnqueueType ==
    ASSUME SchedInv, NEW ev \in Event, Pressed(ev), Enqueue(ev)
    PROVE  SchedInv'
<1>1. CASE Len(queue) >= MaxQueue
  <2>1. queue' = <<Release(ev.hi)>> /\ pending' = NoPending
        BY <1>1 DEF Enqueue
  <2>2. Release(ev.hi) \in Event /\ Pressed(Release(ev.hi))
        BY Records DEF Event
  <2>3. queue' \in Seq(Event) /\ Len(queue') = 1 /\ queue'[1] = Release(ev.hi)
        BY <2>1, <2>2
  <2>4. pending' \in Pending /\ pending'.seq = 0 /\ Pressed(pending'.ev)
        BY <2>1, Records DEF NoPending
  <2> QED BY <2>1, <2>2, <2>3, <2>4, SchedulerAssumption
          DEF Enqueue, SchedInv, SchedTypeOK, Outstanding
<1>2. CASE Len(queue) < MaxQueue
  <2>1. queue' = Append(queue, ev) /\ pending' = pending
        BY <1>2, SchedulerAssumption DEF Enqueue, SchedInv, SchedTypeOK
  <2>2. /\ queue' \in Seq(Event) /\ Len(queue') = Len(queue) + 1
        /\ \A i \in 1..Len(queue') : queue'[i] = IF i <= Len(queue) THEN queue[i] ELSE ev
        BY <2>1 DEF SchedInv, SchedTypeOK
  <2> QED BY <1>2, <2>1, <2>2, SchedulerAssumption
          DEF Enqueue, SchedInv, SchedTypeOK, Outstanding
<1> QED BY <1>1, <1>2, SchedulerAssumption DEF SchedInv, SchedTypeOK

(* A producer call keeps the types, merged scroll or not. *)
LEMMA PushType ==
    ASSUME SchedInv, NEW ev \in Event, Pressed(ev), PushReliable(ev)
    PROVE  SchedInv'
<1>1. CASE MergesScroll(ev)
  <2>1. /\ queue' = [queue EXCEPT ![Len(queue)].hi = ev.hi]
        /\ UNCHANGED <<pending, nextSeq, pointer, nextPtrSeq>>
        BY <1>1 DEF PushReliable
  <2>2. queue \in Seq(Event) /\ queue # <<>> /\ Len(queue) \in 1..Len(queue)
    <3>1. queue \in Seq(Event) /\ queue # <<>>
          BY <1>1 DEF MergesScroll, SchedInv, SchedTypeOK
    <3> QED BY <3>1, EmptySeq, LenProperties
  <2>3. /\ Len(queue') = Len(queue)
        /\ \A i \in 1..Len(queue') : /\ queue'[i] \in Event
                                     /\ queue'[i].op = queue[i].op
                                     /\ queue'[i].key = queue[i].key
    <3>1. ev.hi \in Nat /\ DOMAIN queue = 1..Len(queue)
          BY <2>2 DEF Event
    <3>2. /\ Len(queue') = Len(queue)
          /\ \A i \in 1..Len(queue) :
                queue'[i] = IF i = Len(queue) THEN [queue[i] EXCEPT !.hi = ev.hi] ELSE queue[i]
          BY <2>1, <2>2
    <3>3. \A i \in 1..Len(queue) : queue[i] \in Event
          BY <2>2
    <3> QED BY <3>1, <3>2, <3>3 DEF Event
  <2>4. queue' \in Seq(Event)
        BY <2>1, <2>2, <2>3
  <2> QED BY <2>1, <2>3, <2>4 DEF SchedInv, SchedTypeOK, Outstanding, Pressed
<1>2. CASE ~MergesScroll(ev)
      BY <1>2, EnqueueType DEF PushReliable
<1> QED BY <1>1, <1>2

(* Every other operation of the scheduler keeps its types. *)
LEMMA ScheduleType ==
    ASSUME SchedInv,
           \/ \E id \in Nat : PushMove(id)
           \/ \E at \in Nat : PushRelease(at)
           \/ \E at \in Nat : GiveUp(at)
           \/ Resend \/ SendNext \/ SendPointer \/ ResetSession
           \/ \E seq \in Nat : Acknowledge(seq)
           \/ UNCHANGED schedVars
    PROVE  SchedInv' /\ (pending' \in Pending /\ Pressed(pending'.ev))
<1> SUFFICES SchedInv'
    BY DEF SchedInv, SchedTypeOK
<1> USE DEF SchedInv, SchedTypeOK, Outstanding
<1>1. CASE \E id \in Nat : PushMove(id)
      BY <1>1 DEF PushMove
<1>2. CASE \E at \in Nat : PushRelease(at)
  <2>1. PICK at \in Nat : PushRelease(at)
        BY <1>2
  <2>2. Release(at) \in Event /\ Pressed(Release(at))
        BY Records
  <2>3. queue' \in Seq(Event) /\ Len(queue') = 1 /\ queue'[1] = Release(at)
        BY <2>1, <2>2 DEF PushRelease
  <2>4. pending' = NoPending /\ NoPending.seq = 0
        BY <2>1 DEF PushRelease, NoPending
  <2> QED BY <2>1, <2>2, <2>3, <2>4, Records, SchedulerAssumption DEF PushRelease
<1>3. CASE \E at \in Nat : GiveUp(at)
  <2>1. PICK at \in Nat : GiveUp(at)
        BY <1>3
  <2>2. Release(at) \in Event /\ Pressed(Release(at))
        BY Records
  <2>3. pending' \in Pending /\ pending'.seq = nextSeq /\ pending'.ev = Release(at)
        BY <2>1, <2>2 DEF GiveUp, Pending
  <2> QED BY <2>1, <2>2, <2>3, SchedulerAssumption DEF GiveUp
<1>4. CASE Resend
      BY <1>4 DEF Resend, Pending
<1>5. CASE SendNext
  <2>1. Head(queue) \in Event /\ Head(queue) = queue[1] /\ Len(queue) \in Nat \ {0}
    <3>1. queue \in Seq(Event) /\ queue # <<>>
          BY <1>5 DEF SendNext
    <3> QED BY <3>1, EmptySeq, LenProperties, HeadTailProperties
  <2>2. /\ Tail(queue) \in Seq(Event) /\ Len(Tail(queue)) = Len(queue) - 1
        /\ \A i \in 1..Len(Tail(queue)) : Tail(queue)[i] = queue[i + 1]
        BY <2>1, <1>5, HeadTailProperties DEF SendNext
  <2>3. pending' \in Pending /\ pending'.seq = nextSeq /\ pending'.ev = queue[1]
        BY <1>5, <2>1 DEF SendNext, Pending
  <2>4. \A i \in 1..Len(queue') : i + 1 \in 1..Len(queue) /\ queue'[i] = queue[i + 1]
        BY <1>5, <2>1, <2>2 DEF SendNext
  <2>5. queue' \in Seq(Event) /\ Len(queue') <= MaxQueue
        BY <1>5, <2>1, <2>2, SchedulerAssumption DEF SendNext
  <2>6. pending'.seq < nextSeq' /\ nextSeq' \in Nat \ {0} /\ pending'.seq # 0
        BY <1>5, <2>3 DEF SendNext
  <2>7. \A i \in 1..Len(queue') : Pressed(queue'[i])
        BY <2>4
  <2>8. Pressed(pending'.ev)
        BY <2>1, <2>3
  <2> QED BY <1>5, <2>3, <2>5, <2>6, <2>7, <2>8 DEF SendNext
<1>6. CASE SendPointer
      BY <1>6 DEF SendPointer
<1>7. CASE ResetSession
      BY <1>7, Records, SchedulerAssumption DEF ResetSession, NoPending
<1>8. CASE \E seq \in Nat : Acknowledge(seq)
  <2>1. pending' = NoPending \/ pending' = pending
        BY <1>8 DEF Acknowledge
  <2>2. NoPending.seq = 0 /\ NoPending \in Pending /\ Pressed(NoPending.ev)
        BY Records DEF NoPending
  <2>3. UNCHANGED <<queue, nextSeq, pointer, nextPtrSeq>>
        BY <1>8 DEF Acknowledge
  <2> HIDE DEF NoPending
  <2> QED BY <2>1, <2>2, <2>3
<1>9. CASE UNCHANGED schedVars
      BY <1>9 DEF schedVars
<1> QED BY <1>1, <1>2, <1>3, <1>4, <1>5, <1>6, <1>7, <1>8, <1>9

-----------------------------------------------------------------------------
(* The receiver by itself.                                                 *)

Receives ==
    \/ OpenSession \/ FinishMove \/ FinishDuplicate \/ FinishRelease
    \/ FinishLanguage \/ FinishEvent \/ FinishIgnored \/ RunLanguage \/ RunRelease
    \/ BeginStop \/ FinishStop \/ Deallocate
    \/ \E b \in BOOLEAN : SetInputEnabled(b)
    \/ UNCHANGED recvVars

(* The idle handler is typed. *)
LEMMA IdleType ==
    /\ Idle \in [m : Datagram, last : Nat, enabled : BOOLEAN, newer : BOOLEAN]
    /\ Pressed(Idle.m.ev)
  BY Records DEF Idle

(* The snapshot is typed. *)
LEMMA BeginType ==
    ASSUME RecvInv, NEW m \in Datagram, Pressed(m.ev), Begin(m)
    PROVE  RecvInv'
  BY DEF RecvInv, Begin, Datagram

(* Every other operation of the receiver keeps its types. *)
LEMMA ReceiveType ==
    ASSUME RecvInv, Receives
    PROVE  RecvInv'
<1> USE DEF RecvInv, Phases
<1>1. CASE OpenSession
      BY <1>1 DEF OpenSession
<1>2. CASE FinishMove
      BY <1>2, IdleType DEF FinishMove, Datagram
<1>3. CASE FinishDuplicate
      BY <1>3, IdleType DEF FinishDuplicate
<1>4. CASE FinishRelease
      BY <1>4, IdleType, Records DEF FinishRelease, CancelLanguage, Datagram
<1>5. CASE FinishLanguage
      BY <1>5, IdleType DEF FinishLanguage, Datagram
<1>6. CASE FinishEvent
  <2>1. handling.m.seq \in Nat /\ handling.m.ev \in Event /\ handling.m.ev.hi \in Nat
        BY DEF Datagram, Event
  <2>2. held' \subseteq Keys
    <3>1. CASE handling.m.ev.op = "down"
          BY <1>6, <3>1 DEF FinishEvent, Inject, Pressed
    <3>2. CASE handling.m.ev.op = "up"
          BY <1>6, <3>2 DEF FinishEvent, Inject
    <3>3. CASE handling.m.ev.op \notin {"down", "up"}
          BY <1>6, <3>3 DEF FinishEvent, Inject
    <3> QED BY <3>1, <3>2, <3>3
  <2> QED BY <1>6, <2>1, <2>2, IdleType DEF FinishEvent
<1>7. CASE FinishIgnored
      BY <1>7, IdleType DEF FinishIgnored
<1>8. CASE RunLanguage
  <2>1. langTask.seq \in Nat /\ langTask.ev.hi \in Nat
        BY DEF Datagram, Event
  <2>2. CASE langTask.seq = last + 1
    <3>1. /\ last' \in Nat /\ done' \in Nat /\ resynced' \in BOOLEAN
          /\ langSeq' \in Nat /\ langTask' \in Datagram
      <4>1. /\ langTask' = NoDatagram /\ langSeq' = 0 /\ last' = langTask.seq
            /\ done' = langTask.ev.hi /\ resynced' = FALSE
            BY <1>8, <2>2 DEF RunLanguage
      <4>2. NoDatagram \in Datagram
            BY Records
      <4> QED BY <2>1, <4>1, <4>2
    <3>2. UNCHANGED <<phase, lastPtr, enabled, handling, releaseTasks, held, hostPtr>>
          BY <1>8 DEF RunLanguage
    <3> QED BY <3>1, <3>2
  <2>3. CASE langTask.seq # last + 1
        BY <1>8, <2>1, <2>3, Records DEF RunLanguage
  <2> QED BY <2>2, <2>3
<1>9. CASE RunRelease
      BY <1>9 DEF RunRelease
<1>10. CASE BeginStop
      BY <1>10, Records DEF BeginStop, CancelLanguage
<1>11. CASE FinishStop
      BY <1>11 DEF FinishStop
<1>12. CASE Deallocate
      BY <1>12 DEF Deallocate
<1>13. CASE \E b \in BOOLEAN : SetInputEnabled(b)
      BY <1>13, Records DEF SetInputEnabled, CancelLanguage
<1>14. CASE UNCHANGED recvVars
      BY <1>14 DEF recvVars
<1> QED BY <1>1, <1>2, <1>3, <1>4, <1>5, <1>6, <1>7, <1>8, <1>9, <1>10, <1>11,
           <1>12, <1>13, <1>14 DEF Receives

-----------------------------------------------------------------------------
(* The plane.                                                              *)

(* An acknowledgement travels and nothing else of the plane changes. *)
LEMMA AckType ==
    ASSUME WireInv, UserInv, NEW m \in Datagram, Acknowledged(m)
    PROVE  WireInv' /\ UserInv' /\ UNCHANGED schedVars
<1>1. Ack(m) \in [seq : Nat, hi : Nat, attempt : Nat, space : Nat]
      BY DEF Ack, Datagram, Event
<1> QED BY <1>1 DEF WireInv, UserInv, Acknowledged, userVars, schedVars

(* No acknowledgement is sent. *)
LEMMA UnackType ==
    ASSUME WireInv, UserInv, Unacknowledged
    PROVE  WireInv' /\ UserInv' /\ UNCHANGED schedVars
  BY DEF WireInv, UserInv, Unacknowledged, userVars, netVars, schedVars

(* The producers keep the types, ... *)
LEMMA ProduceType == TypeInv /\ Produce => TypeInv'
<1> SUFFICES ASSUME TypeInv, Produce PROVE TypeInv'
    OBVIOUS
<1>1. SchedInv /\ RecvInv /\ WireInv /\ UserInv
      BY DEF TypeInv
<1>2. ASSUME NEW op \in {"down", "up"} \cup Typed, NEW key \in Keys \cup {NoKey},
             op = "down" => key \in Keys, PushEvent(op, key), phys' \subseteq Keys
      PROVE  TypeInv'
  <2> DEFINE ev == [op |-> op, key |-> key, lo |-> pushed + 1, hi |-> pushed + 1]
  <2>1. ev \in Event /\ Pressed(ev)
    <3>1. op \in Kinds /\ pushed + 1 \in Nat
          BY <1>1, <1>2, PlaneAssumption DEF UserInv, Kinds
    <3>2. ev.op = op /\ ev.key = key
          OBVIOUS
    <3> QED BY <1>2, <3>1, <3>2 DEF Event, Pressed
  <2>2. SchedInv'
        BY <1>1, <1>2, <2>1, PushType DEF PushEvent
  <2>3. RecvInv'
        BY <1>1, <1>2, ReceiveType DEF PushEvent, Receives
  <2>4. WireInv' /\ UserInv'
        BY <1>1, <1>2 DEF PushEvent, WireInv, UserInv, netVars
  <2> QED BY <2>2, <2>3, <2>4 DEF TypeInv
<1>3. CASE \E k \in Keys : PressKey(k) \/ LiftKey(k)
      BY <1>1, <1>2, <1>3 DEF PressKey, LiftKey, UserInv
<1>4. CASE \E op \in Kinds : Type(op)
      BY <1>1, <1>2, <1>4, PlaneAssumption DEF Type, UserInv
<1>5. CASE LoseFocus
  <2>1. SchedInv'
        BY <1>1, <1>5, ScheduleType DEF LoseFocus, UserInv
  <2>2. RecvInv'
        BY <1>1, <1>5, ReceiveType DEF LoseFocus, Receives
  <2>3. WireInv' /\ UserInv'
        BY <1>1, <1>5 DEF LoseFocus, WireInv, UserInv, netVars
  <2> QED BY <2>1, <2>2, <2>3 DEF TypeInv
<1>6. CASE MovePointer
  <2>1. SchedInv'
    <3>1. moves + 1 \in Nat
          BY <1>1 DEF UserInv
    <3> QED BY <1>1, <1>6, <3>1, ScheduleType DEF MovePointer
  <2>2. RecvInv'
        BY <1>1, <1>6, ReceiveType DEF MovePointer, Receives
  <2>3. WireInv' /\ UserInv'
        BY <1>1, <1>6 DEF MovePointer, WireInv, UserInv, netVars
  <2> QED BY <2>1, <2>2, <2>3 DEF TypeInv
<1> QED BY <1>3, <1>4, <1>5, <1>6 DEF Produce

(* ... the viewer's socket loop keeps them, ... *)
LEMMA ViewerType == TypeInv /\ ViewerStep => TypeInv'
<1> SUFFICES ASSUME TypeInv, ViewerStep PROVE TypeInv'
    OBVIOUS
<1>1. SchedInv /\ RecvInv /\ WireInv /\ UserInv
      BY DEF TypeInv
<1>2. ASSUME SchedInv', pending' \in Pending, Pressed(pending'.ev), SendPending,
             faults' = faults \/ faults' = faults + 1
      PROVE  TypeInv'
  <2>1. /\ ReliableDatagram(pending', space) \in Datagram
        /\ Pressed(ReliableDatagram(pending', space).ev)
        BY <1>1, <1>2, Records DEF WireInv
  <2>2. RecvInv'
        BY <1>1, <1>2, ReceiveType DEF SendPending, Receives
  <2>3. WireInv' /\ UserInv'
        BY <1>1, <1>2, <2>1 DEF SendPending, WireInv, UserInv, userVars
  <2> QED BY <1>2, <2>2, <2>3 DEF TypeInv
<1>3. CASE ViewerSendNext
      BY <1>1, <1>2, <1>3, ScheduleType DEF ViewerSendNext
<1>4. CASE ViewerGiveUp
      BY <1>1, <1>2, <1>4, ScheduleType DEF ViewerGiveUp, UserInv
<1>5. CASE ViewerResend
      BY <1>1, <1>2, <1>5, ScheduleType DEF ViewerResend
<1>6. CASE ViewerSendPointer
  <2>1. SchedInv'
        BY <1>1, <1>6, ScheduleType DEF ViewerSendPointer
  <2>2. RecvInv'
        BY <1>1, <1>6, ReceiveType DEF ViewerSendPointer, Receives
  <2>3. /\ MoveDatagram(nextPtrSeq, pointer, space) \in Datagram
        /\ Pressed(MoveDatagram(nextPtrSeq, pointer, space).ev)
        BY <1>1, Records DEF SchedInv, SchedTypeOK, WireInv
  <2>4. WireInv' /\ UserInv'
        BY <1>1, <1>6, <2>3 DEF ViewerSendPointer, WireInv, UserInv, userVars
  <2> QED BY <2>1, <2>2, <2>4 DEF TypeInv
<1>7. CASE \E a \in acks : ViewerReceiveAck(a)
  <2>1. PICK a \in acks : ViewerReceiveAck(a)
        BY <1>7
  <2>2. a.seq \in Nat
        BY <1>1, <2>1 DEF WireInv
  <2>3. SchedInv'
        BY <1>1, <2>1, <2>2, ScheduleType DEF ViewerReceiveAck
  <2>4. RecvInv'
        BY <1>1, <2>1, ReceiveType DEF ViewerReceiveAck, Receives
  <2>5. pending.ev.hi \in Nat
        BY <1>1 DEF SchedInv, SchedTypeOK, Pending, Event
  <2>6. WireInv' /\ UserInv'
        BY <1>1, <2>1, <2>5 DEF ViewerReceiveAck, WireInv, UserInv, userVars
  <2> QED BY <2>3, <2>4, <2>6 DEF TypeInv
<1>8. CASE ViewerOpenChallenge
  <2>1. SchedInv'
        BY <1>1, <1>8, ScheduleType DEF ViewerOpenChallenge
  <2>2. RecvInv'
        BY <1>1, <1>8, ReceiveType DEF ViewerOpenChallenge, Receives
  <2>3. WireInv' /\ UserInv'
        BY <1>1, <1>8 DEF ViewerOpenChallenge, WireInv, UserInv, userVars
  <2> QED BY <2>1, <2>2, <2>3 DEF TypeInv
<1> QED BY <1>3, <1>4, <1>5, <1>6, <1>7, <1>8 DEF ViewerStep

(* ... the handlers and blocks of the host keep them, ... *)
LEMMA FinishType ==
    ASSUME TypeInv, HostFinish \/ HostRunLanguage \/ HostRunRelease \/ HostTeardown
    PROVE  TypeInv'
<1>1. SchedInv /\ RecvInv /\ WireInv /\ UserInv
      BY DEF TypeInv
<1>2. Receives
      BY DEF HostFinish, HostRunLanguage, HostRunRelease, HostTeardown, Receives
<1>3. Unacknowledged \/ \E m \in Datagram : Acknowledged(m)
  <2>1. handling.m \in Datagram /\ langTask \in Datagram
        BY <1>1 DEF RecvInv
  <2> QED BY <2>1 DEF HostFinish, HostRunLanguage, HostRunRelease, HostTeardown
<1>4. RecvInv'
      BY <1>1, <1>2, ReceiveType
<1>5. WireInv' /\ UserInv' /\ UNCHANGED schedVars
      BY <1>1, <1>3, AckType, UnackType
<1>6. SchedInv'
      BY <1>1, <1>5, ScheduleType
<1> QED BY <1>4, <1>5, <1>6 DEF TypeInv

(* ... and so does the rest. *)
LEMMA RestType ==
    ASSUME TypeInv,
           \/ HostSendChallenge \/ HostReceiveEcho
           \/ \E m \in net : HostDiscard(m) \/ HostBegin(m)
           \/ Lose
           \/ \E b \in BOOLEAN : OperatorToggle(b)
           \/ UNCHANGED vars
    PROVE  TypeInv'
<1>1. SchedInv /\ RecvInv /\ WireInv /\ UserInv
      BY DEF TypeInv
<1>2. UNCHANGED schedVars
      BY DEF HostSendChallenge, HostReceiveEcho, HostDiscard, HostBegin, Lose,
             OperatorToggle, vars, schedVars
<1>3. SchedInv'
      BY <1>1, <1>2, ScheduleType
<1>4. RecvInv'
  <2>1. CASE \E m \in net : HostBegin(m)
        BY <1>1, <2>1, BeginType DEF HostBegin, WireInv
  <2>2. CASE ~\E m \in net : HostBegin(m)
    <3>1. Receives
          BY <2>2 DEF HostSendChallenge, HostReceiveEcho, HostDiscard, Lose,
                      OperatorToggle, vars, Receives
    <3> QED BY <1>1, <3>1, ReceiveType
  <2> QED BY <2>1, <2>2
<1>5. WireInv'
      BY <1>1 DEF HostSendChallenge, HostReceiveEcho, HostDiscard, HostBegin, Lose,
                  OperatorToggle, vars, planeVars, netVars, WireInv
<1>6. UserInv'
      BY <1>1 DEF HostSendChallenge, HostReceiveEcho, HostDiscard, HostBegin, Lose,
                  OperatorToggle, vars, planeVars, userVars, UserInv
<1> QED BY <1>3, <1>4, <1>5, <1>6 DEF TypeInv

(* Every step keeps the types. *)
LEMMA TypeStep == TypeInv /\ [Next]_vars => TypeInv'
  BY ProduceType, ViewerType, FinishType, RestType DEF Next, HostStep

(* Every variable stays in its domain, whatever is lost and retried; the   *)
(* viewer's queue is bounded and one event at most is outstanding.         *)
THEOREM TypeCorrect == Spec => []TypeOK
  BY TypeInit, TypeStep, TypeInvImplies, PTL DEF Spec

-----------------------------------------------------------------------------
(***************************************************************************)
(* Consent: a handler that saw input enabled is under way only while input *)
(* is still enabled or a release waits behind it.                          *)
(***************************************************************************)
ConsentInv ==
    phase # "gone" /\ (held # {} \/ (Busy /\ handling.enabled))
      => enabled \/ releaseTasks > 0

(* No handler runs at the start. *)
LEMMA ConsentInit == Init => ConsentInv
  BY DEF Init, RecvInit, ConsentInv, Idle, NoDatagram, Busy

(* The toggle that forbids input queues a release behind a handler that saw *)
(* it allowed.                                                              *)
LEMMA ConsentStep == TypeInv /\ ConsentInv /\ [Next]_vars => ConsentInv'
<1> SUFFICES ASSUME TypeInv, ConsentInv, [Next]_vars PROVE ConsentInv'
    OBVIOUS
<1>1. /\ enabled \in BOOLEAN /\ releaseTasks \in Nat
      /\ handling.enabled \in BOOLEAN /\ handling.newer \in BOOLEAN
      BY DEF TypeInv, RecvInv
<1>2. ~(Idle.m.kind # "none")
      BY DEF Idle, NoDatagram
<1>3. CASE UNCHANGED recvVars
      BY <1>3 DEF recvVars, ConsentInv, Busy
<1>4. CASE \E m \in net : HostBegin(m)
      BY <1>1, <1>4 DEF HostBegin, Begin, ConsentInv, Busy
<1>5. CASE OpenSession
      BY <1>5 DEF OpenSession, ConsentInv, Busy
<1>6. CASE FinishMove \/ FinishDuplicate \/ FinishIgnored \/ FinishLanguage
      BY <1>2, <1>6 DEF FinishMove, FinishDuplicate, FinishIgnored, FinishLanguage,
                        Reliable, ConsentInv, Busy
<1>7. CASE FinishRelease \/ FinishEvent
  <2>1. Busy /\ handling' = Idle /\ UNCHANGED <<phase, enabled, releaseTasks>>
        BY <1>7 DEF FinishRelease, FinishEvent, Reliable
  <2>2. ~handling.enabled => held' = held
        BY <1>7 DEF FinishRelease, FinishEvent
  <2> QED BY <1>2, <2>1, <2>2 DEF ConsentInv, Busy
<1>8. CASE RunLanguage
      BY <1>8 DEF RunLanguage, ConsentInv, Busy
<1>9. CASE RunRelease
      BY <1>9 DEF RunRelease, ConsentInv, Busy
<1>10. CASE BeginStop
      BY <1>10 DEF BeginStop, ConsentInv, Busy
<1>11. CASE FinishStop \/ Deallocate
      BY <1>1, <1>11 DEF FinishStop, Deallocate, ConsentInv
<1>12. CASE \E b \in BOOLEAN : SetInputEnabled(b)
      BY <1>1, <1>12 DEF SetInputEnabled, ConsentInv, Busy
<1> QED BY <1>3, <1>4, <1>5, <1>6, <1>7, <1>8, <1>9, <1>10, <1>11, <1>12
        DEF Next, Produce, PressKey, LiftKey, Type, PushEvent, LoseFocus, MovePointer,
            ViewerStep, ViewerSendNext, ViewerGiveUp, ViewerResend, ViewerSendPointer,
            SendPending, ViewerReceiveAck, ViewerOpenChallenge, HostStep,
            HostSendChallenge, HostReceiveEcho, HostDiscard, HostFinish, HostRunLanguage,
            HostRunRelease, HostTeardown, Lose, OperatorToggle, vars

(* Whatever the interleaving of the operator's toggle, a stop and the      *)
(* handlers: a key is held on the host only while input is enabled or a    *)
(* release is still queued.                                                *)
THEOREM HeldUnderConsent == Spec => []HeldOnlyUnderConsent
<1>1. ConsentInv => HeldOnlyUnderConsent
      BY DEF ConsentInv, HeldOnlyUnderConsent
<1> QED BY <1>1, TypeInit, TypeStep, ConsentInit, ConsentStep, PTL DEF Spec

-----------------------------------------------------------------------------
(***************************************************************************)
(* One sequence space: as long as the viewer has opened one challenge, the *)
(* numbers it has used are those of the events it has sent.  `log` is what *)
(* it has sent, and the invariants say that there is such a sequence.      *)
(***************************************************************************)

(* The host has taken up nothing yet. *)
Fresh ==
    /\ last = 0 /\ lastPtr = 0 /\ hostPtr = 0 /\ done = 0 /\ resynced
    /\ handling = Idle /\ langTask = NoDatagram
    /\ acks = {} /\ confirmed = 0

(* Before the viewer has opened a challenge it sends nothing, ... *)
BeforeSpace ==
    /\ phase = "proving" => Fresh
    /\ space = 0 =>
          /\ Fresh
          /\ phase \notin {"open", "stopping"} /\ echoes = 0 /\ net = {}
          /\ pending = NoPending /\ nextSeq = 1 /\ nextPtrSeq = 1

(* b follows a: producer calls in their order, none left out unless b      *)
(* releases everything.                                                    *)
FollowsOn(a, b) ==
    IF b.op = "release" THEN a.hi <= b.hi ELSE b.lo = a.hi + 1

IsLog(log) ==
    /\ log \in Seq(Event) /\ Len(log) = nextSeq - 1
    /\ \A i \in 1..Len(log) :
          /\ log[i].hi <= pushed
          /\ log[i].op # "release" => 1 <= log[i].lo /\ log[i].lo <= log[i].hi
          /\ \A j \in 1..Len(log) : i < j =>
                IF log[j].op = "release" THEN log[i].hi <= log[j].hi
                                         ELSE log[i].hi < log[j].lo
    /\ \A i \in 1..Len(log) - 1 : FollowsOn(log[i], log[i + 1])

IsQueue(log) ==
    /\ \A i \in 1..Len(queue) :
          /\ queue[i].hi <= pushed
          /\ queue[i].op # "release" => 1 <= queue[i].lo /\ queue[i].lo <= queue[i].hi
          /\ i > 1 => queue[i].op # "release" /\ queue[i].lo = queue[i - 1].hi + 1
    /\ queue # <<>> =>
          /\ queue[Len(queue)].hi = pushed
          /\ log # <<>> => FollowsOn(log[Len(log)], queue[1])
    /\ queue = <<>> /\ log # <<>> => log[Len(log)].hi = pushed

Logged(log, m) == m.seq \in 1..Len(log) /\ m.ev = log[m.seq]

InFlight(log) ==
    /\ \A m \in net : m.kind = "reliable" => Logged(log, m)
    /\ Reliable => Logged(log, handling.m)
    /\ langTask.kind # "none" => Logged(log, langTask) /\ langTask.ev.op = "lang"
    /\ Outstanding => pending.seq = Len(log) /\ pending.ev = log[Len(log)]

Executed(log) ==
    /\ last \in 0..Len(log)
    /\ last = 0 => done = 0 /\ resynced
    /\ last > 0 => IF resynced THEN log[last].op = "release" /\ done <= log[last].hi
                   ELSE log[last].op # "release" /\ done = log[last].hi
    /\ Busy => \/ last = handling.last
               \/ /\ last = handling.last + 1 /\ log[last].op = "lang"
                  /\ langTask = NoDatagram
    /\ \A a \in acks : a.seq \in 1..last /\ a.hi = log[a.seq].hi
    /\ confirmed # 0 => last > 0 /\ confirmed <= log[last].hi

LogInv(log) == IsLog(log) /\ IsQueue(log) /\ InFlight(log) /\ Executed(log)

DeliveryInv == BeforeSpace /\ (space <= 1 => \E log \in Seq(Event) : LogInv(log))

(* The same of the pointer's positions. *)
IsMove(m) == m.kind = "move"

PointerInv ==
    space <= 1 =>
      /\ hostPtr <= moves /\ pointer <= moves /\ lastPtr < nextPtrSeq
      /\ pointer # 0 => pointer > hostPtr
      /\ \A m \in net : IsMove(m) =>
            /\ m.id <= moves /\ m.seq < nextPtrSeq
            /\ pointer # 0 => m.id < pointer
            /\ m.seq > lastPtr => m.id > hostPtr
            /\ \A n \in net : IsMove(n) /\ m.seq < n.seq => m.id < n.id
      /\ IsMove(handling.m) /\ handling.newer =>
            /\ hostPtr < handling.m.id /\ handling.m.id <= moves
            /\ pointer # 0 => handling.m.id < pointer
            /\ \A m \in net : IsMove(m) /\ m.seq > lastPtr => m.id > handling.m.id

-----------------------------------------------------------------------------
(* Before the sequence space is there.                                     *)

(* Nothing is sent at the start. *)
LEMMA BeforeInit == Init => BeforeSpace
  BY DEF Init, SchedInit, RecvInit, BeforeSpace, Fresh

(* What the steps of the viewer leave alone. *)
LEMMA ViewerKeepsHost ==
    Produce \/ ViewerStep => UNCHANGED recvVars /\ UNCHANGED sent
  BY DEF Produce, PressKey, LiftKey, Type, PushEvent, LoseFocus, MovePointer,
         ViewerStep, ViewerSendNext, ViewerGiveUp, ViewerResend, ViewerSendPointer,
         SendPending, ViewerReceiveAck, ViewerOpenChallenge, netVars

(* A host that has taken up nothing has nothing to finish. *)
LEMMA FreshIsQuiet ==
    ASSUME Fresh
    PROVE  ~HostFinish /\ ~HostRunLanguage
<1>1. ~Busy /\ ~Reliable /\ ~(langTask.kind # "none")
      BY DEF Fresh, Busy, Reliable, Idle, NoDatagram
<1> QED BY <1>1 DEF HostFinish, HostRunLanguage, FinishMove, FinishDuplicate,
                    FinishRelease, FinishEvent, FinishIgnored, FinishLanguage, RunLanguage

(* Only an opened challenge lets the viewer send, and only its echo opens *)
(* the host.                                                              *)
LEMMA BeforeStep == TypeInv /\ BeforeSpace /\ [Next]_vars => BeforeSpace'
<1> SUFFICES ASSUME TypeInv, BeforeSpace, [Next]_vars PROVE BeforeSpace'
    OBVIOUS
<1>0. space \in Nat /\ echoes \in Nat /\ challenges \in Nat
      BY DEF TypeInv, WireInv
<1>1. CASE Produce
  <2>1. UNCHANGED recvVars /\ UNCHANGED <<netVars, confirmed, nextSeq, nextPtrSeq>>
        BY <1>1 DEF Produce, PressKey, LiftKey, Type, PushEvent, LoseFocus, MovePointer,
                    PushReliable, Enqueue, PushRelease, PushMove
  <2>2. pending' = pending \/ pending' = NoPending
        BY <1>1 DEF Produce, PressKey, LiftKey, Type, PushEvent, LoseFocus, MovePointer,
                    PushReliable, Enqueue, PushRelease, PushMove
  <2> QED BY <2>1, <2>2 DEF BeforeSpace, Fresh, recvVars, netVars
<1>2. CASE ViewerSendNext \/ ViewerGiveUp \/ ViewerResend \/ ViewerSendPointer
  <2>1. space > 0 /\ UNCHANGED <<recvVars, acks, space, confirmed>>
        BY <1>2 DEF ViewerSendNext, ViewerGiveUp, ViewerResend, ViewerSendPointer,
                    SendPending, Established, userVars
  <2> QED BY <1>0, <2>1 DEF BeforeSpace, Fresh, recvVars
<1>3. CASE \E a \in acks : ViewerReceiveAck(a)
  <2>1. ~Fresh
        BY <1>3 DEF Fresh
  <2>2. UNCHANGED <<phase, space>>
        BY <1>3 DEF ViewerReceiveAck, recvVars
  <2> QED BY <2>1, <2>2 DEF BeforeSpace
<1>4. CASE ViewerOpenChallenge
  <2>1. space' = space + 1 /\ UNCHANGED <<recvVars, acks, confirmed>>
        BY <1>4 DEF ViewerOpenChallenge
  <2> QED BY <1>0, <2>1 DEF BeforeSpace, Fresh, recvVars
<1>5. CASE HostSendChallenge
      BY <1>5 DEF HostSendChallenge, BeforeSpace, Fresh, recvVars, schedVars
<1>6. CASE HostReceiveEcho
  <2>1. echoes > 0 /\ space' = space
        BY <1>6 DEF HostReceiveEcho
  <2>2. space # 0
        BY <1>0, <2>1 DEF BeforeSpace
  <2>3. phase' = "proving" => phase = "proving" /\ UNCHANGED <<recvVars, acks, confirmed>>
        BY <1>6 DEF HostReceiveEcho, OpenSession, recvVars
  <2> QED BY <2>1, <2>2, <2>3 DEF BeforeSpace, Fresh, recvVars
<1>7. CASE \E m \in net : HostDiscard(m)
      BY <1>7 DEF HostDiscard, BeforeSpace, Fresh, recvVars, schedVars
<1>8. CASE \E m \in net : HostBegin(m)
  <2>1. phase' \in {"open", "stopping"} /\ phase' = phase /\ space' = space
        BY <1>8 DEF HostBegin, Begin
  <2> QED BY <2>1 DEF BeforeSpace
<1>9. CASE HostFinish \/ HostRunLanguage
  <2>1. ~Fresh
        BY <1>9, FreshIsQuiet
  <2>2. phase' = phase /\ space' = space
        BY <1>9 DEF HostFinish, HostRunLanguage, FinishMove, FinishDuplicate, FinishRelease,
                    FinishEvent, FinishIgnored, FinishLanguage, RunLanguage, Acknowledged,
                    Unacknowledged, netVars
  <2> QED BY <2>1, <2>2 DEF BeforeSpace
<1>10. CASE HostRunRelease
      BY <1>10 DEF HostRunRelease, RunRelease, Unacknowledged, netVars, schedVars,
                   BeforeSpace, Fresh
<1>11. CASE Lose
  <2>1. /\ UNCHANGED <<recvVars, schedVars, space, confirmed>>
        /\ net' \subseteq net /\ acks' \subseteq acks
        /\ echoes' = echoes \/ echoes > 0
        BY <1>11 DEF Lose
  <2> QED BY <1>0, <2>1 DEF BeforeSpace, Fresh, recvVars, schedVars
<1>12. CASE HostTeardown
  <2>1. /\ phase' \notin {"proving", "open"}
        /\ phase' = "stopping" => phase = "open"
        /\ langTask' \in {langTask, NoDatagram}
        /\ UNCHANGED <<last, lastPtr, hostPtr, done, resynced, handling>>
        /\ UNCHANGED <<schedVars, netVars, confirmed>>
        BY <1>12 DEF HostTeardown, BeginStop, FinishStop, Deallocate, Unacknowledged,
                     CancelLanguage
  <2> QED BY <2>1 DEF BeforeSpace, Fresh, netVars, schedVars
<1>13. CASE \E b \in BOOLEAN : OperatorToggle(b)
  <2>1. /\ phase = "open" /\ phase' = "open" /\ space' = space
        BY <1>13 DEF OperatorToggle, SetInputEnabled, netVars
  <2> QED BY <2>1 DEF BeforeSpace
<1>14. CASE UNCHANGED vars
      BY <1>14 DEF vars, planeVars, netVars, recvVars, schedVars, BeforeSpace, Fresh
<1> QED BY <1>1, <1>2, <1>3, <1>4, <1>5, <1>6, <1>7, <1>8, <1>9, <1>10, <1>11, <1>12,
           <1>13, <1>14 DEF Next, ViewerStep, HostStep

-----------------------------------------------------------------------------
(* The pointer.                                                            *)

(* The pointer has not moved. *)
LEMMA PointerInit == Init => PointerInv
  BY DEF Init, SchedInit, RecvInit, PointerInv, Idle, NoDatagram, IsMove

(* Steps that neither move the pointer nor carry its datagrams on. *)
(* Steps that neither move the pointer nor carry its datagrams on. *)
LEMMA PointerKept ==
    ASSUME TypeInv, PointerInv, space' = space,
           UNCHANGED <<hostPtr, lastPtr, moves, nextPtrSeq>>,
           pointer' \in {0, pointer},
           handling' = handling \/ handling' = Idle,
           \A m \in net' : IsMove(m) => m \in net
    PROVE  PointerInv'
<1>1. ~(IsMove(Idle.m) /\ Idle.newer)
      BY DEF IsMove, Idle, NoDatagram
<1>2. pointer' # 0 => pointer' = pointer
      OBVIOUS
<1>3. 0 <= moves
      BY DEF TypeInv, UserInv
<1> SUFFICES ASSUME space <= 1 PROVE PointerInv'
    BY DEF PointerInv
<1> DEFINE Old(m) == /\ m.id <= moves /\ m.seq < nextPtrSeq
                     /\ pointer # 0 => m.id < pointer
                     /\ m.seq > lastPtr => m.id > hostPtr
                     /\ \A n \in net : IsMove(n) /\ m.seq < n.seq => m.id < n.id
<1>4. \A m \in net : IsMove(m) => Old(m)
      BY DEF PointerInv
<1>5. \A m \in net' : IsMove(m) => Old(m)'
      BY <1>2, <1>4
<1>6. ASSUME IsMove(handling.m)', handling'.newer
      PROVE  /\ hostPtr < handling.m.id /\ handling.m.id <= moves /\ handling' = handling
             /\ pointer # 0 => handling.m.id < pointer
             /\ \A m \in net : IsMove(m) /\ m.seq > lastPtr => m.id > handling.m.id
      BY <1>1, <1>6 DEF PointerInv
<1>7. hostPtr' <= moves' /\ pointer' <= moves' /\ lastPtr' < nextPtrSeq'
      BY <1>3 DEF PointerInv
<1>8. pointer' # 0 => pointer' > hostPtr'
      BY <1>2 DEF PointerInv
<1> QED BY <1>2, <1>5, <1>6, <1>7, <1>8 DEF PointerInv

(* A position the host takes up is newer than the one it holds. *)
LEMMA PointerStep == TypeInv /\ BeforeSpace /\ PointerInv /\ [Next]_vars => PointerInv'
<1> SUFFICES ASSUME TypeInv, BeforeSpace, PointerInv, [Next]_vars PROVE PointerInv'
    OBVIOUS
<1>0. /\ space \in Nat /\ moves \in Nat /\ hostPtr \in Nat /\ lastPtr \in Nat
      /\ pointer \in Nat /\ nextPtrSeq \in Nat \ {0} /\ net \subseteq Datagram
      /\ handling.m \in Datagram
      BY DEF TypeInv, WireInv, UserInv, RecvInv, SchedInv, SchedTypeOK
<1>1. CASE MovePointer
  <2>1. /\ pointer' = moves + 1 /\ moves' = moves + 1
        /\ UNCHANGED <<hostPtr, lastPtr, nextPtrSeq, handling, net, space>>
        BY <1>1 DEF MovePointer, PushMove, recvVars, netVars
  <2>2. \A m \in Datagram : m.id \in Nat /\ m.seq \in Nat
        BY DEF Datagram
  <2> QED BY <1>0, <2>1, <2>2 DEF PointerInv
<1>2. CASE ViewerSendPointer
  <2> DEFINE new == MoveDatagram(nextPtrSeq, pointer, space)
  <2>1. /\ pointer # 0 /\ pointer' = 0 /\ nextPtrSeq' = nextPtrSeq + 1
        /\ net' = net \cup {new} /\ UNCHANGED <<hostPtr, lastPtr, handling, moves, space>>
        BY <1>2 DEF ViewerSendPointer, SendPointer, recvVars, userVars
  <2>2. new.seq = nextPtrSeq /\ new.id = pointer
        BY DEF MoveDatagram
  <2>3. \A m \in Datagram : m.id \in Nat /\ m.seq \in Nat
        BY DEF Datagram
  <2> HIDE DEF new
  <2> SUFFICES ASSUME space <= 1 PROVE PointerInv'
      BY <2>1 DEF PointerInv
  <2>4. /\ hostPtr <= moves /\ pointer <= moves /\ lastPtr < nextPtrSeq /\ pointer > hostPtr
        /\ \A m \in net : IsMove(m) =>
              /\ m.id <= moves /\ m.seq < nextPtrSeq /\ m.id < pointer
              /\ m.seq > lastPtr => m.id > hostPtr
              /\ \A n \in net : IsMove(n) /\ m.seq < n.seq => m.id < n.id
        /\ IsMove(handling.m) /\ handling.newer =>
              /\ hostPtr < handling.m.id /\ handling.m.id <= moves
              /\ handling.m.id < pointer
              /\ \A m \in net : IsMove(m) /\ m.seq > lastPtr => m.id > handling.m.id
        BY <2>1 DEF PointerInv
  <2>5. \A m \in net' : IsMove(m) =>
              /\ m.id <= moves /\ m.seq < nextPtrSeq + 1
              /\ m.seq > lastPtr => m.id > hostPtr
              /\ \A n \in net' : IsMove(n) /\ m.seq < n.seq => m.id < n.id
        BY <1>0, <2>1, <2>2, <2>3, <2>4
  <2>6. IsMove(handling.m) /\ handling.newer =>
              \A m \in net' : IsMove(m) /\ m.seq > lastPtr => m.id > handling.m.id
        BY <2>1, <2>2, <2>4
  <2>7. 0 <= moves /\ lastPtr < nextPtrSeq + 1
        BY <1>0, <2>4
  <2> QED BY <2>1, <2>4, <2>5, <2>6, <2>7 DEF PointerInv
<1>3. CASE \E m \in net : HostBegin(m)
  <2>1. PICK m \in net : HostBegin(m)
        BY <1>3
  <2>2. /\ handling' = [m |-> m, last |-> last, enabled |-> enabled,
                         newer |-> m.kind = "move" /\ m.seq > lastPtr]
        /\ lastPtr' = IF m.kind = "move" /\ m.seq > lastPtr THEN m.seq ELSE lastPtr
        /\ net' = net \ {m} /\ UNCHANGED <<hostPtr, pointer, nextPtrSeq, moves, space>>
        BY <2>1 DEF HostBegin, Begin, schedVars, userVars
  <2>3. m.seq \in Nat /\ m.id \in Nat
        BY <1>0 DEF Datagram
  <2>4. handling'.m = m /\ (handling'.newer <=> IsMove(m) /\ m.seq > lastPtr)
        BY <2>2 DEF IsMove
  <2> SUFFICES ASSUME space <= 1 PROVE PointerInv'
      BY <2>2 DEF PointerInv
  <2>5. /\ hostPtr <= moves /\ pointer <= moves /\ lastPtr < nextPtrSeq
        /\ pointer # 0 => pointer > hostPtr
        /\ \A n \in net : IsMove(n) =>
              /\ n.id <= moves /\ n.seq < nextPtrSeq
              /\ pointer # 0 => n.id < pointer
              /\ n.seq > lastPtr => n.id > hostPtr
              /\ \A k \in net : IsMove(k) /\ n.seq < k.seq => n.id < k.id
        BY DEF PointerInv
  <2>6. lastPtr' < nextPtrSeq /\ lastPtr' >= lastPtr
        BY <1>0, <2>2, <2>3, <2>5 DEF IsMove
  <2>7. \A n \in net' : IsMove(n) /\ n.seq > lastPtr' => n.id > hostPtr
    <3>1. \A n \in net : n.seq \in Nat
          BY <1>0 DEF Datagram
    <3> QED BY <1>0, <2>2, <2>3, <2>5, <3>1 DEF IsMove
  <2>8. IsMove(m) /\ m.seq > lastPtr =>
              /\ hostPtr < m.id /\ m.id <= moves
              /\ pointer # 0 => m.id < pointer
              /\ \A n \in net' : IsMove(n) /\ n.seq > lastPtr' => n.id > m.id
        BY <2>2, <2>5 DEF IsMove
  <2> QED BY <2>2, <2>4, <2>5, <2>6, <2>7, <2>8 DEF PointerInv
<1>4. CASE FinishMove /\ Unacknowledged
  <2>1. /\ IsMove(handling.m) /\ handling' = Idle
        /\ hostPtr' = IF handling.newer /\ handling.enabled THEN handling.m.id ELSE hostPtr
        /\ UNCHANGED <<lastPtr, pointer, nextPtrSeq, moves, net, space>>
        BY <1>4 DEF FinishMove, Unacknowledged, IsMove, schedVars, netVars, userVars
  <2>2. CASE ~(handling.newer /\ handling.enabled)
        BY <2>1, <2>2, PointerKept
  <2>3. CASE handling.newer /\ handling.enabled
    <3>1. hostPtr' = handling.m.id /\ ~IsMove(Idle.m)
          BY <2>1, <2>3 DEF Idle, NoDatagram, IsMove
    <3> QED BY <2>1, <2>3, <3>1 DEF PointerInv
  <2> QED BY <2>2, <2>3
<1>5. CASE ViewerOpenChallenge
  <2>1. /\ pointer' = 0 /\ nextPtrSeq' = 1 /\ space' = space + 1
        /\ UNCHANGED <<recvVars, net, moves>>
        BY <1>5 DEF ViewerOpenChallenge, ResetSession, userVars
  <2>2. space # 0 => PointerInv'
        BY <1>0, <2>1 DEF PointerInv
  <2>3. ASSUME space = 0 PROVE PointerInv'
    <3>1. hostPtr = 0 /\ lastPtr = 0 /\ handling = Idle /\ net = {}
          BY <2>3 DEF BeforeSpace, Fresh
    <3>2. ~IsMove(Idle.m)
          BY DEF Idle, NoDatagram, IsMove
    <3> QED BY <1>0, <2>1, <3>1, <3>2 DEF PointerInv, recvVars
  <2> QED BY <2>2, <2>3
<1>6. CASE HostReceiveEcho
  <2>1. UNCHANGED <<hostPtr, handling, pointer, nextPtrSeq, moves, net, space>>
        BY <1>6 DEF HostReceiveEcho, OpenSession, recvVars, schedVars, userVars
  <2>2. lastPtr' = lastPtr
        BY <1>6 DEF HostReceiveEcho, OpenSession, recvVars, BeforeSpace, Fresh
  <2> QED BY <2>1, <2>2, PointerKept
<1>7. CASE ViewerSendNext \/ ViewerGiveUp \/ ViewerResend
  <2>1. /\ UNCHANGED <<hostPtr, lastPtr, handling, pointer, nextPtrSeq, moves, space>>
        /\ net' = net \cup {ReliableDatagram(pending', space)}
        BY <1>7 DEF ViewerSendNext, ViewerGiveUp, ViewerResend, SendPending, SendNext,
                    GiveUp, Resend, recvVars, userVars
  <2>2. ~IsMove(ReliableDatagram(pending', space))
        BY DEF IsMove, ReliableDatagram
  <2> HIDE DEF IsMove
  <2>3. \A m \in net' : IsMove(m) => m \in net
        BY <2>1, <2>2
  <2> QED BY <2>1, <2>3, PointerKept
<1>8. CASE Produce /\ ~MovePointer
  <2>1. UNCHANGED <<hostPtr, lastPtr, handling, nextPtrSeq, moves, net, space>>
        BY <1>8 DEF Produce, PressKey, LiftKey, Type, PushEvent, LoseFocus,
                    PushReliable, Enqueue, PushRelease, recvVars, netVars
  <2>2. pointer' \in {0, pointer}
        BY <1>8 DEF Produce, PressKey, LiftKey, Type, PushEvent, LoseFocus,
                    PushReliable, Enqueue, PushRelease
  <2> QED BY <2>1, <2>2, PointerKept
<1>9. CASE \E a \in acks : ViewerReceiveAck(a)
  <2>1. UNCHANGED <<hostPtr, lastPtr, handling, pointer, nextPtrSeq, moves, net, space>>
        BY <1>9 DEF ViewerReceiveAck, Acknowledge, recvVars, userVars
  <2> QED BY <2>1, PointerKept
<1>10. CASE HostSendChallenge \/ (\E m \in net : HostDiscard(m)) \/ Lose
  <2>1. /\ UNCHANGED <<hostPtr, lastPtr, handling, pointer, nextPtrSeq, moves, space>>
        /\ net' \subseteq net
        BY <1>10 DEF HostSendChallenge, HostDiscard, Lose, recvVars, schedVars, userVars
  <2> QED BY <2>1, PointerKept
<1>11. CASE HostFinish /\ ~(FinishMove /\ Unacknowledged)
  <2>1. /\ handling' = Idle
        /\ UNCHANGED <<hostPtr, lastPtr, pointer, nextPtrSeq, moves, net, space>>
        BY <1>11 DEF HostFinish, FinishDuplicate, FinishRelease, FinishEvent, FinishIgnored,
                     FinishLanguage, Acknowledged, Unacknowledged, schedVars, netVars, userVars
  <2> QED BY <2>1, PointerKept
<1>12. CASE HostRunLanguage \/ HostRunRelease \/ HostTeardown
  <2>1. UNCHANGED <<hostPtr, lastPtr, handling, pointer, nextPtrSeq, moves, net, space>>
        BY <1>12 DEF HostRunLanguage, HostRunRelease, HostTeardown, RunLanguage, RunRelease,
                     BeginStop, FinishStop, Deallocate, Acknowledged, Unacknowledged,
                     schedVars, netVars, userVars
  <2> QED BY <2>1, PointerKept
<1>13. CASE (\E b \in BOOLEAN : OperatorToggle(b)) \/ UNCHANGED vars
  <2>1. UNCHANGED <<hostPtr, lastPtr, handling, pointer, nextPtrSeq, moves, net, space>>
        BY <1>13 DEF OperatorToggle, SetInputEnabled, vars, recvVars, planeVars,
                     schedVars, netVars, userVars
  <2> QED BY <2>1, PointerKept
<1> QED BY <1>1, <1>2, <1>3, <1>4, <1>5, <1>6, <1>7, <1>8, <1>9, <1>10, <1>11, <1>12,
           <1>13 DEF Next, ViewerStep, HostStep

(* As long as the viewer has opened one challenge, the pointer on the host *)
(* never goes back, whatever is lost or overtakes.                         *)
THEOREM PointerNeverReturns == Spec /\ [](space <= 1) => PointerNeverGoesBack
<1>1. TypeInv /\ BeforeSpace /\ PointerInv /\ space <= 1 /\ [Next]_vars
        => [hostPtr' >= hostPtr]_hostPtr
  <2> SUFFICES ASSUME TypeInv, PointerInv, space <= 1, [Next]_vars, hostPtr' # hostPtr
               PROVE  hostPtr' >= hostPtr
      OBVIOUS
  <2>1. FinishMove /\ Unacknowledged
        BY DEF Next, Produce, PressKey, LiftKey, Type, PushEvent, LoseFocus, MovePointer,
            ViewerStep, ViewerSendNext, ViewerGiveUp, ViewerResend, ViewerSendPointer,
            SendPending, ViewerReceiveAck, ViewerOpenChallenge, HostStep,
            HostSendChallenge, HostReceiveEcho, HostDiscard, HostBegin, HostFinish,
            HostRunLanguage, HostRunRelease, HostTeardown, Lose, OperatorToggle, vars,
            recvVars, OpenSession, Begin, FinishDuplicate, FinishRelease, FinishLanguage,
            FinishEvent, FinishIgnored, RunLanguage, RunRelease, BeginStop, FinishStop,
            Deallocate, SetInputEnabled
  <2>2. IsMove(handling.m) /\ handling.newer /\ hostPtr' = handling.m.id
        BY <2>1 DEF FinishMove, IsMove
  <2>3. hostPtr \in Nat /\ handling.m.id \in Nat
        BY DEF TypeInv, RecvInv, Datagram
  <2> QED BY <2>2, <2>3 DEF PointerInv
<1> QED BY <1>1, TypeInit, TypeStep, BeforeInit, BeforeStep, PointerInit, PointerStep,
           PTL DEF Spec, PointerNeverGoesBack

-----------------------------------------------------------------------------
(* The log.                                                                *)

(* The empty log fits the initial state. *)
LEMMA DeliveryInit == Init => DeliveryInv
<1> SUFFICES ASSUME Init PROVE DeliveryInv
    OBVIOUS
<1>1. Len(<<>>) = 0 /\ <<>> \in Seq(Event)
      OBVIOUS
<1>2. LogInv(<<>>)
      BY <1>1 DEF Init, SchedInit, RecvInit, LogInv, IsLog, IsQueue, InFlight, Executed,
                  Idle, NoDatagram, NoPending, Reliable, Busy, Outstanding
<1>3. \E log \in Seq(Event) : LogInv(log)
      BY <1>1, <1>2
<1>4. BeforeSpace
      BY BeforeInit
<1> QED BY <1>3, <1>4 DEF DeliveryInv

(* What leaves the scheduler alone keeps the log and the queue. *)
LEMMA LogKept ==
    ASSUME NEW log, IsLog(log), nextSeq' = nextSeq,
           pushed \in Nat, pushed' \in Nat, pushed <= pushed'
    PROVE  IsLog(log)'
<1>1. \A i \in 1..Len(log) : log[i].hi \in Nat
  <2>1. log \in Seq(Event)
        BY DEF IsLog
  <2>2. \A i \in 1..Len(log) : log[i] \in Event
        BY <2>1
  <2> QED BY <2>2 DEF Event
<1> QED BY <1>1 DEF IsLog

(* What leaves the queue alone keeps it in step with the log. *)
LEMMA QueueKept ==
    ASSUME NEW log, IsQueue(log), UNCHANGED <<queue, pushed>>
    PROVE  IsQueue(log)'
  BY DEF IsQueue

(* What only takes datagrams and acknowledgements away. *)
LEMMA FlightKept ==
    ASSUME NEW log, InFlight(log),
           \A m \in net' : m.kind = "reliable" => m \in net,
           handling' = handling \/ handling' = Idle,
           langTask' = langTask \/ langTask' = NoDatagram,
           pending' = NoPending \/ (pending'.seq = pending.seq /\ pending'.ev = pending.ev)
    PROVE  InFlight(log)'
<1>1. Idle.m.kind = "none" /\ NoDatagram.kind = "none" /\ NoPending.seq = 0
      BY DEF Idle, NoDatagram, NoPending
<1> QED BY <1>1 DEF InFlight, Reliable, Busy, Outstanding, Logged

(* What executes nothing keeps the record of the host. *)
LEMMA ExecutedKept ==
    ASSUME NEW log, Executed(log), UNCHANGED <<last, done, resynced, confirmed>>,
           handling' = handling \/ handling' = Idle,
           Busy => langTask' = langTask \/ langTask' = NoDatagram \/ handling' = Idle,
           \A a \in acks' : a \in acks \/ (a.seq \in 1..last /\ a.hi = log[a.seq].hi)
    PROVE  Executed(log)'
<1>1. Idle.m.kind = "none"
      BY DEF Idle, NoDatagram
<1> QED BY <1>1 DEF Executed, Busy

(* Reading the invariant of the log at two places. *)
LEMMA LogOrder ==
    ASSUME NEW log, IsLog(log)
    PROVE  /\ log \in Seq(Event) /\ Len(log) \in Nat
           /\ \A i \in 1..Len(log) : /\ log[i] \in Event /\ log[i].lo \in Nat
                                      /\ log[i].hi \in Nat
           /\ \A i, j \in 1..Len(log) : i <= j => log[i].hi <= log[j].hi
           /\ \A i, j \in 1..Len(log) :
                 i < j /\ log[j].op # "release" => log[i].hi < log[j].lo
           /\ \A i \in 1..Len(log) : log[i].op # "release" => log[i].lo <= log[i].hi
<1>1. /\ log \in Seq(Event) /\ Len(log) \in Nat
      /\ \A i \in 1..Len(log) : log[i] \in Event
      BY LenProperties DEF IsLog
<1>2. \A i \in 1..Len(log) : log[i].lo \in Nat /\ log[i].hi \in Nat
      BY <1>1 DEF Event
<1>3. \A i \in 1..Len(log) : log[i].op # "release" => log[i].lo <= log[i].hi
      BY DEF IsLog
<1>4. \A i, j \in 1..Len(log) : i < j =>
            IF log[j].op = "release" THEN log[i].hi <= log[j].hi ELSE log[i].hi < log[j].lo
      BY DEF IsLog
<1>5. ASSUME NEW i \in 1..Len(log), NEW j \in 1..Len(log), i <= j
      PROVE  log[i].hi <= log[j].hi
  <2>1. CASE i = j
        BY <1>2, <2>1
  <2>2. CASE i < j
        BY <1>2, <1>3, <1>4, <2>2
  <2> QED BY <1>1, <1>5, <2>1, <2>2
<1> QED BY <1>1, <1>2, <1>3, <1>4, <1>5

(* An event of the queue, or a ReleaseAll in its place, is sent. *)
LEMMA LogSends ==
    ASSUME TypeInv, NEW log, LogInv(log), NEW ev \in Event,
           ev.hi <= pushed, ev.op # "release" => 1 <= ev.lo /\ ev.lo <= ev.hi,
           log # <<>> => FollowsOn(log[Len(log)], ev),
           nextSeq' = nextSeq + 1,
           pending' = [seq |-> nextSeq, ev |-> ev, attempts |-> 1],
           net' = net \cup {ReliableDatagram(pending', space)},
           UNCHANGED <<recvVars, acks, confirmed, pushed>>
    PROVE  /\ IsLog(Append(log, ev))' /\ InFlight(Append(log, ev))'
           /\ Executed(Append(log, ev))'
<1> DEFINE new == Append(log, ev)
           n == Len(log)
<1>1. /\ n \in Nat /\ new \in Seq(Event) /\ Len(new) = n + 1 /\ new[n + 1] = ev
      /\ \A i \in 1..n : new[i] = log[i]
      BY LogOrder DEF LogInv
<1>2. n = nextSeq - 1 /\ nextSeq = n + 1
      BY <1>1 DEF LogInv, IsLog, TypeInv, SchedInv, SchedTypeOK
<1>3. \A i \in 1..n + 1 : i \in 1..n \/ i = n + 1
      BY <1>1
<1>4. ev.hi \in Nat /\ ev.lo \in Nat
      BY DEF Event
<1> HIDE DEF new, n
<1>5. ASSUME NEW i \in 1..n
      PROVE  IF ev.op = "release" THEN log[i].hi <= ev.hi ELSE log[i].hi < ev.lo
  <2>1. log # <<>> /\ n \in 1..n
        BY <1>1, <1>5 DEF n
  <2>2. log[i].hi <= log[n].hi /\ log[i].hi \in Nat /\ log[n].hi \in Nat
    <3>1. IsLog(log)
          BY DEF LogInv
    <3>2. i \in 1..Len(log) /\ n \in 1..Len(log) /\ i <= n
          BY <1>1, <1>5, <2>1 DEF n
    <3> QED BY <3>1, <3>2, LogOrder
  <2>3. FollowsOn(log[n], ev)
        BY <2>1 DEF n
  <2> QED BY <1>4, <2>2, <2>3 DEF FollowsOn
<1>6. IsLog(new)'
  <2>1. \A i \in 1..n + 1 :
          /\ new[i].hi <= pushed
          /\ new[i].op # "release" => 1 <= new[i].lo /\ new[i].lo <= new[i].hi
        BY <1>1, <1>3 DEF LogInv, IsLog, n
  <2>2. ASSUME NEW i \in 1..n + 1, NEW j \in 1..n + 1, i < j
        PROVE  IF new[j].op = "release" THEN new[i].hi <= new[j].hi
                                        ELSE new[i].hi < new[j].lo
    <3>1. i \in 1..n
          BY <1>1, <2>2
    <3>2. CASE j \in 1..n
          BY <1>1, <2>2, <3>1, <3>2 DEF LogInv, IsLog, n
    <3>3. CASE j = n + 1
          BY <1>1, <1>5, <3>1, <3>3
    <3> QED BY <1>3, <3>2, <3>3
  <2>3. ASSUME NEW i \in 1..(n + 1) - 1
        PROVE  FollowsOn(new[i], new[i + 1])
    <3>1. i \in 1..n
          BY <1>1
    <3>2. CASE i \in 1..n - 1
      <4>1. i + 1 \in 1..n
            BY <1>1, <3>2
      <4> QED BY <1>1, <3>1, <3>2, <4>1 DEF LogInv, IsLog, n
    <3>3. CASE i = n
      <4>1. log # <<>>
            BY <1>1, <3>1 DEF n
      <4> QED BY <1>1, <3>1, <3>3, <4>1 DEF n
    <3> QED BY <1>1, <3>1, <3>2, <3>3
  <2>4. Len(new) = nextSeq' - 1
        BY <1>1, <1>2
  <2> QED BY <1>1, <2>1, <2>2, <2>3, <2>4 DEF IsLog
<1>7. \A m : Logged(log, m) => Logged(new, m)
      BY <1>1 DEF Logged, n
<1>8. InFlight(new)'
  <2>1. /\ ReliableDatagram(pending', space).seq = n + 1
        /\ ReliableDatagram(pending', space).ev = ev
        BY <1>2 DEF ReliableDatagram
  <2>2. n + 1 \in 1..n + 1
        BY <1>1
  <2>3. pending'.seq = n + 1 /\ pending'.ev = ev
        BY <1>2
  <2>4. UNCHANGED <<handling, langTask>>
        BY DEF recvVars
  <2>5. \A m \in net' : m.kind = "reliable" => Logged(new, m)
        BY <1>1, <1>7, <2>1, <2>2 DEF LogInv, InFlight, Logged
  <2> QED BY <1>1, <1>7, <2>3, <2>4, <2>5 DEF LogInv, InFlight, Reliable, Busy, Outstanding
<1>9. Executed(new)'
  <2>1. UNCHANGED <<last, done, resynced, handling, langTask>>
        BY DEF recvVars
  <2>2. last \in 0..n /\ last \in 0..n + 1 /\ (last > 0 => new[last] = log[last])
        BY <1>1 DEF LogInv, Executed, n
  <2>3. \A a \in acks : a.seq \in 1..last /\ a.hi = new[a.seq].hi
    <3>1. \A k \in 1..last : k \in 1..n
          BY <1>1, <2>2
    <3> QED BY <1>1, <3>1 DEF LogInv, Executed
  <2>4. Busy => \/ last = handling.last
                \/ /\ last = handling.last + 1 /\ new[last].op = "lang"
                   /\ langTask = NoDatagram
    <3>1. handling.last \in Nat
          BY DEF TypeInv, RecvInv
    <3>2. ASSUME last = handling.last + 1 PROVE last > 0
          BY <3>1, <3>2
    <3> QED BY <2>2, <3>2 DEF LogInv, Executed
  <2> QED BY <1>1, <2>1, <2>2, <2>3, <2>4 DEF LogInv, Executed, Busy
<1> QED BY <1>6, <1>8, <1>9 DEF new

(* A producer call joins the queue, or a ReleaseAll takes its place. *)
LEMMA QueuePushes ==
    ASSUME TypeInv, NEW log, IsLog(log), IsQueue(log), NEW ev \in Event,
           ev.op # "release", ev.lo = pushed + 1, ev.hi = pushed + 1,
           pushed' = pushed + 1, PushReliable(ev)
    PROVE  IsQueue(log)' /\ (pending' = pending \/ pending' = NoPending) /\ nextSeq' = nextSeq
<1> DEFINE L == Len(queue)
<1>1. /\ queue \in Seq(Event) /\ L \in Nat /\ pushed \in Nat
      /\ \A i \in 1..L : queue[i] \in Event
      BY LenProperties DEF TypeInv, SchedInv, SchedTypeOK, UserInv
<1>2. \A i \in 1..L : queue[i].lo \in Nat /\ queue[i].hi \in Nat
      BY <1>1 DEF Event
<1>3. log # <<>> => Len(log) \in 1..Len(log) /\ log[Len(log)].hi <= pushed
                    /\ log[Len(log)].hi \in Nat
  <2>1. log \in Seq(Event) /\ (log # <<>> => Len(log) \in 1..Len(log))
    <3>1. log \in Seq(Event)
          BY DEF IsLog
    <3> QED BY <3>1, EmptySeq, LenProperties
  <2> QED BY <2>1, LogOrder DEF IsLog
<1>4. CASE MergesScroll(ev)
  <2>1. /\ queue # <<>> /\ queue[L].op = "scroll" /\ L \in 1..L
        /\ queue' = [queue EXCEPT ![L].hi = ev.hi] /\ pending' = pending /\ nextSeq' = nextSeq
    <3>1. queue # <<>> /\ queue[L].op = "scroll"
          BY <1>4 DEF MergesScroll
    <3>2. L \in 1..L
          BY <1>1, <3>1, EmptySeq
    <3> QED BY <1>4, <3>1, <3>2 DEF PushReliable
  <2>2. /\ Len(queue') = L /\ queue' # <<>>
        /\ \A i \in 1..L : queue'[i].op = queue[i].op /\ queue'[i].lo = queue[i].lo
        /\ \A i \in 1..L : i # L => queue'[i] = queue[i]
        /\ queue'[L].hi = pushed + 1
    <3>1. DOMAIN queue = 1..L
          BY <1>1
    <3>2. queue[L] \in Event
          BY <1>1, <2>1
    <3>3. /\ Len(queue') = L
          /\ \A i \in 1..L :
                queue'[i] = IF i = L THEN [queue[L] EXCEPT !.hi = ev.hi] ELSE queue[i]
          BY <1>1, <2>1, <3>1
    <3>4. queue' # <<>>
          BY <1>1, <2>1, <3>3
    <3> QED BY <2>1, <3>2, <3>3, <3>4 DEF Event
  <2> HIDE DEF L
  <2>3. ASSUME NEW i \in 1..L
        PROVE  /\ queue'[i].hi <= pushed + 1
               /\ queue'[i].op # "release" => 1 <= queue'[i].lo /\ queue'[i].lo <= queue'[i].hi
               /\ i > 1 => queue'[i].op # "release" /\ queue'[i].lo = queue'[i - 1].hi + 1
    <3>1. /\ queue[i].hi <= pushed
          /\ queue[i].op # "release" => 1 <= queue[i].lo /\ queue[i].lo <= queue[i].hi
          /\ i > 1 => queue[i].op # "release" /\ queue[i].lo = queue[i - 1].hi + 1
          BY DEF IsQueue, L
    <3>2. queue'[i].hi \in {queue[i].hi, pushed + 1}
          BY <2>2
    <3>3. i > 1 => i - 1 \in 1..L /\ i - 1 # L
          BY <1>1
    <3>4. i > 1 => queue'[i - 1] = queue[i - 1]
          BY <2>2, <3>3
    <3>5. queue[i].lo \in Nat /\ queue[i].hi \in Nat
          BY <1>2
    <3>6. queue'[i].op = queue[i].op /\ queue'[i].lo = queue[i].lo
          BY <2>2
    <3>7. queue'[i].hi <= pushed + 1 /\ queue[i].hi <= queue'[i].hi
      <4>1. CASE i = L
            BY <1>1, <2>2, <3>1, <3>5, <4>1
      <4>2. CASE i # L
            BY <1>1, <2>2, <3>1, <3>5, <4>2
      <4> QED BY <4>1, <4>2
    <3>8. queue'[i].hi \in Nat
          BY <1>1, <3>2, <3>5
    <3> QED BY <3>1, <3>4, <3>5, <3>6, <3>7, <3>8
  <2>4. ASSUME log # <<>> PROVE FollowsOn(log[Len(log)], queue'[1])
    <3>1. FollowsOn(log[Len(log)], queue[1])
          BY <2>1, <2>4 DEF IsQueue
    <3>2. queue'[1].op = queue[1].op /\ queue'[1].lo = queue[1].lo
          BY <1>1, <2>1, <2>2
    <3>3. queue[1].op = "release" => L # 1
          BY <2>1
    <3>4. queue[1].op = "release" => queue'[1] = queue[1]
          BY <1>1, <2>1, <2>2, <3>3
    <3> QED BY <3>1, <3>2, <3>4 DEF FollowsOn
  <2> QED BY <2>1, <2>2, <2>3, <2>4 DEF IsQueue
<1>5. CASE ~MergesScroll(ev) /\ L >= MaxQueue
  <2>1. /\ queue' = <<Release(pushed + 1)>> /\ pending' = NoPending /\ nextSeq' = nextSeq
        BY <1>5 DEF PushReliable, Enqueue
  <2>2. /\ Len(queue') = 1 /\ queue'[1] = Release(pushed + 1) /\ queue' # <<>>
        BY <2>1
  <2>3. Release(pushed + 1).op = "release" /\ Release(pushed + 1).hi = pushed + 1
        BY DEF Release
  <2>4. log # <<>> => FollowsOn(log[Len(log)], Release(pushed + 1))
        BY <1>1, <1>3, <2>3 DEF FollowsOn
  <2>5. \A i \in 1..1 : i = 1
        OBVIOUS
  <2> QED BY <1>1, <2>1, <2>2, <2>3, <2>4, <2>5 DEF IsQueue
<1>6. CASE ~MergesScroll(ev) /\ ~(L >= MaxQueue)
  <2>1. queue' = Append(queue, ev) /\ pending' = pending /\ nextSeq' = nextSeq
        BY <1>6 DEF PushReliable, Enqueue
  <2>2. /\ Len(queue') = L + 1 /\ queue'[L + 1] = ev /\ queue' # <<>>
        /\ \A i \in 1..L : queue'[i] = queue[i]
        BY <1>1, <2>1
  <2> HIDE DEF L
  <2>3. ASSUME NEW i \in 1..L
        PROVE  /\ queue'[i].hi <= pushed + 1
               /\ queue'[i].op # "release" => 1 <= queue'[i].lo /\ queue'[i].lo <= queue'[i].hi
               /\ i > 1 => queue'[i].op # "release" /\ queue'[i].lo = queue'[i - 1].hi + 1
    <3>1. /\ queue[i].hi <= pushed
          /\ queue[i].op # "release" => 1 <= queue[i].lo /\ queue[i].lo <= queue[i].hi
          /\ i > 1 => queue[i].op # "release" /\ queue[i].lo = queue[i - 1].hi + 1
          BY DEF IsQueue, L
    <3>2. i > 1 => i - 1 \in 1..L
          BY <1>1
    <3>3. queue'[i] = queue[i] /\ (i > 1 => queue'[i - 1] = queue[i - 1])
          BY <2>2, <3>2
    <3>4. queue[i].hi <= pushed + 1
          BY <1>1, <1>2, <3>1
    <3> QED BY <3>1, <3>3, <3>4
  <2>4. L > 0 => queue # <<>> /\ queue'[L].hi = pushed
    <3>1. L > 0 => queue # <<>> /\ L \in 1..L
          BY <1>1 DEF L
    <3> QED BY <2>2, <3>1 DEF IsQueue, L
  <2>5. ASSUME log # <<>> PROVE FollowsOn(log[Len(log)], queue'[1])
    <3>1. CASE L = 0
      <4>1. queue = <<>>
            BY <1>1, <3>1, EmptySeq DEF L
      <4>2. log[Len(log)].hi = pushed /\ queue'[1] = ev
            BY <2>2, <2>5, <3>1, <4>1 DEF IsQueue
      <4> QED BY <4>2 DEF FollowsOn
    <3>2. CASE L > 0
      <4>1. queue # <<>> /\ queue'[1] = queue[1]
            BY <1>1, <2>2, <2>4, <3>2
      <4> QED BY <2>5, <4>1 DEF IsQueue
    <3> QED BY <1>1, <3>1, <3>2
  <2>6. \A i \in 1..L + 1 : i \in 1..L \/ i = L + 1
        BY <1>1
  <2>7. (L + 1) - 1 = L /\ (L + 1 > 1 => L > 0)
        BY <1>1
  <2>8. \A i \in 1..L + 1 :
          /\ queue'[i].hi <= pushed + 1
          /\ queue'[i].op # "release" => 1 <= queue'[i].lo /\ queue'[i].lo <= queue'[i].hi
          /\ i > 1 => queue'[i].op # "release" /\ queue'[i].lo = queue'[i - 1].hi + 1
    <3>1. /\ ev.hi <= pushed + 1 /\ 1 <= ev.lo /\ ev.lo <= ev.hi
          /\ L + 1 > 1 => ev.lo = queue'[L].hi + 1
          BY <1>1, <2>4, <2>7
    <3> QED BY <2>2, <2>3, <2>6, <2>7, <3>1
  <2> QED BY <2>1, <2>2, <2>5, <2>8 DEF IsQueue
<1> QED BY <1>4, <1>5, <1>6

(* A producer call changes the queue, not the log. *)
LEMMA LogProduces ==
    ASSUME TypeInv, TypeInv', NEW log, LogInv(log), Produce
    PROVE  LogInv(log)'
<1>1. IsLog(log) /\ IsQueue(log) /\ InFlight(log) /\ Executed(log)
      BY DEF LogInv
<1>2. /\ UNCHANGED <<recvVars, net, acks, space, confirmed, nextSeq>>
      /\ pending' = pending \/ pending' = NoPending
      /\ pushed' = pushed \/ pushed' = pushed + 1
      BY DEF Produce, PressKey, LiftKey, Type, PushEvent, LoseFocus, MovePointer,
             PushReliable, Enqueue, PushRelease, PushMove, netVars
<1>3. pushed \in Nat /\ pushed' \in Nat
      BY DEF TypeInv, UserInv
<1>4. IsLog(log)'
      BY <1>1, <1>2, <1>3, LogKept
<1>9. UNCHANGED <<handling, langTask, last, done, resynced, net, acks, confirmed>>
      BY <1>2 DEF recvVars
<1>5. InFlight(log)'
  <2>1. \A m \in net' : m.kind = "reliable" => m \in net
        BY <1>9
  <2>2. pending' = NoPending \/ (pending'.seq = pending.seq /\ pending'.ev = pending.ev)
        BY <1>2
  <2> QED BY <1>1, <1>9, <2>1, <2>2, FlightKept
<1>6. Executed(log)'
  <2>1. \A a \in acks' : a \in acks \/ (a.seq \in 1..last /\ a.hi = log[a.seq].hi)
        BY <1>9
  <2> QED BY <1>1, <1>9, <2>1, ExecutedKept
<1>7. IsQueue(log)'
  <2>1. ASSUME NEW op \in {"down", "up"} \cup Typed, NEW key \in Keys \cup {NoKey},
               PushEvent(op, key)
        PROVE  IsQueue(log)'
    <3> DEFINE ev == [op |-> op, key |-> key, lo |-> pushed + 1, hi |-> pushed + 1]
    <3>1. op \in Kinds /\ op # "release" /\ pushed + 1 \in Nat
          BY <1>3, PlaneAssumption DEF Kinds
    <3>2. ev \in Event /\ ev.op # "release" /\ ev.lo = pushed + 1 /\ ev.hi = pushed + 1
          BY <3>1 DEF Event
    <3>3. PushReliable(ev) /\ pushed' = pushed + 1
          BY <2>1 DEF PushEvent
    <3> HIDE DEF ev
    <3> QED BY <1>1, <3>2, <3>3, QueuePushes
  <2>2. CASE \E k \in Keys : PressKey(k) \/ LiftKey(k)
        BY <2>1, <2>2 DEF PressKey, LiftKey
  <2>3. CASE \E op \in Kinds : Type(op)
        BY <2>1, <2>3 DEF Type
  <2>4. CASE LoseFocus
    <3>1. queue' = <<Release(pushed)>> /\ pushed' = pushed
          BY <2>4 DEF LoseFocus, PushRelease
    <3>2. Len(queue') = 1 /\ queue'[1] = Release(pushed) /\ queue' # <<>>
          BY <3>1
    <3>3. Release(pushed).op = "release" /\ Release(pushed).hi = pushed
          BY DEF Release
    <3>4. log # <<>> => FollowsOn(log[Len(log)], Release(pushed))
      <4>1. log # <<>> => Len(log) \in 1..Len(log)
        <5>1. log \in Seq(Event)
              BY <1>1 DEF IsLog
        <5> QED BY <5>1, EmptySeq, LenProperties
      <4> QED BY <1>1, <3>3, <4>1 DEF IsLog, FollowsOn
    <3>5. \A i \in 1..1 : i = 1
          OBVIOUS
    <3> QED BY <1>3, <3>1, <3>2, <3>3, <3>4, <3>5 DEF IsQueue
  <2>5. CASE MovePointer
        BY <1>1, <2>5, QueueKept DEF MovePointer, PushMove
  <2> QED BY <2>2, <2>3, <2>4, <2>5 DEF Produce
<1> QED BY <1>4, <1>5, <1>6, <1>7 DEF LogInv

(* The viewer sends the head of its queue, or the ReleaseAll of giving up. *)
LEMMA LogTransmits ==
    ASSUME TypeInv, NEW log, LogInv(log), ViewerSendNext \/ ViewerGiveUp
    PROVE  \E next \in Seq(Event) : LogInv(next)'
<1>1. IsLog(log) /\ IsQueue(log) /\ InFlight(log) /\ Executed(log)
      BY DEF LogInv
<1>2. /\ queue \in Seq(Event) /\ pushed \in Nat /\ log \in Seq(Event)
      /\ \A i \in 1..Len(queue) : queue[i] \in Event
      BY <1>1 DEF TypeInv, SchedInv, SchedTypeOK, UserInv, IsLog
<1>3. /\ net' = net \cup {ReliableDatagram(pending', space)} /\ nextSeq' = nextSeq + 1
      /\ UNCHANGED <<recvVars, acks, confirmed, pushed>>
      BY DEF ViewerSendNext, ViewerGiveUp, SendPending, SendNext, GiveUp, userVars
<1>4. ASSUME NEW ev \in Event, IsLog(Append(log, ev))', InFlight(Append(log, ev))',
             Executed(Append(log, ev))', IsQueue(Append(log, ev))'
      PROVE  \E next \in Seq(Event) : LogInv(next)'
  <2>1. Append(log, ev) \in Seq(Event)
        BY <1>2
  <2>2. LogInv(Append(log, ev))'
        BY <1>4 DEF LogInv
  <2> QED BY <2>1, <2>2
<1>5. CASE ViewerSendNext
  <2>0. queue # <<>> /\ Len(queue) \in Nat \ {0}
        BY <1>2, <1>5, EmptySeq, LenProperties DEF ViewerSendNext, SendNext
  <2> PICK ev \in Event : ev = queue[1]
    <3>1. 1 \in 1..Len(queue)
          BY <2>0
    <3> QED BY <1>2, <3>1
  <2>1. /\ queue # <<>> /\ queue' = Tail(queue)
        /\ pending' = [seq |-> nextSeq, ev |-> Head(queue), attempts |-> 1]
        BY <1>5 DEF ViewerSendNext, SendNext
  <2>2. Len(queue) \in Nat \ {0} /\ Head(queue) = ev
        BY <1>2, <2>0, HeadTailProperties
  <2>3. /\ Len(queue') = Len(queue) - 1
        /\ \A i \in 1..Len(queue') : queue'[i] = queue[i + 1]
        /\ queue' = <<>> => Len(queue) = 1
    <3>1. /\ Len(Tail(queue)) = Len(queue) - 1
          /\ \A i \in 1..Len(Tail(queue)) : Tail(queue)[i] = queue[i + 1]
          BY <1>2, <2>1, HeadTailProperties
    <3>2. Tail(queue) = <<>> => Len(queue) = 1
          BY <2>2, <3>1
    <3> QED BY <2>1, <3>1, <3>2
  <2>4. /\ ev \in Event /\ ev.hi <= pushed
        /\ ev.op # "release" => 1 <= ev.lo /\ ev.lo <= ev.hi
        /\ log # <<>> => FollowsOn(log[Len(log)], ev)
    <3>1. 1 \in 1..Len(queue)
          BY <2>2
    <3> QED BY <1>1, <1>2, <2>1, <3>1 DEF IsQueue
  <2>5. pending' = [seq |-> nextSeq, ev |-> ev, attempts |-> 1]
        BY <2>1, <2>2
  <2> DEFINE new == Append(log, ev)
  <2>6. new # <<>> /\ Len(new) = Len(log) + 1 /\ new[Len(new)] = ev
    <3>1. Len(log) \in Nat
          BY <1>2, LenProperties
    <3>2. Len(new) = Len(log) + 1 /\ new[Len(log) + 1] = ev
          BY <1>2, <3>1
    <3>3. new # <<>>
          BY <1>2, AppendProperties
    <3> QED BY <3>1, <3>2, <3>3
  <2>7. IsLog(new)' /\ InFlight(new)' /\ Executed(new)'
        BY <1>3, <2>4, <2>5, LogSends
  <2> HIDE DEF new
  <2>8. ASSUME NEW i \in 1..Len(queue')
        PROVE  /\ queue'[i].hi <= pushed
               /\ queue'[i].op # "release" => 1 <= queue'[i].lo /\ queue'[i].lo <= queue'[i].hi
               /\ i > 1 => queue'[i].op # "release" /\ queue'[i].lo = queue'[i - 1].hi + 1
    <3>1. i + 1 \in 1..Len(queue) /\ i + 1 > 1 /\ (i + 1) - 1 = i
          BY <2>2, <2>3
    <3>2. queue'[i] = queue[i + 1]
          BY <2>3
    <3>3. i > 1 => queue'[i - 1] = queue[i]
      <4>1. i > 1 => i - 1 \in 1..Len(queue') /\ (i - 1) + 1 = i
            BY <2>2, <2>3
      <4> QED BY <2>3, <4>1
    <3> QED BY <1>1, <3>1, <3>2, <3>3 DEF IsQueue
  <2>9. queue' # <<>> => /\ queue'[Len(queue')].hi = pushed
                         /\ FollowsOn(ev, queue'[1])
    <3>1. SUFFICES ASSUME queue' # <<>>
                   PROVE  queue'[Len(queue')].hi = pushed /\ FollowsOn(ev, queue'[1])
          OBVIOUS
    <3>2. Len(queue') # 0
      <4>1. queue' \in Seq(Event)
            BY <1>2, <2>1, HeadTailProperties
      <4> QED BY <3>1, <4>1, EmptySeq
    <3>3. /\ Len(queue') \in 1..Len(queue') /\ 1 \in 1..Len(queue')
          /\ Len(queue') + 1 = Len(queue) /\ 2 \in 1..Len(queue) /\ 2 - 1 = 1
          BY <2>2, <2>3, <3>2
    <3>4. queue'[Len(queue')] = queue[Len(queue)] /\ queue'[1] = queue[2]
          BY <2>3, <3>3
    <3>5. queue[2].op # "release" /\ queue[2].lo = queue[1].hi + 1
          BY <1>1, <3>3 DEF IsQueue
    <3> QED BY <1>1, <2>1, <3>4, <3>5 DEF IsQueue, FollowsOn
  <2>10. queue' = <<>> => ev.hi = pushed
        BY <1>1, <2>1, <2>3 DEF IsQueue
  <2>11. IsQueue(new)'
        BY <1>3, <2>6, <2>8, <2>9, <2>10 DEF IsQueue
  <2> QED BY <1>4, <2>4, <2>7, <2>11 DEF new
<1>6. CASE ViewerGiveUp
  <2> PICK ev \in Event : ev = Release(pushed)
      BY <1>2, Records
  <2>1. queue' = <<>> /\ pending' = [seq |-> nextSeq, ev |-> ev, attempts |-> 1]
        BY <1>6 DEF ViewerGiveUp, GiveUp
  <2>2. ev \in Event /\ ev.op = "release" /\ ev.hi = pushed
        BY <1>2, Records DEF Release
  <2>3. log # <<>> => FollowsOn(log[Len(log)], ev)
    <3>1. log # <<>> => Len(log) \in 1..Len(log)
          BY <1>2, EmptySeq, LenProperties
    <3> QED BY <1>1, <2>2, <3>1 DEF IsLog, FollowsOn
  <2> DEFINE new == Append(log, ev)
  <2>4. new # <<>> /\ new[Len(new)] = ev
    <3>1. Len(log) \in Nat
          BY <1>2, LenProperties
    <3> QED BY <1>2, <2>2, <3>1
  <2>5. IsLog(new)' /\ InFlight(new)' /\ Executed(new)'
        BY <1>2, <1>3, <2>1, <2>2, <2>3, LogSends
  <2> HIDE DEF new
  <2>6. Len(queue') = 0
        BY <2>1
  <2>7. IsQueue(new)'
        BY <1>3, <2>1, <2>2, <2>4, <2>6 DEF IsQueue
  <2> QED BY <1>4, <2>2, <2>5, <2>7 DEF new
<1> QED BY <1>5, <1>6

(* A datagram is taken up out of order only across a ReleaseAll, and what *)
(* is taken up is not older than what was executed.                       *)
LEMMA NewerThanDone ==
    ASSUME TypeInv, NEW log, IsLog(log), Executed(log), NEW m, Logged(log, m), m.seq > last
    PROVE  /\ done <= m.ev.hi
           /\ m.ev.op # "release" => done < m.ev.lo /\ m.ev.lo <= m.ev.hi /\ 1 <= m.ev.lo
           /\ m.ev.hi <= pushed /\ m.ev.hi \in Nat /\ m.ev.lo \in Nat
           /\ m.ev.op # "release" /\ m.seq = last + 1 /\ ~resynced => m.ev.lo = done + 1
<1> DEFINE s == m.seq
<1>1. /\ s \in 1..Len(log) /\ m.ev = log[s] /\ s > last
      /\ last \in Nat /\ last \in 0..Len(log) /\ done \in Nat /\ Len(log) \in Nat
      BY LogOrder DEF Logged, Executed, TypeInv, RecvInv
<1>2. /\ log[s].lo \in Nat /\ log[s].hi \in Nat /\ log[s].hi <= pushed
      /\ log[s].op # "release" => 1 <= log[s].lo /\ log[s].lo <= log[s].hi
      BY <1>1, LogOrder DEF IsLog
<1>3. CASE last = 0
      BY <1>1, <1>2, <1>3 DEF Executed
<1>4. CASE last > 0
  <2>1. last \in 1..Len(log) /\ last < s
        BY <1>1, <1>4
  <2>2. done <= log[last].hi /\ log[last].hi \in Nat
    <3>1. log[last].hi \in Nat
          BY <2>1, LogOrder
    <3> QED BY <1>1, <1>4, <3>1 DEF Executed
  <2>3. log[last].hi <= log[s].hi /\ (log[s].op # "release" => log[last].hi < log[s].lo)
    <3>1. last <= s
          BY <1>1, <2>1
    <3> QED BY <1>1, <2>1, <3>1, LogOrder
  <2>4. log[s].op # "release" /\ s = last + 1 /\ ~resynced => log[s].lo = done + 1
    <3>1. ASSUME log[s].op # "release", s = last + 1, ~resynced PROVE log[s].lo = done + 1
      <4>1. last \in 1..Len(log) - 1 /\ done = log[last].hi
            BY <1>1, <1>4, <2>1, <3>1 DEF Executed
      <4>2. FollowsOn(log[last], log[last + 1])
            BY <4>1 DEF IsLog
      <4> QED BY <3>1, <4>1, <4>2 DEF FollowsOn
    <3> QED BY <3>1
  <2> QED BY <1>1, <1>2, <2>2, <2>3, <2>4
<1> QED BY <1>1, <1>3, <1>4

(* The host executes an event, or obeys a ReleaseAll, and acknowledges it. *)
LEMMA Advances ==
    ASSUME TypeInv, NEW log, IsLog(log), Executed(log), NEW m, Logged(log, m), m.seq > last,
           last' = m.seq, confirmed' = confirmed,
           \/ resynced' /\ m.ev.op = "release" /\ done' = done
           \/ resynced' = FALSE /\ m.ev.op # "release" /\ done' = m.ev.hi,
           acks' = acks \/ acks' = acks \cup {Ack(m)},
           Busy' => \/ last' = handling'.last
                    \/ /\ last' = handling'.last + 1 /\ log[last'].op = "lang"
                       /\ langTask' = NoDatagram
    PROVE  Executed(log)'
<1>1. /\ m.seq \in 1..Len(log) /\ m.ev = log[m.seq] /\ Len(log) \in Nat
      /\ last \in 0..Len(log)
      BY LogOrder DEF Logged, Executed
<1>2. done <= m.ev.hi
      BY NewerThanDone
<1>3. \A k \in 1..last : k \in 1..m.seq
      BY <1>1
<1>4. \A a \in acks' : a.seq \in 1..last' /\ a.hi = log[a.seq].hi
  <2>1. Ack(m).seq = m.seq /\ Ack(m).hi = log[m.seq].hi /\ m.seq \in 1..m.seq
        BY <1>1 DEF Ack
  <2> QED BY <1>3, <2>1 DEF Executed
<1>5. confirmed # 0 => confirmed <= log[m.seq].hi
  <2>1. SUFFICES ASSUME confirmed # 0 PROVE confirmed <= log[m.seq].hi
        OBVIOUS
  <2>2. last > 0 /\ confirmed <= log[last].hi
        BY <2>1 DEF Executed
  <2>3. last \in 1..Len(log) /\ last <= m.seq
        BY <1>1, <2>2
  <2>4. log[last].hi <= log[m.seq].hi /\ log[last].hi \in Nat /\ log[m.seq].hi \in Nat
        BY <1>1, <2>3, LogOrder
  <2>5. confirmed \in Nat
        BY DEF TypeInv, UserInv
  <2> QED BY <2>2, <2>4, <2>5
<1>6. last' \in 0..Len(log) /\ last' > 0
      BY <1>1
<1>7. IF resynced' THEN log[last'].op = "release" /\ done' <= log[last'].hi
      ELSE log[last'].op # "release" /\ done' = log[last'].hi
      BY <1>1, <1>2
<1> QED BY <1>4, <1>5, <1>6, <1>7 DEF Executed

(* Where the last accepted number stands while a handler is at work. *)
LEMMA AtWork ==
    ASSUME TypeInv, NEW log, LogInv(log), Reliable
    PROVE  /\ Logged(log, handling.m) /\ handling.m.seq \in 1..Len(log)
           /\ handling.m.ev = log[handling.m.seq]
           /\ handling.last \in Nat /\ last \in Nat /\ last >= handling.last
           /\ handling.m.ev.op # "lang" /\ handling.m.seq > handling.last
                => handling.m.seq > last
<1>1. Logged(log, handling.m) /\ handling.last \in Nat /\ last \in Nat
      BY DEF LogInv, InFlight, TypeInv, RecvInv
<1>2. handling.m.seq \in 1..Len(log) /\ handling.m.ev = log[handling.m.seq]
      BY <1>1 DEF Logged
<1>3. Busy
      BY DEF Reliable
<1>4. last = handling.last \/ (last = handling.last + 1 /\ log[last].op = "lang")
      BY <1>3 DEF LogInv, Executed
<1>5. Len(log) \in Nat
      BY LogOrder DEF LogInv
<1>6. last >= handling.last
      BY <1>1, <1>4
<1>7. ASSUME handling.m.ev.op # "lang", handling.m.seq > handling.last
      PROVE  handling.m.seq > last
  <2>1. CASE last = handling.last
        BY <1>7, <2>1
  <2>2. CASE last = handling.last + 1 /\ log[last].op = "lang"
    <3>1. handling.m.seq # last
          BY <1>2, <1>7, <2>2
    <3> QED BY <1>1, <1>2, <1>5, <1>7, <2>2, <3>1
  <2> QED BY <1>4, <2>1, <2>2
<1> QED BY <1>1, <1>2, <1>6, <1>7

(* The scheduler and what travels are as before. *)
LEMMA HostOnly ==
    ASSUME TypeInv, NEW log, LogInv(log), UNCHANGED <<schedVars, net, pushed>>
    PROVE  IsLog(log)' /\ IsQueue(log)'
<1>1. UNCHANGED <<queue, nextSeq>> /\ pushed \in Nat /\ pushed' \in Nat
      BY DEF schedVars, TypeInv, UserInv
<1>2. IsLog(log)'
      BY <1>1, LogKept DEF LogInv
<1>3. IsQueue(log)'
      BY <1>1, QueueKept DEF LogInv
<1> QED BY <1>2, <1>3

(* A handler executes a datagram of the log, or drops it. *)
LEMMA LogFinishes ==
    ASSUME TypeInv, NEW log, LogInv(log), HostFinish
    PROVE  LogInv(log)'
<1>1. /\ UNCHANGED <<schedVars, net, pushed, confirmed, pending>> /\ handling' = Idle /\ Busy
      BY DEF HostFinish, FinishMove, FinishDuplicate, FinishRelease, FinishEvent, FinishIgnored,
             FinishLanguage, Reliable, Acknowledged, Unacknowledged, schedVars, netVars,
             userVars
<1>2. ~(Idle.m.kind # "none") /\ NoDatagram.kind = "none"
      BY DEF Idle, NoDatagram
<1>3. IsLog(log)' /\ IsQueue(log)'
      BY <1>1, HostOnly
<1>4. IsLog(log) /\ Executed(log) /\ InFlight(log)
      BY DEF LogInv
<1>5. InFlight(log)'
  <2>1. \/ langTask' = langTask \/ langTask' = NoDatagram
        \/ langTask' = handling.m /\ Reliable /\ handling.m.ev.op = "lang"
        BY DEF HostFinish, FinishMove, FinishDuplicate, FinishRelease, FinishEvent,
               FinishIgnored, FinishLanguage, CancelLanguage
  <2>2. \A m \in net' : m.kind = "reliable" => Logged(log, m)
        BY <1>1, <1>4 DEF InFlight
  <2>3. langTask'.kind # "none" => Logged(log, langTask)' /\ langTask'.ev.op = "lang"
        BY <1>2, <1>4, <2>1 DEF InFlight, Logged
  <2>4. ~Reliable'
        BY <1>1, <1>2 DEF Reliable, Busy
  <2>5. Outstanding' => pending'.seq = Len(log) /\ pending'.ev = log[Len(log)]
        BY <1>1, <1>4 DEF InFlight, Outstanding
  <2> QED BY <2>2, <2>3, <2>4, <2>5 DEF InFlight, Logged
<1>6. ~Busy'
      BY <1>1, <1>2 DEF Busy
<1>7. CASE UNCHANGED <<last, done, resynced>>
  <2>1. ASSUME acks' # acks
        PROVE  /\ Reliable /\ acks' = acks \cup {Ack(handling.m)}
               /\ handling.m.seq = handling.last \/ handling.m.seq = last
        BY <1>7, <2>1 DEF HostFinish, FinishMove, FinishDuplicate, FinishRelease, FinishEvent,
                          FinishIgnored, FinishLanguage, LanguageAlreadyDone, Acknowledged,
                          Unacknowledged, netVars, Reliable, TypeInv, RecvInv
  <2>2. \A a \in acks' : a \in acks \/ (a.seq \in 1..last /\ a.hi = log[a.seq].hi)
    <3>1. CASE acks' = acks
          BY <3>1
    <3>2. CASE acks' # acks
      <4>1. Ack(handling.m).seq = handling.m.seq /\ Ack(handling.m).hi = handling.m.ev.hi
            BY DEF Ack
      <4>2. /\ handling.m.seq \in 1..Len(log) /\ handling.m.ev = log[handling.m.seq]
            /\ handling.last \in Nat /\ last \in Nat /\ last >= handling.last
            BY <2>1, <3>2, AtWork
      <4>3. handling.m.seq \in 1..last
            BY <2>1, <3>2, <4>2
      <4> QED BY <2>1, <3>2, <4>1, <4>2, <4>3
    <3> QED BY <3>1, <3>2
  <2>3. Executed(log)'
        BY <1>1, <1>4, <1>7, <2>2, ExecutedKept
  <2> QED BY <1>3, <1>5, <2>3 DEF LogInv
<1>8. CASE FinishRelease /\ Acknowledged(handling.m)
  <2>1. /\ Reliable /\ handling.m.ev.op = "release" /\ handling.m.seq > handling.last
        /\ last' = handling.m.seq /\ resynced' /\ done' = done
        /\ acks' = acks \cup {Ack(handling.m)}
        BY <1>8 DEF FinishRelease, Acknowledged
  <2>2. Logged(log, handling.m) /\ handling.m.seq > last
        BY <2>1, AtWork
  <2>3. Executed(log)'
        BY <1>1, <1>4, <1>6, <2>1, <2>2, Advances
  <2> QED BY <1>3, <1>5, <2>3 DEF LogInv
<1>9. CASE FinishEvent /\ Acknowledged(handling.m)
  <2>1. /\ Reliable /\ handling.m.ev.op \notin {"release", "lang"}
        /\ handling.m.seq = handling.last + 1
        /\ last' = handling.m.seq /\ resynced' = FALSE /\ done' = handling.m.ev.hi
        /\ acks' = acks \cup {Ack(handling.m)}
        BY <1>9 DEF FinishEvent, Acknowledged
  <2>2. handling.m.seq > handling.last
        BY <2>1, AtWork
  <2>3. Logged(log, handling.m) /\ handling.m.seq > last
        BY <2>1, <2>2, AtWork
  <2>4. Executed(log)'
        BY <1>1, <1>4, <1>6, <2>1, <2>3, Advances
  <2> QED BY <1>3, <1>5, <2>4 DEF LogInv
<1> QED BY <1>7, <1>8, <1>9 DEF HostFinish, FinishMove, FinishDuplicate, FinishIgnored,
                                FinishLanguage

(* The main queue performs a language switch. *)
LEMMA LogSwitches ==
    ASSUME TypeInv, NEW log, LogInv(log), HostRunLanguage
    PROVE  LogInv(log)'
<1>1. /\ UNCHANGED <<schedVars, net, pushed, confirmed, pending, handling>>
      /\ langTask' = NoDatagram /\ langTask.kind # "none"
      BY DEF HostRunLanguage, RunLanguage, Acknowledged, Unacknowledged, schedVars, netVars,
             userVars
<1>2. NoDatagram.kind = "none"
      BY DEF NoDatagram
<1>3. IsLog(log)' /\ IsQueue(log)'
      BY <1>1, HostOnly
<1>4. IsLog(log) /\ Executed(log) /\ InFlight(log)
      BY DEF LogInv
<1>5. InFlight(log)'
  <2>1. \A m \in net' : m.kind = "reliable" => m \in net
        BY <1>1
  <2> QED BY <1>1, <1>4, <2>1, FlightKept
<1>6. CASE langTask.seq = last + 1
  <2>1. /\ last' = langTask.seq /\ done' = langTask.ev.hi /\ resynced' = FALSE
        /\ acks' = acks \/ acks' = acks \cup {Ack(langTask)}
        BY <1>6 DEF HostRunLanguage, RunLanguage, Acknowledged, Unacknowledged, netVars
  <2>2. Logged(log, langTask) /\ langTask.ev.op = "lang" /\ log[langTask.seq].op = "lang"
        BY <1>1, <1>4 DEF InFlight, Logged
  <2>3. langTask.seq > last
        BY <1>6 DEF TypeInv, RecvInv
  <2>4. Busy' => /\ last' = handling'.last + 1 /\ log[last'].op = "lang"
                 /\ langTask' = NoDatagram
    <3>1. Busy => last = handling.last
          BY <1>1, <1>2, <1>4 DEF Executed
    <3> QED BY <1>1, <1>6, <2>1, <2>2, <3>1 DEF Busy
  <2>5. Executed(log)'
        BY <1>1, <1>4, <2>1, <2>2, <2>3, <2>4, Advances
  <2> QED BY <1>3, <1>5, <2>5 DEF LogInv
<1>7. CASE langTask.seq # last + 1
  <2>1. UNCHANGED <<last, done, resynced, acks>>
        BY <1>7 DEF HostRunLanguage, RunLanguage, Unacknowledged, netVars
  <2>2. \A a \in acks' : a \in acks \/ (a.seq \in 1..last /\ a.hi = log[a.seq].hi)
        BY <2>1
  <2>3. Executed(log)'
        BY <1>1, <1>4, <2>1, <2>2, ExecutedKept
  <2> QED BY <1>3, <1>5, <2>3 DEF LogInv
<1> QED BY <1>6, <1>7

(* The viewer hears an acknowledgement. *)
LEMMA LogHears ==
    ASSUME TypeInv, NEW log, LogInv(log), NEW a \in acks, ViewerReceiveAck(a)
    PROVE  LogInv(log)'
<1>1. /\ UNCHANGED <<queue, nextSeq, pushed, net, handling, langTask, last, done, resynced>>
      /\ acks' = acks \ {a}
      /\ pending' = IF pending.seq = a.seq THEN NoPending ELSE pending
      /\ confirmed' = IF pending'.seq # pending.seq THEN pending.ev.hi ELSE confirmed
      BY DEF ViewerReceiveAck, Acknowledge, recvVars, userVars
<1>2. IsLog(log) /\ Executed(log) /\ InFlight(log) /\ IsQueue(log)
      BY DEF LogInv
<1>3. IsLog(log)' /\ IsQueue(log)'
  <2>1. pushed \in Nat /\ pushed' \in Nat
        BY <1>1 DEF TypeInv, UserInv
  <2> QED BY <1>1, <1>2, <2>1, LogKept, QueueKept
<1>4. InFlight(log)'
  <2>1. \A m \in net' : m.kind = "reliable" => m \in net
        BY <1>1
  <2> QED BY <1>1, <1>2, <2>1, FlightKept
<1>5. confirmed' # 0 => last > 0 /\ confirmed' <= log[last].hi
  <2>1. CASE pending'.seq = pending.seq
        BY <1>1, <1>2, <2>1 DEF Executed
  <2>2. CASE pending'.seq # pending.seq
    <3>1. confirmed' = pending.ev.hi /\ pending.seq = a.seq /\ pending.seq # 0
          BY <1>1, <2>2 DEF NoPending
    <3>2. pending.seq = Len(log) /\ pending.ev = log[Len(log)]
          BY <1>2, <3>1 DEF InFlight, Outstanding
    <3>3. a.seq \in 1..last /\ last \in 0..Len(log) /\ Len(log) \in Nat
          BY <1>2, LogOrder DEF Executed
    <3>4. last = Len(log) /\ last > 0 /\ last \in 1..Len(log)
          BY <3>1, <3>2, <3>3
    <3>5. log[last].hi \in Nat
          BY <1>2, <3>4, LogOrder
    <3> QED BY <3>1, <3>2, <3>4, <3>5
  <2> QED BY <2>1, <2>2
<1>6. Executed(log)'
      BY <1>1, <1>2, <1>5 DEF Executed, Busy
<1> QED BY <1>3, <1>4, <1>6 DEF LogInv

(* The viewer sends again what it has sent. *)
LEMMA LogRepeats ==
    ASSUME TypeInv, NEW log, LogInv(log), ViewerResend
    PROVE  LogInv(log)'
<1>1. /\ UNCHANGED <<queue, nextSeq, pushed, acks, confirmed, recvVars>>
      /\ net' = net \cup {ReliableDatagram(pending', space)}
      /\ pending' = [pending EXCEPT !.attempts = @ + 1] /\ Outstanding
      BY DEF ViewerResend, Resend, SendPending, userVars
<1>2. IsLog(log) /\ Executed(log) /\ InFlight(log) /\ IsQueue(log)
      BY DEF LogInv
<1>3. UNCHANGED <<handling, langTask, last, done, resynced>>
      BY <1>1 DEF recvVars
<1>4. IsLog(log)' /\ IsQueue(log)'
  <2>1. pushed \in Nat /\ pushed' \in Nat
        BY <1>1 DEF TypeInv, UserInv
  <2> QED BY <1>1, <1>2, <2>1, LogKept, QueueKept
<1>5. pending'.seq = pending.seq /\ pending'.ev = pending.ev
      BY <1>1 DEF TypeInv, SchedInv, SchedTypeOK, Pending
<1>6. InFlight(log)'
  <2>1. pending.seq = Len(log) /\ pending.ev = log[Len(log)]
        BY <1>1, <1>2 DEF InFlight
  <2>2. Len(log) \in 1..Len(log)
    <3>1. Len(log) \in Nat /\ Len(log) # 0
          BY <1>1, <1>2, <2>1, LogOrder DEF Outstanding
    <3> QED BY <3>1
  <2>3. Logged(log, ReliableDatagram(pending', space))
        BY <1>5, <2>1, <2>2 DEF Logged, ReliableDatagram
  <2>4. \A m \in net' : m.kind = "reliable" => Logged(log, m)
        BY <1>1, <1>2, <2>3 DEF InFlight
  <2> QED BY <1>2, <1>3, <1>5, <2>1, <2>4 DEF InFlight, Reliable, Busy, Outstanding, Logged
<1>7. Executed(log)'
  <2>1. \A a \in acks' : a \in acks \/ (a.seq \in 1..last /\ a.hi = log[a.seq].hi)
        BY <1>1
  <2> QED BY <1>1, <1>2, <1>3, <2>1, ExecutedKept
<1> QED BY <1>4, <1>6, <1>7 DEF LogInv

(* A datagram is taken up. *)
LEMMA LogBegins ==
    ASSUME TypeInv, NEW log, LogInv(log), NEW m \in net, HostBegin(m)
    PROVE  LogInv(log)'
<1>1. /\ UNCHANGED <<schedVars, pending, pushed, acks, confirmed, langTask, last, done, resynced>>
      /\ handling'.m = m /\ handling'.last = last /\ net' = net \ {m}
      BY DEF HostBegin, Begin, schedVars, userVars
<1>2. IsLog(log) /\ Executed(log) /\ InFlight(log) /\ IsQueue(log)
      BY DEF LogInv
<1>3. IsLog(log)' /\ IsQueue(log)'
  <2>1. UNCHANGED <<queue, nextSeq>> /\ pushed \in Nat /\ pushed' \in Nat
        BY <1>1 DEF schedVars, TypeInv, UserInv
  <2> QED BY <1>1, <1>2, <2>1, LogKept, QueueKept
<1>4. InFlight(log)'
      BY <1>1, <1>2 DEF InFlight, Reliable, Busy, Outstanding, Logged
<1>5. Executed(log)'
      BY <1>1, <1>2 DEF Executed, Busy
<1> QED BY <1>3, <1>4, <1>5 DEF LogInv

(* The first challenge: nothing was sent before it. *)
LEMMA LogOpens ==
    ASSUME TypeInv, BeforeSpace, space = 0, ViewerOpenChallenge
    PROVE  \E log \in Seq(Event) : LogInv(log)'
<1>1. /\ queue' = <<>> /\ pending' = NoPending /\ nextSeq' = 1
      /\ UNCHANGED <<recvVars, net, acks, confirmed, pushed>>
      BY DEF ViewerOpenChallenge, ResetSession, userVars
<1>2. /\ last = 0 /\ done = 0 /\ resynced /\ handling = Idle /\ langTask = NoDatagram
      /\ acks = {} /\ confirmed = 0 /\ net = {}
      BY DEF BeforeSpace, Fresh
<1>3. UNCHANGED <<last, done, resynced, handling, langTask>>
      BY <1>1 DEF recvVars
<1>4. Len(<<>>) = 0 /\ <<>> \in Seq(Event)
      OBVIOUS
<1>5. IsLog(<<>>)' /\ IsQueue(<<>>)'
      BY <1>1, <1>4 DEF IsLog, IsQueue
<1>6. InFlight(<<>>)' /\ Executed(<<>>)'
  <2>1. Idle.m.kind = "none" /\ NoDatagram.kind = "none" /\ NoPending.seq = 0
        BY DEF Idle, NoDatagram, NoPending
  <2> QED BY <1>1, <1>2, <1>3, <1>4, <2>1 DEF InFlight, Executed, Reliable, Busy, Outstanding
<1> QED BY <1>4, <1>5, <1>6 DEF LogInv

(* Everything else leaves the log, the queue and the record alone. *)
LEMMA LogRests ==
    ASSUME TypeInv, TypeInv', BeforeSpace, NEW log, LogInv(log),
           \/ ViewerSendPointer \/ HostSendChallenge \/ HostReceiveEcho \/ HostRunRelease
           \/ \E m \in net : HostDiscard(m)
           \/ Lose \/ HostTeardown
           \/ \E b \in BOOLEAN : OperatorToggle(b)
           \/ UNCHANGED vars
    PROVE  LogInv(log)'
<1>1. IsLog(log) /\ Executed(log) /\ InFlight(log) /\ IsQueue(log)
      BY DEF LogInv
<1>2. /\ UNCHANGED <<queue, pending, nextSeq, pushed, confirmed, handling, done, resynced>>
      /\ acks' \subseteq acks
      BY DEF ViewerSendPointer, SendPointer, HostSendChallenge, HostReceiveEcho, OpenSession,
             HostRunRelease, RunRelease, HostDiscard, Lose, HostTeardown, BeginStop,
             FinishStop, Deallocate, OperatorToggle, SetInputEnabled, vars, planeVars,
             schedVars, recvVars, netVars, userVars, Unacknowledged
<1>3. langTask' = langTask \/ langTask' = NoDatagram
      BY DEF ViewerSendPointer, HostSendChallenge, HostReceiveEcho, OpenSession,
             HostRunRelease, RunRelease, HostDiscard, Lose, HostTeardown, BeginStop,
             FinishStop, Deallocate, OperatorToggle, SetInputEnabled, CancelLanguage, vars,
             recvVars
<1>4. last' = last
      BY DEF ViewerSendPointer, HostSendChallenge, HostReceiveEcho, OpenSession,
             HostRunRelease, RunRelease, HostDiscard, Lose, HostTeardown, BeginStop,
             FinishStop, Deallocate, OperatorToggle, SetInputEnabled, vars, recvVars,
             BeforeSpace, Fresh
<1>5. \A m \in net' : m.kind = "reliable" => m \in net
  <2>1. net' \subseteq net \/ net' = net \cup {MoveDatagram(nextPtrSeq, pointer, space)}
        BY DEF ViewerSendPointer, HostSendChallenge, HostReceiveEcho, HostRunRelease,
               HostDiscard, Lose, HostTeardown, OperatorToggle, vars, planeVars, netVars,
               Unacknowledged
  <2>2. MoveDatagram(nextPtrSeq, pointer, space).kind # "reliable"
        BY DEF MoveDatagram
  <2> QED BY <2>1, <2>2
<1>6. IsLog(log)' /\ IsQueue(log)'
  <2>1. pushed \in Nat /\ pushed' \in Nat
        BY <1>2 DEF TypeInv, UserInv
  <2> QED BY <1>1, <1>2, <2>1, LogKept, QueueKept
<1>7. InFlight(log)'
      BY <1>1, <1>2, <1>3, <1>5, FlightKept
<1>8. Executed(log)'
  <2>1. \A a \in acks' : a \in acks \/ (a.seq \in 1..last /\ a.hi = log[a.seq].hi)
        BY <1>2
  <2> QED BY <1>1, <1>2, <1>3, <1>4, <2>1, ExecutedKept
<1> QED BY <1>6, <1>7, <1>8 DEF LogInv

(* Every step keeps some log. *)
LEMMA DeliveryStep == TypeInv /\ TypeInv' /\ DeliveryInv /\ [Next]_vars => DeliveryInv'
<1> SUFFICES ASSUME TypeInv, TypeInv', DeliveryInv, [Next]_vars PROVE DeliveryInv'
    OBVIOUS
<1>0. BeforeSpace'
      BY BeforeStep DEF DeliveryInv
<1> SUFFICES ASSUME space' <= 1 PROVE \E log \in Seq(Event) : LogInv(log)'
    BY <1>0 DEF DeliveryInv
<1>1. BeforeSpace
      BY DEF DeliveryInv
<1>2. space \in Nat /\ (space' = space \/ (space' = space + 1 /\ ViewerOpenChallenge))
  <2>1. space' = space \/ (space' = space + 1 /\ ViewerOpenChallenge)
        BY DEF Next, Produce, PressKey, LiftKey, Type, PushEvent, LoseFocus, MovePointer,
            ViewerStep, ViewerSendNext, ViewerGiveUp, ViewerResend, ViewerSendPointer,
            SendPending, ViewerReceiveAck, ViewerOpenChallenge, HostStep,
            HostSendChallenge, HostReceiveEcho, HostDiscard, HostBegin, HostFinish,
            HostRunLanguage, HostRunRelease, HostTeardown, Lose, OperatorToggle, vars,
            planeVars, netVars, Acknowledged, Unacknowledged
  <2> QED BY <2>1 DEF TypeInv, WireInv
<1>3. CASE ViewerOpenChallenge
  <2>1. space' = space + 1
        BY <1>3 DEF ViewerOpenChallenge
  <2>2. space = 0
        BY <1>2, <2>1
  <2> QED BY <1>1, <1>3, <2>2, LogOpens
<1>4. CASE ~ViewerOpenChallenge
  <2>1. PICK log \in Seq(Event) : LogInv(log)
        BY <1>2, <1>4 DEF DeliveryInv
  <2>2. CASE Produce
        BY <2>1, <2>2, LogProduces
  <2>3. CASE ViewerSendNext \/ ViewerGiveUp
        BY <2>1, <2>3, LogTransmits
  <2>4. CASE ViewerResend
        BY <2>1, <2>4, LogRepeats
  <2>5. CASE \E a \in acks : ViewerReceiveAck(a)
        BY <2>1, <2>5, LogHears
  <2>6. CASE \E m \in net : HostBegin(m)
        BY <2>1, <2>6, LogBegins
  <2>7. CASE HostFinish
        BY <2>1, <2>7, LogFinishes
  <2>8. CASE HostRunLanguage
        BY <2>1, <2>8, LogSwitches
  <2>9. CASE \/ ViewerSendPointer \/ HostSendChallenge \/ HostReceiveEcho \/ HostRunRelease
             \/ \E m \in net : HostDiscard(m)
             \/ Lose \/ HostTeardown
             \/ \E b \in BOOLEAN : OperatorToggle(b)
             \/ UNCHANGED vars
        BY <1>1, <2>1, <2>9, LogRests
  <2> QED BY <1>4, <2>2, <2>3, <2>4, <2>5, <2>6, <2>7, <2>8, <2>9
          DEF Next, ViewerStep, HostStep
<1> QED BY <1>3, <1>4

-----------------------------------------------------------------------------
(* An acknowledgement tells the truth: as long as the viewer has opened    *)
(* one challenge, every producer call it saw acknowledged was executed by  *)
(* the host, or wiped by a ReleaseAll, whatever was lost and retried.      *)
THEOREM AcksAreTrue == Spec => [](space <= 1 => AckedIsExecuted)
<1>1. TypeInv /\ DeliveryInv => (space <= 1 => AckedIsExecuted)
  <2> SUFFICES ASSUME TypeInv, DeliveryInv, space <= 1, confirmed > done PROVE resynced
      BY DEF AckedIsExecuted
  <2>1. PICK log \in Seq(Event) : LogInv(log)
        BY DEF DeliveryInv
  <2>2. confirmed \in Nat /\ done \in Nat
        BY DEF TypeInv, UserInv, RecvInv
  <2>3. last > 0 /\ confirmed <= log[last].hi /\ last \in 1..Len(log)
        BY <2>1, <2>2 DEF LogInv, Executed
  <2>4. log[last].hi \in Nat
        BY <2>1, <2>3, LogOrder DEF LogInv
  <2>5. ~resynced => done = log[last].hi
        BY <2>1, <2>3 DEF LogInv, Executed
  <2> QED BY <2>2, <2>3, <2>4, <2>5
<1> QED BY <1>1, TypeInit, TypeStep, DeliveryInit, DeliveryStep, PTL DEF Spec

(* A delayed ReleaseAll never cancels input that was pushed after it and   *)
(* has been executed: as long as the viewer has opened one challenge.      *)
THEOREM ReleasesAreInOrder == Spec /\ [](space <= 1) => ReleaseSparesNewerInput
<1>1. TypeInv /\ DeliveryInv /\ space <= 1 /\ [Next]_vars
        => [\A a \in acks' \ acks :
              resynced' /\ last' # last => done <= handling.m.ev.hi]_vars
  <2> SUFFICES ASSUME TypeInv, DeliveryInv, space <= 1, Next, acks' # acks,
                      ~(acks' \subseteq acks), resynced', last' # last
               PROVE  done <= handling.m.ev.hi
      OBVIOUS
  <2>1. PICK log \in Seq(Event) : LogInv(log)
        BY DEF DeliveryInv
  <2>2. HostFinish \/ HostRunLanguage
        BY DEF Next, Produce, PressKey, LiftKey, Type, PushEvent, LoseFocus, MovePointer,
            ViewerStep, ViewerSendNext, ViewerGiveUp, ViewerResend, ViewerSendPointer,
            SendPending, ViewerReceiveAck, ViewerOpenChallenge, HostStep,
            HostSendChallenge, HostReceiveEcho, HostDiscard, HostBegin, HostRunRelease,
            HostTeardown, Lose, OperatorToggle, netVars, Unacknowledged
  <2>3. FinishRelease
        BY <2>2 DEF HostFinish, HostRunLanguage, RunLanguage, FinishMove, FinishDuplicate,
                    FinishEvent, FinishIgnored, FinishLanguage
  <2>4. /\ Reliable /\ handling.m.ev.op = "release" /\ handling.m.seq > handling.last
        BY <2>3 DEF FinishRelease
  <2>5. Logged(log, handling.m) /\ handling.m.seq > last
        BY <2>1, <2>4, AtWork
  <2> QED BY <2>1, <2>5, NewerThanDone DEF LogInv
<1> QED BY <1>1, TypeInit, TypeStep, DeliveryInit, DeliveryStep,
           PTL DEF Spec, ReleaseSparesNewerInput

(* The plane implements InputDelivery as long as the viewer has opened one *)
(* challenge: the host executes the producer calls in their order, each at *)
(* most once, and skips one only across a ReleaseAll.                      *)
THEOREM DeliveredInOrder == Spec /\ [](space <= 1) => DeliveryInOrder
<1>1. Init => Delivery!Init
      BY DEF Init, RecvInit, Delivery!Init
<1>2. ASSUME TypeInv, NEW log, LogInv(log), NEW m, Logged(log, m), m.seq = last + 1,
             m.ev.op # "release", done' = m.ev.hi, resynced' = FALSE, pushed' = pushed
      PROVE  Delivery!Next
  <2>1. last \in Nat /\ done \in Nat /\ pushed \in Nat /\ resynced \in BOOLEAN
        BY <1>2 DEF TypeInv, RecvInv, UserInv
  <2>2. IsLog(log) /\ Executed(log) /\ m.seq > last
        BY <1>2, <2>1 DEF LogInv
  <2>3. /\ done < m.ev.lo /\ m.ev.lo <= m.ev.hi /\ 1 <= m.ev.lo
        /\ m.ev.hi <= pushed /\ m.ev.hi \in Nat /\ m.ev.lo \in Nat
        /\ ~resynced => m.ev.lo = done + 1
        BY <1>2, <2>2, NewerThanDone
  <2>4. Delivery!Execute(m.ev.lo, m.ev.hi)
        BY <1>2, <2>1, <2>3 DEF Delivery!Execute
  <2>5. m.ev.lo \in 1..pushed /\ m.ev.hi \in 1..pushed
        BY <2>1, <2>3
  <2> QED BY <2>4, <2>5 DEF Delivery!Next
<1>3. TypeInv /\ DeliveryInv /\ space <= 1 /\ [Next]_vars
        => [Delivery!Next]_(Delivery!deliveryVars)
  <2> SUFFICES ASSUME TypeInv, DeliveryInv, space <= 1, [Next]_vars,
                      ~UNCHANGED <<pushed, done, resynced>>
               PROVE  Delivery!Next
      BY DEF Delivery!deliveryVars
  <2>1. PICK log \in Seq(Event) : LogInv(log)
        BY DEF DeliveryInv
  <2>2. CASE Produce
        BY <2>2 DEF Produce, PressKey, LiftKey, Type, PushEvent, LoseFocus, MovePointer,
                    recvVars, Delivery!Next, Delivery!Submit
  <2>3. CASE HostFinish
    <3>1. pushed' = pushed
          BY <2>3 DEF HostFinish, Acknowledged, Unacknowledged, userVars
    <3>2. CASE FinishRelease
          BY <3>1, <3>2 DEF FinishRelease, Delivery!Next, Delivery!Resync
    <3>3. CASE FinishEvent
      <4>1. /\ Reliable /\ handling.m.ev.op \notin {"release", "lang"}
            /\ handling.m.seq = handling.last + 1
            /\ resynced' = FALSE /\ done' = handling.m.ev.hi
            BY <3>3 DEF FinishEvent
      <4>2. handling.m.seq > handling.last
            BY <2>1, <4>1, AtWork
      <4>3. Logged(log, handling.m) /\ handling.m.seq > last /\ handling.last \in Nat
            /\ last \in Nat /\ last >= handling.last
            BY <2>1, <4>1, <4>2, AtWork
      <4>4. handling.m.seq = last + 1
            BY <4>1, <4>3
      <4> QED BY <1>2, <2>1, <3>1, <4>1, <4>3, <4>4
    <3> QED BY <2>3, <3>1, <3>2, <3>3
            DEF HostFinish, FinishMove, FinishDuplicate, FinishIgnored, FinishLanguage
  <2>4. CASE HostRunLanguage
    <3>1. pushed' = pushed /\ langTask.kind # "none"
          BY <2>4 DEF HostRunLanguage, RunLanguage, Acknowledged, Unacknowledged, userVars
    <3>2. langTask.seq = last + 1 /\ done' = langTask.ev.hi /\ resynced' = FALSE
          BY <2>4, <3>1 DEF HostRunLanguage, RunLanguage
    <3>3. Logged(log, langTask) /\ langTask.ev.op = "lang"
          BY <2>1, <3>1 DEF LogInv, InFlight
    <3> QED BY <1>2, <2>1, <3>1, <3>2, <3>3
  <2> QED BY <2>2, <2>3, <2>4
          DEF Next, ViewerStep, ViewerSendNext, ViewerGiveUp, ViewerResend, ViewerSendPointer,
            SendPending, ViewerReceiveAck, ViewerOpenChallenge, HostStep, HostSendChallenge,
            HostReceiveEcho, OpenSession, HostDiscard, HostBegin, Begin, HostRunRelease,
            RunRelease, HostTeardown, BeginStop, FinishStop, Deallocate, Lose, OperatorToggle,
            SetInputEnabled, vars, planeVars, recvVars, userVars, Unacknowledged
<1> QED BY <1>1, <1>3, TypeInit, TypeStep, DeliveryInit, DeliveryStep,
           PTL DEF Spec, DeliveryInOrder, Delivery!Spec

-----------------------------------------------------------------------------
(* A session whose host sends one challenge has one sequence space, and so *)
(* keeps all four promises without a hypothesis on its behaviour.          *)
ChallengeInv == sent <= MaxChallenges /\ space + challenges <= sent

(* No challenge is under way at the start. *)
LEMMA ChallengeInit == Init => ChallengeInv
  BY PlaneAssumption DEF Init, ChallengeInv

(* A challenge is opened at most once. *)
LEMMA ChallengeStep == TypeInv /\ ChallengeInv /\ [Next]_vars => ChallengeInv'
<1> SUFFICES ASSUME TypeInv, ChallengeInv, [Next]_vars PROVE ChallengeInv'
    OBVIOUS
<1>1. /\ sent \in Nat /\ space \in Nat /\ challenges \in Nat /\ MaxChallenges \in Nat
      BY PlaneAssumption DEF TypeInv, WireInv
<1>2. \/ UNCHANGED <<sent, space, challenges>>
      \/ challenges > 0 /\ challenges' = challenges - 1 /\ sent' = sent
           /\ (space' = space + 1 \/ space' = space)
      \/ sent < MaxChallenges /\ sent' = sent + 1 /\ challenges' = challenges + 1
           /\ space' = space
      BY DEF Next, Produce, PressKey, LiftKey, Type, PushEvent, LoseFocus, MovePointer,
          ViewerStep, ViewerSendNext, ViewerGiveUp, ViewerResend, ViewerSendPointer,
          SendPending, ViewerReceiveAck, ViewerOpenChallenge, HostStep,
          HostSendChallenge, HostReceiveEcho, HostDiscard, HostBegin, HostFinish,
          HostRunLanguage, HostRunRelease, HostTeardown, Lose, OperatorToggle, vars,
          planeVars, netVars, Acknowledged, Unacknowledged
<1> QED BY <1>1, <1>2 DEF ChallengeInv

(* With one challenge the four promises hold of every behaviour. *)
THEOREM ChallengedOnce ==
    ASSUME MaxChallenges <= 1
    PROVE  Spec => /\ []AckedIsExecuted /\ ReleaseSparesNewerInput
                   /\ DeliveryInOrder /\ PointerNeverGoesBack
<1>1. TypeInv /\ ChallengeInv => space <= 1
      BY PlaneAssumption DEF TypeInv, WireInv, ChallengeInv
<1>2. Spec => [](space <= 1)
      BY <1>1, TypeInit, TypeStep, ChallengeInit, ChallengeStep, PTL DEF Spec
<1> QED BY <1>2, AcksAreTrue, ReleasesAreInOrder, DeliveredInOrder, PointerNeverReturns, PTL
=============================================================================
