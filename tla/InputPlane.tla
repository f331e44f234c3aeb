------------------------------ MODULE InputPlane ------------------------------
(***************************************************************************)
(* One viewer window and one macOS host session joined by UDP: the         *)
(* scheduler, the receiver, the reachability challenge that opens the      *)
(* session (connectSocket on the host, the LCH1 branch of the viewer's     *)
(* worker), and a network that loses and reorders.  Replay protection      *)
(* opens a sealed datagram at most once, so a copy in flight is one        *)
(* element of a set and goes away when it is opened.                       *)
(*                                                                         *)
(* A retry timer that fires although the datagram and its acknowledgement  *)
(* are still under way, a loss, and input that overtakes the echo spend    *)
(* the fault budget.                                                       *)
(***************************************************************************)
EXTENDS InputScheduler, InputReceiver, FiniteSets

CONSTANTS
    Typed,          \* kinds of event, of scroll, text and lang, in use
    MaxPushes,      \* bound: reliable producer calls
    MaxMoves,       \* bound: pointer moves
    MaxReleases,    \* bound: producer calls that release everything
    MaxChallenges,  \* challenges sent for one nonce (connectSocket: 15)
    MaxFaults,      \* bound: losses, overtakings and early retries
    MaxToggles,     \* bound: setInputEnabled(false) calls
    MaxStops,       \* bound: 1 when the host session may be stopped, else 0
    MaxSeq          \* bound: reliable sequence numbers

ASSUME PlaneAssumption ==
    /\ Typed \subseteq {"scroll", "text", "lang"}
    /\ {MaxPushes, MaxMoves, MaxReleases, MaxChallenges, MaxFaults,
        MaxToggles, MaxStops, MaxSeq} \subseteq Nat

VARIABLES
    net,          \* datagrams on their way to the host
    acks,         \* acknowledgements on their way to the viewer
    challenges,   \* challenges on their way to the viewer
    echoes,       \* echoed challenges on their way to the host
    sent,         \* challenges the host has sent
    space,        \* challenges the viewer has opened: its sequence space
    phys,         \* keys the user is holding on the viewer
    pushed,       \* reliable producer calls so far, ReleaseAll apart
    moves,        \* pointer moves so far
    releases,     \* ReleaseAll calls so far
    confirmed,    \* the last producer call the viewer saw acknowledged
    faults,       \* losses, overtakings and early retries so far
    toggles       \* setInputEnabled(false) calls so far

netVars == <<net, acks, challenges, echoes, sent, space>>
userVars == <<phys, pushed, moves, releases>>
planeVars == <<netVars, userVars, confirmed, faults, toggles>>
vars == <<schedVars, recvVars, planeVars>>

Established == space > 0

Ack(m) == [seq |-> m.seq, hi |-> m.ev.hi, attempt |-> m.attempt,
           space |-> m.space]

Init ==
    /\ SchedInit
    /\ RecvInit
    /\ net = {} /\ acks = {}
    /\ challenges = 0 /\ echoes = 0 /\ sent = 0 /\ space = 0
    /\ phys = {} /\ pushed = 0 /\ moves = 0 /\ releases = 0
    /\ confirmed = 0 /\ faults = 0 /\ toggles = 0

-----------------------------------------------------------------------------
(* Producers: the JNI entry points that push into the scheduler. *)

PushEvent(op, key) ==
    /\ pushed < MaxPushes
    /\ pushed' = pushed + 1
    /\ PushReliable([op |-> op, key |-> key,
                     lo |-> pushed + 1, hi |-> pushed + 1])
    /\ UNCHANGED <<recvVars, netVars, moves, releases, confirmed, faults,
                   toggles>>

PressKey(k) ==
    /\ k \notin phys
    /\ phys' = phys \cup {k}
    /\ PushEvent("down", k)

LiftKey(k) ==
    /\ k \in phys
    /\ phys' = phys \ {k}
    /\ PushEvent("up", k)

Type(op) ==
    /\ op \in Typed
    /\ PushEvent(op, NoKey)
    /\ UNCHANGED phys

(* Focus loss, hide, teardown. *)
LoseFocus ==
    /\ releases < MaxReleases
    /\ releases' = releases + 1
    /\ phys' = {}
    /\ PushRelease(pushed)
    /\ UNCHANGED <<recvVars, netVars, pushed, moves, confirmed, faults,
                   toggles>>

MovePointer ==
    /\ moves < MaxMoves
    /\ moves' = moves + 1
    /\ PushMove(moves + 1)
    /\ UNCHANGED <<recvVars, netVars, phys, pushed, releases, confirmed,
                   faults, toggles>>

-----------------------------------------------------------------------------
(* The viewer's socket loop, once a challenge has been opened. *)

InTransit ==
    \/ \E m \in net \cup {handling.m, langTask} :
          m.kind = "reliable" /\ m.seq = pending.seq /\ m.space = space
    \/ \E a \in acks : a.seq = pending.seq /\ a.space = space

SendPending ==
    /\ net' = net \cup {ReliableDatagram(pending', space)}
    /\ UNCHANGED <<recvVars, acks, challenges, echoes, sent, space, userVars,
                   confirmed, toggles>>

ViewerSendNext ==
    /\ Established /\ nextSeq <= MaxSeq
    /\ SendNext
    /\ SendPending /\ UNCHANGED faults

ViewerGiveUp ==
    /\ Established /\ nextSeq <= MaxSeq
    /\ GiveUp(pushed)
    /\ SendPending /\ UNCHANGED faults

ViewerResend ==
    /\ Established
    /\ IF InTransit THEN faults < MaxFaults /\ faults' = faults + 1
       ELSE UNCHANGED faults
    /\ Resend
    /\ SendPending

ViewerSendPointer ==
    /\ Established
    /\ SendPointer
    /\ net' = net \cup {MoveDatagram(nextPtrSeq, pointer, space)}
    /\ UNCHANGED <<recvVars, acks, challenges, echoes, sent, space, userVars,
                   confirmed, faults, toggles>>

ViewerReceiveAck(a) ==
    /\ a \in acks
    /\ acks' = acks \ {a}
    /\ Acknowledge(a.seq)
    /\ confirmed' = IF pending'.seq # pending.seq
                    THEN pending.ev.hi ELSE confirmed
    /\ UNCHANGED <<recvVars, net, challenges, echoes, sent, space, userVars,
                   faults, toggles>>

(* The LCH1 branch: every authenticated challenge starts a new sequence    *)
(* space, whether or not its nonce was seen before.                        *)
ViewerOpenChallenge ==
    /\ challenges > 0
    /\ challenges' = challenges - 1
    /\ echoes' = echoes + 1
    /\ space' = space + 1
    /\ ResetSession
    /\ UNCHANGED <<recvVars, net, acks, sent, userVars, confirmed, faults,
                   toggles>>

-----------------------------------------------------------------------------
(* The host. *)

HostSendChallenge ==
    /\ phase = "proving"
    /\ sent < MaxChallenges
    /\ sent' = sent + 1
    /\ challenges' = challenges + 1
    /\ UNCHANGED <<schedVars, recvVars, net, acks, echoes, space, userVars,
                   confirmed, faults, toggles>>

(* An echo after the proof is an unknown control message. *)
HostReceiveEcho ==
    /\ echoes > 0
    /\ echoes' = echoes - 1
    /\ IF phase = "proving" THEN OpenSession ELSE UNCHANGED recvVars
    /\ UNCHANGED <<schedVars, net, acks, challenges, sent, space, userVars,
                   confirmed, faults, toggles>>

(* Input that overtakes the echo: the proof loop reads and discards it.    *)
(* (After a stop nothing is read: what is in flight stays unanswered.)     *)
HostDiscard(m) ==
    /\ m \in net
    /\ phase = "proving"
    /\ faults < MaxFaults
    /\ faults' = faults + 1
    /\ net' = net \ {m}
    /\ UNCHANGED <<schedVars, recvVars, acks, challenges, echoes, sent, space,
                   userVars, confirmed, toggles>>

HostBegin(m) ==
    /\ m \in net
    /\ Begin(m)
    /\ net' = net \ {m}
    /\ UNCHANGED <<schedVars, acks, challenges, echoes, sent, space, userVars,
                   confirmed, faults, toggles>>

Acknowledged(m) ==
    /\ acks' = acks \cup {Ack(m)}
    /\ UNCHANGED <<schedVars, net, challenges, echoes, sent, space, userVars,
                   confirmed, faults, toggles>>

Unacknowledged ==
    UNCHANGED <<schedVars, netVars, userVars, confirmed, faults, toggles>>

HostFinish ==
    \/ FinishMove /\ Unacknowledged
    \/ FinishDuplicate /\ Acknowledged(handling.m)
    \/ FinishRelease /\ Acknowledged(handling.m)
    \/ FinishEvent /\ Acknowledged(handling.m)
    \/ FinishIgnored /\ Unacknowledged
    \/ /\ FinishLanguage
       /\ IF LanguageAlreadyDone THEN Acknowledged(handling.m)
          ELSE Unacknowledged

(* The acknowledgement needs the socket the request came in on. *)
HostRunLanguage ==
    /\ phase # "gone"
    /\ RunLanguage
    /\ IF langTask.seq = last + 1 /\ phase \in {"open", "stopping"}
       THEN Acknowledged(langTask) ELSE Unacknowledged

OperatorToggle(b) ==
    /\ IF b THEN UNCHANGED toggles
       ELSE toggles < MaxToggles /\ toggles' = toggles + 1
    /\ SetInputEnabled(b)
    /\ UNCHANGED <<schedVars, netVars, userVars, confirmed, faults>>

HostTeardown ==
    /\ MaxStops > 0
    /\ BeginStop \/ FinishStop \/ Deallocate
    /\ Unacknowledged

HostRunRelease == RunRelease /\ Unacknowledged

-----------------------------------------------------------------------------
(* The network. *)

Lose ==
    /\ faults < MaxFaults
    /\ faults' = faults + 1
    /\ \/ \E m \in net : net' = net \ {m} /\ UNCHANGED <<acks, challenges, echoes>>
       \/ \E a \in acks : acks' = acks \ {a} /\ UNCHANGED <<net, challenges, echoes>>
       \/ /\ challenges > 0 /\ challenges' = challenges - 1
          /\ UNCHANGED <<net, acks, echoes>>
       \/ /\ echoes > 0 /\ echoes' = echoes - 1
          /\ UNCHANGED <<net, acks, challenges>>
    /\ UNCHANGED <<schedVars, recvVars, sent, space, userVars, confirmed,
                   toggles>>

Produce ==
    \/ \E k \in Keys : PressKey(k) \/ LiftKey(k)
    \/ \E op \in Kinds : Type(op)
    \/ LoseFocus
    \/ MovePointer

ViewerStep ==
    \/ ViewerSendNext \/ ViewerGiveUp \/ ViewerResend \/ ViewerSendPointer
    \/ \E a \in acks : ViewerReceiveAck(a)
    \/ ViewerOpenChallenge

HostStep ==
    \/ HostSendChallenge \/ HostReceiveEcho
    \/ \E m \in net : HostDiscard(m) \/ HostBegin(m)
    \/ HostFinish \/ HostRunLanguage \/ HostRunRelease

Next ==
    \/ Produce \/ ViewerStep \/ HostStep \/ Lose \/ HostTeardown
    \/ \E b \in BOOLEAN : OperatorToggle(b)

Spec == Init /\ [][Next]_vars

(* Threads keep running, timers keep firing, and a datagram that is not    *)
(* lost arrives: nothing is assumed of the user, the operator or teardown. *)
Fairness ==
    /\ WF_vars(ViewerSendNext) /\ WF_vars(ViewerGiveUp)
    /\ WF_vars(ViewerResend)
    /\ WF_vars(\E a \in acks : ViewerReceiveAck(a))
    /\ WF_vars(ViewerOpenChallenge)
    /\ WF_vars(HostSendChallenge) /\ WF_vars(HostReceiveEcho)
    /\ WF_vars(\E m \in net : HostBegin(m))
    /\ WF_vars(HostFinish) /\ WF_vars(HostRunLanguage)
    /\ WF_vars(HostRunRelease)

FairSpec == Spec /\ Fairness

-----------------------------------------------------------------------------
(* Every variable stays in its domain; the viewer's queue never exceeds    *)
(* its capacity and one event at most awaits its acknowledgement.          *)
TypeOK ==
    /\ SchedTypeOK
    /\ phase \in Phases
    /\ last \in Nat /\ lastPtr \in Nat /\ hostPtr \in Nat
    /\ enabled \in BOOLEAN
    /\ handling \in [m : Datagram, last : Nat, enabled : BOOLEAN,
                     newer : BOOLEAN]
    /\ langSeq \in Nat
    /\ langTask \in Datagram
    /\ releaseTasks \in Nat
    /\ held \subseteq Keys
    /\ done \in Nat /\ resynced \in BOOLEAN
    /\ net \subseteq Datagram
    /\ acks \subseteq [seq : Nat, hi : Nat, attempt : Nat, space : Nat]
    /\ challenges \in Nat /\ echoes \in Nat /\ sent \in Nat /\ space \in Nat
    /\ phys \subseteq Keys
    /\ pushed \in Nat /\ moves \in Nat /\ releases \in Nat
    /\ confirmed \in Nat /\ faults \in Nat /\ toggles \in Nat

(* setInputEnabled(false) and a handler that read the flag before it meet  *)
(* on inputQueue: whatever the interleaving, a key is held only while      *)
(* input is enabled or a release is still queued behind the handler.       *)
HeldOnlyUnderConsent ==
    phase # "gone" /\ held # {} => enabled \/ releaseTasks > 0

(* The host executes the viewer's events in order, each at most once, and  *)
(* skips one only across a ReleaseAll (input_protocol.rs, lines 3-6).      *)
Delivery == INSTANCE InputDelivery

DeliveryInOrder == Delivery!Spec

(* An acknowledgement tells the truth: every producer call the viewer saw  *)
(* acknowledged was executed by the host, or wiped by a ReleaseAll.        *)
AckedIsExecuted == confirmed > done => resynced

(* "An older delayed release must never cancel newer input": a ReleaseAll  *)
(* takes effect only if no event pushed after it has been executed.        *)
ReleaseSparesNewerInput ==
    [][\A a \in acks' \ acks :
          resynced' /\ last' # last => done <= handling.m.ev.hi]_vars

(* The remote pointer never jumps back to an older position, although its  *)
(* datagrams are unacknowledged and arrive in any order.                   *)
PointerNeverGoesBack == [][hostPtr' >= hostPtr]_hostPtr

(* Once the user and the network settle, the viewer's queue drains and no  *)
(* key stays down on the host that the user is not holding: lost events    *)
(* are repaired by retries, exhausted retries by a ReleaseAll.             *)
NoStuckKey ==
    <>[](phase = "open" => /\ queue = <<>> /\ ~Outstanding
                           /\ held \subseteq phys)

=============================================================================
