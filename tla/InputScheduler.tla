--------------------------- MODULE InputScheduler ---------------------------
(***************************************************************************)
(* The viewer's end of the input plane: `InputScheduler` of                *)
(* native/android-viewer/src/input_protocol.rs.  Reliable events wait in a *)
(* bounded queue and are sent one at a time, each retried until its        *)
(* acknowledgement arrives; pointer motion keeps only the newest position. *)
(* Whenever the scheduler gives up on something (queue full, attempts      *)
(* exhausted, focus lost) it throws everything away and sends ReleaseAll.  *)
(*                                                                         *)
(* Sequence numbers are unbounded here: the code's u32 wraps after 2^32    *)
(* reliable events.                                                        *)
(***************************************************************************)
EXTENDS InputWire, Sequences

CONSTANTS
    MaxQueue,         \* MAX_RELIABLE_QUEUE (256)
    MaxAttempts,      \* MAX_RELIABLE_ATTEMPTS (12)
    MaxTextAttempts   \* MAX_TEXT_ATTEMPTS (48)

ASSUME SchedulerAssumption ==
    /\ MaxQueue \in Nat \ {0}
    /\ MaxAttempts \in Nat \ {0}
    /\ MaxTextAttempts \in Nat \ {0}

VARIABLES
    queue,        \* reliable: events not yet sent
    pending,      \* the one reliable event awaiting its acknowledgement
    nextSeq,      \* next_reliable_sequence
    pointer,      \* latest_pointer while dirty, 0 when clean
    nextPtrSeq    \* next_pointer_sequence

schedVars == <<queue, pending, nextSeq, pointer, nextPtrSeq>>

Pending == [seq : Nat, ev : Event, attempts : Nat]

(* Sequences start at 1, so 0 marks the empty slot. *)
NoPending == [seq |-> 0, ev |-> Release(0), attempts |-> 0]

Outstanding == pending.seq # 0

AttemptLimit(ev) == IF ev.op = "text" THEN MaxTextAttempts ELSE MaxAttempts

SchedTypeOK ==
    /\ queue \in Seq(Event)
    /\ Len(queue) <= MaxQueue
    /\ pending \in Pending
    /\ pending.seq < nextSeq
    /\ ~Outstanding => pending = NoPending
    /\ nextSeq \in Nat \ {0}
    /\ pointer \in Nat
    /\ nextPtrSeq \in Nat \ {0}

SchedInit ==
    /\ queue = <<>>
    /\ pending = NoPending
    /\ nextSeq = 1
    /\ pointer = 0
    /\ nextPtrSeq = 1

-----------------------------------------------------------------------------
(* push, by kind of event. *)

PushMove(id) ==
    /\ pointer' = id
    /\ UNCHANGED <<queue, pending, nextSeq, nextPtrSeq>>

PushRelease(at) ==
    /\ queue' = <<Release(at)>>
    /\ pending' = NoPending
    /\ pointer' = 0
    /\ UNCHANGED <<nextSeq, nextPtrSeq>>

(* A plausible slip: the capacity test lets one event too many in. *)
EnqueueOffByOne(ev) ==
    /\ IF Len(queue) > MaxQueue
       THEN queue' = <<Release(ev.hi)>> /\ pending' = NoPending
       ELSE queue' = Append(queue, ev) /\ UNCHANGED pending
    /\ UNCHANGED <<nextSeq, pointer, nextPtrSeq>>

Enqueue(ev) ==
    /\ IF Len(queue) >= MaxQueue
       THEN queue' = <<Release(ev.hi)>> /\ pending' = NoPending
       ELSE queue' = Append(queue, ev) /\ UNCHANGED pending
    /\ UNCHANGED <<nextSeq, pointer, nextPtrSeq>>

(* A scroll behind a scroll is one event: the deltas add up. *)
MergesScroll(ev) ==
    /\ ev.op = "scroll"
    /\ queue # <<>>
    /\ queue[Len(queue)].op = "scroll"

PushReliable(ev) ==
    IF MergesScroll(ev)
    THEN /\ queue' = [queue EXCEPT ![Len(queue)].hi = ev.hi]
         /\ UNCHANGED <<pending, nextSeq, pointer, nextPtrSeq>>
    ELSE Enqueue(ev)

-----------------------------------------------------------------------------
(* next_ready: at most one datagram a call, in this order of preference.   *)

Exhausted == Outstanding /\ pending.attempts >= AttemptLimit(pending.ev)

(* The event ran out of attempts: everything is replaced by a ReleaseAll,  *)
(* which the same call pops and sends.                                     *)
GiveUp(at) ==
    /\ Exhausted
    /\ pending' = [seq |-> nextSeq, ev |-> Release(at), attempts |-> 1]
    /\ queue' = <<>>
    /\ nextSeq' = nextSeq + 1
    /\ UNCHANGED <<pointer, nextPtrSeq>>

Resend ==
    /\ Outstanding
    /\ ~Exhausted
    /\ pending' = [pending EXCEPT !.attempts = @ + 1]
    /\ UNCHANGED <<queue, nextSeq, pointer, nextPtrSeq>>

SendNext ==
    /\ ~Outstanding
    /\ queue # <<>>
    /\ pending' = [seq |-> nextSeq, ev |-> Head(queue), attempts |-> 1]
    /\ queue' = Tail(queue)
    /\ nextSeq' = nextSeq + 1
    /\ UNCHANGED <<pointer, nextPtrSeq>>

SendPointer ==
    /\ pointer # 0
    /\ IF Outstanding THEN ~Exhausted ELSE queue = <<>>
    /\ pointer' = 0
    /\ nextPtrSeq' = nextPtrSeq + 1
    /\ UNCHANGED <<queue, pending, nextSeq>>

-----------------------------------------------------------------------------
(* A plausible slip: any acknowledgement clears the pending event. *)
AcknowledgeAny(seq) ==
    /\ pending' = NoPending
    /\ UNCHANGED <<queue, nextSeq, pointer, nextPtrSeq>>

Acknowledge(seq) ==
    /\ pending' = IF pending.seq = seq
                  THEN NoPending ELSE pending
    /\ UNCHANGED <<queue, nextSeq, pointer, nextPtrSeq>>

ResetSession ==
    /\ queue' = <<>>
    /\ pending' = NoPending
    /\ nextSeq' = 1
    /\ pointer' = 0
    /\ nextPtrSeq' = 1
=============================================================================
