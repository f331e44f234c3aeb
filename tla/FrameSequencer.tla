----------------------------- MODULE FrameSequencer -----------------------------
(* The viewer's sequencer of completed access units, which waits a little for   *)
(* one that is late, and the requester of retransmissions, which has it wait      *)
(* longer. Numbers are IdSpace wide. A deadline is the number of ticks left; an    *)
(* optional value is a set of at most one element. A sequencer is a record:         *)
(*   last     the number delivered last         pending  [id, key, waited] as they came *)
(*   hold     the hold deadline                 grace    whether a hole may be reserved *)
(*   reserved [id, left] of the hole in reserve                                          *)
(* and a requester is:                                                                    *)
(*   attempted the number asked for last        armed    [id, left] of the open request   *)
(*   probe    whether the last request asked for everything                                *)
EXTENDS Naturals, Sequences, FiniteSets, SequencesExt, Sublists

CONSTANTS IdSpace,      \* numbers of access units (2^16)
          MaxReorder,   \* MAX_COMPLETED_REORDER
          Grace         \* ticks of the retransmission grace; a tick is the reorder wait of 8 ms

MaxHeld == 2 * MaxReorder

After(id) == (id + 1) % IdSpace
Distance(id, last) == (id + IdSpace - last) % IdSpace
Ahead(id, last) == Distance(id, last) \in 1 .. (IdSpace \div 2 - 1)

Idle == [last |-> {}, pending |-> <<>>, hold |-> {}, grace |-> FALSE, reserved |-> {}]
NoRequest == [attempted |-> {}, armed |-> {}, probe |-> FALSE]

Pending(s) == {p.id : p \in ToSet(s.pending)}
FrameOf(p) == [id |-> p.id, key |-> p.key]
\* CompletedFrameSequencer::clear leaves the grace as it was configured
Cleared(s) == [Idle EXCEPT !.grace = s.grace]
Released(s) == [s EXCEPT !.hold = {}, !.reserved = {}]
Holding(s) == \E left \in s.hold : left > 0

\* the number everything pending waits for
BlockedHole(s) == {h \in {After(l) : l \in s.last} : s.pending # <<>> /\ h \notin Pending(s)}

ExpiryDue(s) == \E p \in ToSet(s.pending) : p.waited /\ ~Holding(s)

\* how many numbers in a row, from id on, are pending
Run(s, id) ==
  LET whole == {n \in 0 .. Len(s.pending) : \A i \in 0 .. n - 1 : (id + i) % IdSpace \in Pending(s)}
  IN CHOOSE n \in whole : \A m \in whole : m <= n
FrameAt(s, id) == FrameOf(CHOOSE p \in ToSet(s.pending) : p.id = id)

\* the pending access units from id on leave in the order of their numbers
DrainFrom(s, id) ==
  LET n == Run(s, id)
      ids == [i \in 1 .. n |-> (id + i - 1) % IdSpace]
  IN [seq |-> [s EXCEPT !.pending = Selected(@, LAMBDA p : p.id \notin ToSet(ids)),
                        !.last = IF n = 0 THEN @ ELSE {ids[n]}],
      frames |-> [i \in 1 .. n |-> FrameAt(s, ids[i])]]

\* drain_next_available: past the hole, to the nearest number
DrainNext(s) ==
  LET last == CHOOSE l \in s.last : TRUE
      nearest == CHOOSE id \in Pending(s) : \A o \in Pending(s) : Distance(id, last) <= Distance(o, last)
  IN DrainFrom(s, nearest)

Nothing(s) == [seq |-> s, frames |-> <<>>]

DrainExpired(s) == IF s.last # {} /\ ExpiryDue(s) THEN DrainNext(s) ELSE Nothing(s)

ConfigureGrace(s, eligible) ==
  IF eligible THEN [s EXCEPT !.grace = TRUE] ELSE [Released(s) EXCEPT !.grace = FALSE]

\* no epoch: a keyframe starts one and keeps what follows it
BeginEpoch(s, f) ==
  LET n == Run(s, After(f.id))
      kept == {(f.id + i) % IdSpace : i \in 1 .. n}
      drained == DrainFrom([s EXCEPT !.last = {f.id}, !.pending = Selected(@, LAMBDA p : p.id \in kept)],
                           After(f.id))
  IN [drained EXCEPT !.frames = <<f>> \o @]
Waiting(f) == [id |-> f.id, key |-> f.key, waited |-> FALSE]

\* slip: the queue of the deltas before an epoch has no bound
PushUnbounded(s, f) ==
  IF f.key THEN BeginEpoch(s, f)
  ELSE IF f.id \in Pending(s) THEN Nothing(s) ELSE Nothing([s EXCEPT !.pending = Append(@, Waiting(f))])
\* the deltas before it wait in a short queue
PushBeforeEpoch(s, f) ==
  IF f.key THEN BeginEpoch(s, f)
  ELSE IF f.id \in Pending(s) THEN Nothing(s)
  ELSE Nothing([s EXCEPT !.pending = Append(IF Len(@) >= MaxReorder THEN Tail(@) ELSE @, Waiting(f))])

FlushThreshold(s) == IF Holding(s) THEN MaxHeld ELSE MaxReorder

PushAfter(s, f, last) ==
  IF ~Ahead(f.id, last) THEN Nothing(s)
  ELSE LET put == IF f.id \in Pending(s) THEN s
                  ELSE [s EXCEPT !.pending = Append(@, Waiting(f))]
           ready == DrainFrom(put, After(last))
       IN IF ready.frames # <<>> THEN ready
          ELSE IF ExpiryDue(put) \/ Len(put.pending) >= FlushThreshold(put) THEN DrainNext(put)
          ELSE Nothing(put)

\* push_at
PushFrame(s, f) == IF s.last = {} THEN PushBeforeEpoch(s, f) ELSE PushAfter(s, f, CHOOSE l \in s.last : TRUE)

\* slip: an expired reservation makes room for another one of the same hole
ReservesAgain(s, f, missing) ==
  LET last == CHOOSE l \in s.last : TRUE
      hole == After(last)
      moved == IF \E r \in s.reserved : r.id # hole \/ r.left = 0 THEN Released(s) ELSE s
      left == IF moved.hold = {} THEN Grace ELSE CHOOSE h \in moved.hold : TRUE
  IN IF ~s.grace \/ s.last = {} THEN s
     ELSE IF ~Ahead(f.id, last) \/ f.id = hole THEN s
     ELSE IF moved.reserved = {} /\ \E m \in missing[hole] : m # {}
          THEN [moved EXCEPT !.reserved = {[id |-> hole, left |-> left]}, !.hold = {left}]
     ELSE moved
\* a hole of which some fragments are there is given the grace, once
Reserve(s, f, missing) ==
  LET last == CHOOSE l \in s.last : TRUE
      hole == After(last)
      moved == IF \E r \in s.reserved : r.id # hole THEN Released(s) ELSE s
      left == IF moved.hold = {} THEN Grace ELSE CHOOSE h \in moved.hold : TRUE
  IN IF ~s.grace \/ s.last = {} THEN s
     ELSE IF ~Ahead(f.id, last) \/ f.id = hole THEN s
     ELSE IF moved.reserved = {} /\ \E m \in missing[hole] : m # {}
          THEN [moved EXCEPT !.reserved = {[id |-> hole, left |-> left]}, !.hold = {left}]
     ELSE moved

\* push_reassembled: what is known to be missing is the reassembler's
PushReassembled(s, f, missing) ==
  LET pushed == PushFrame(Reserve(s, f, missing), f)
  IN [pushed EXCEPT !.seq = IF \E r \in @.reserved : r.id \notin BlockedHole(@) THEN Released(@) ELSE @]

----------------------------------------------------------------------------
\* tick_nack_requester: a request completed or overdue is settled
Settled(n, recent) ==
  [n EXCEPT !.armed = {a \in @ : ~Contains(recent, a.id) /\ a.left > 0}]

Quiet(s, n, probe) == [seq |-> [s EXCEPT !.hold = {}], nack |-> [NoRequest EXCEPT !.probe = probe], asks |-> {}]
Ask(id, shards) == {[kind |-> "nack", id |-> id, shards |-> shards]}

\* the open request of this hole: a probe is followed, once, by what it left missing
FollowUp(s, n, hole, left, missing) ==
  LET held == [s EXCEPT !.hold = {left}]
      rest == {m \in missing[hole] : n.probe /\ m # {}}
  IN IF rest = {} THEN [seq |-> held, nack |-> n, asks |-> {}]
     ELSE [seq |-> held, nack |-> [n EXCEPT !.probe = FALSE], asks |-> Ask(hole, UNION rest)]

\* a first request of this hole, for what is missing or, where nothing is known, for everything
Arm(s, n, hole, missing, everything) ==
  LET known == missing[hole]
      lefts == {r.left : r \in {q \in s.reserved : q.id = hole}}
      left == IF lefts = {} THEN Grace ELSE CHOOSE l \in lefts : TRUE
      tried == [n EXCEPT !.attempted = {hole}, !.probe = known = {}]
      quiet == [s EXCEPT !.hold = {}]
  IN IF known = {{}} THEN [seq |-> quiet, nack |-> [n EXCEPT !.attempted = {}], asks |-> {}]
     ELSE IF left = 0 THEN [seq |-> quiet, nack |-> tried, asks |-> {}]
     ELSE [seq |-> [s EXCEPT !.hold = {left}], nack |-> [tried EXCEPT !.armed = {[id |-> hole, left |-> left]}],
           asks |-> Ask(hole, IF known = {} THEN everything ELSE UNION known)]

NackTick(s, requester, missing, recent, awaiting, everything) ==
  LET n == Settled(requester, recent)
      holes == BlockedHole(s)
      hole == CHOOSE h \in holes : TRUE
  IN IF holes = {} \/ awaiting THEN Quiet(s, n, n.probe)
     ELSE IF \E a \in n.armed : a.id = hole
          THEN FollowUp(s, n, hole, (CHOOSE a \in n.armed : TRUE).left, missing)
     ELSE IF hole \in n.attempted THEN [seq |-> [s EXCEPT !.hold = {}], nack |-> n, asks |-> {}]
     ELSE Arm(s, n, hole, missing, everything)

=================================================================================
