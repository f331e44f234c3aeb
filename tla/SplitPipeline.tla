----------------------------- MODULE SplitPipeline -----------------------------
(* The macOS host's split stream: every captured frame is split into a left and  *)
(* a right tile, each with an encoder of its own; the halves meet in a barrier,  *)
(* are packetized and sent as one pair. A pair travels under a flow lease that   *)
(* captureLock guards; the pipeline has its own generation on the encode queue.  *)
(* A job of a queue is one step, but for a transport recovery: it begins under   *)
(* captureLock and is finished by a cleanup under both locks, and until then the *)
(* queue that began it does nothing else. A session that stops throws all of     *)
(* this away and is left out.                                                    *)
EXTENDS Naturals, FiniteSets, SequencesExt

CONSTANTS InFlight,       \* pairs in flight, flow capacity, retained halves: one limit in the code
          CaptureLimit,   \* captures that wait
          SoftExpiries,   \* expiries in a row that are not yet a recovery
          MaxCaptures, MaxRequests, MaxExpiries, MaxFaults,
          MaxDisturbances   \* expiries and faults together, a request counting for two

VARIABLES flow,       \* SplitFlowControlState, under captureLock
          enc,        \* pending captures and encode slots, under captureLock
          pipe,       \* SplitPairLifecycleState and the barrier, on encodeQueue
          outs,       \* what the splitter and the two encoders have still to return
          jobs,       \* packetizationQueue
          net,        \* pending units, and the one being written
          wire,       \* for each tile: the last sample sent, and whether it decodes
          excused,    \* tiles whose reference a soft expiry threw away, or that it sent unchecked
          cleaning,   \* for each queue, the recovery it has to clean up after
          asks,       \* tile keyframes asked for on encodeQueue
          spent
vars == <<flow, enc, pipe, outs, jobs, net, wire, excused, cleaning, asks, spent>>

Sides == {"left", "right"}
Other(side) == IF side = "left" THEN "right" ELSE "left"
Queues == {"encode", "packet", "network", "control"}
None == 99
NoLease == [id |-> None, gen |-> None, boundary |-> FALSE]
NoUnit == [seq |-> None]

Init ==
  /\ flow = [gen |-> 0, pending |-> TRUE, boundary |-> None, active |-> {}]
  /\ enc = [inFlight |-> 0, scheduled |-> FALSE, captures |-> 0, carrier |-> FALSE]
  /\ pipe = [next |-> 0, gen |-> 0, paired |-> TRUE, tiles |-> {}, pairs |-> {}, barrier |-> {},
             cancelled |-> {}, streak |-> 0, chain |-> [side \in Sides |-> None]]
  /\ outs = [from \in Sides \cup {"splitter"} |-> <<>>]
  /\ jobs = <<>>
  /\ net = [queue |-> <<>>, writing |-> NoUnit, at |-> "idle"]
  /\ wire = [side \in Sides |-> [last |-> None, whole |-> TRUE]]
  /\ excused = {}
  /\ cleaning = [q \in Queues |-> None]
  /\ asks = {}
  /\ spent = [captures |-> 0, requests |-> 0, expiries |-> 0, faults |-> 0]

Free(q) == cleaning[q] = None
Spend(what) == spent' = [spent EXCEPT ![what] = @ + 1]
Undisturbed(weight) == 2 * spent.requests + spent.expiries + spent.faults + weight <= MaxDisturbances
MayFail == spent.faults < MaxFaults /\ Undisturbed(1)

-------------------------------------------------------------------------------
(* SplitFlowControlState *)
CanAdmit(f) == Cardinality(f.active) < InFlight /\ ~(f.pending /\ f.boundary # None)
NewLease(f) == [id |-> pipe.next, gen |-> f.gen, boundary |-> f.pending]
Admitted(f) ==
  [f EXCEPT !.active = @ \cup {NewLease(f)}, !.boundary = IF f.pending THEN pipe.next ELSE @]
Accepts(f, lease) == lease.gen = f.gen /\ lease \in f.active
Completed(f, leases) ==
  LET current == \E l \in leases \cap f.active : l.boundary /\ f.boundary = l.id
  IN [f EXCEPT !.active = @ \ leases, !.pending = @ /\ ~current,
               !.boundary = IF current THEN None ELSE @]
\* slip: leases of the episode before stay active
KeepsLeases(f) == [f EXCEPT !.gen = @ + 1, !.pending = TRUE, !.boundary = None]
Recovered(f) == [KeepsLeases(f) EXCEPT !.active = {}]
Needed(f, invalidate, failed) ==
  /\ failed = NoLease \/ Accepts(f, failed)
  /\ invalidate \/ ~f.pending

(* captures and encode slots *)
Schedule(e) == IF e.captures > 0 THEN [e EXCEPT !.scheduled = TRUE] ELSE e
ScheduleIfRoom(e) == IF e.inFlight < InFlight THEN Schedule(e) ELSE e
Seeded(e) == IF e.captures = 0 /\ e.carrier THEN [e EXCEPT !.captures = 1] ELSE e
Slots(e, n) == IF n = 0 THEN e ELSE Schedule([e EXCEPT !.inFlight = IF @ > n THEN @ - n ELSE 0])
AfterFinish(f, e, leases) == IF leases \cap f.active = {} THEN e ELSE ScheduleIfRoom(e)

\* beginSplitTransportRecovery, its first half
BeginRecovery(q, invalidate, failed, f, e) ==
  IF Needed(f, invalidate, failed)
  THEN /\ flow' = Recovered(f)
       /\ enc' = Seeded(e)
       /\ cleaning' = [cleaning EXCEPT ![q] = f.gen + 1]
  ELSE flow' = f /\ enc' = e /\ UNCHANGED cleaning

Kept(g) == SelectSeq(net.queue, LAMBDA u : Accepts(flow, u.lease))
\* and its second half: an older operation does not clean a newer episode
Cleanup(q) ==
  LET needs == flow.active = {}
      e == IF needs THEN ScheduleIfRoom(Seeded(enc)) ELSE enc
  IN /\ cleaning[q] # None
     /\ cleaning' = [cleaning EXCEPT ![q] = None]
     /\ IF cleaning[q] = flow.gen /\ flow.pending
        THEN net' = [net EXCEPT !.queue = Kept(flow.gen)] /\ enc' = e
        ELSE UNCHANGED <<net, enc>>
     /\ UNCHANGED <<flow, pipe, outs, jobs, wire, excused, asks, spent>>

-------------------------------------------------------------------------------
(* captures and the encode queue *)
Capture ==
  /\ spent.captures < MaxCaptures
  /\ Spend("captures")
  /\ enc' = ScheduleIfRoom([enc EXCEPT !.captures = IF @ < CaptureLimit THEN @ + 1 ELSE @, !.carrier = TRUE])
  /\ UNCHANGED <<flow, pipe, outs, jobs, net, wire, excused, cleaning, asks>>

Asked(lease) == IF pipe.paired \/ lease.boundary THEN Sides ELSE pipe.tiles
Submit(lease) ==
  IF Cardinality(pipe.pairs) < InFlight
  THEN /\ pipe' = [pipe EXCEPT !.next = @ + 1, !.paired = FALSE, !.tiles = {}, !.pairs = @ \cup {lease}]
       /\ outs' = [outs EXCEPT !["splitter"] =
                     Append(@, [seq |-> pipe.next, gen |-> pipe.gen, asked |-> Asked(lease)])]
       /\ flow' = Admitted(flow)
       /\ enc' = [enc EXCEPT !.inFlight = @ + 1, !.captures = @ - 1]
  ELSE /\ flow' = Completed(Admitted(flow), {lease})
       /\ enc' = Slots([enc EXCEPT !.inFlight = @ + 1, !.captures = @ - 1], 1)
       /\ UNCHANGED <<pipe, outs>>
\* drainEncodeQueue, once around its loop
Drain ==
  /\ enc.scheduled /\ Free("encode")
  /\ IF enc.inFlight >= InFlight \/ ~CanAdmit(flow)
     THEN enc' = [enc EXCEPT !.scheduled = FALSE] /\ UNCHANGED <<flow, pipe, outs>>
     ELSE IF enc.captures = 0
     THEN /\ flow' = Completed(Admitted(flow), {NewLease(flow)})
          /\ enc' = [enc EXCEPT !.scheduled = FALSE]
          /\ UNCHANGED <<pipe, outs>>
     ELSE Submit(NewLease(flow))
  /\ UNCHANGED <<jobs, net, wire, excused, cleaning, asks, spent>>

\* beginPairedRecovery with its event; every pair in flight gives its slot and its lease back
PairedRecovery ==
  LET released == Cardinality(pipe.pairs)
      e == Slots(enc, released)
  IN /\ pipe' = [pipe EXCEPT !.gen = @ + 1, !.paired = TRUE, !.pairs = {}, !.barrier = {},
                             !.cancelled = {}, !.streak = 0]
     /\ IF released > 0 THEN BeginRecovery("encode", TRUE, NoLease, flow, e)
        ELSE enc' = e /\ UNCHANGED <<flow, cleaning>>

Current(out) == out.gen = pipe.gen
Split ==
  LET out == Head(outs["splitter"])
      Sample(side) == [seq |-> out.seq, gen |-> out.gen, asked |-> side \in out.asked, ref |-> pipe.chain[side]]
      rest == [outs EXCEPT !["splitter"] = Tail(@)]
  IN /\ outs["splitter"] # <<>> /\ Free("encode")
     /\ \/ /\ Current(out)
           /\ outs' = [rest EXCEPT !["left"] = Append(@, Sample("left")), !["right"] = Append(@, Sample("right"))]
           /\ pipe' = [pipe EXCEPT !.chain = [side \in Sides |-> out.seq]]
           /\ UNCHANGED <<flow, enc, cleaning, spent>>
        \/ Current(out) /\ MayFail /\ Spend("faults") /\ outs' = rest /\ PairedRecovery
        \/ ~Current(out) /\ outs' = rest /\ UNCHANGED <<pipe, flow, enc, cleaning, spent>>
     /\ UNCHANGED <<jobs, net, wire, excused, asks>>

LeaseOf(seq) == CHOOSE l \in pipe.pairs : l.id = seq
KeysMatch(left, right) ==
  /\ left.asked => left.key
  /\ right.asked => right.key
  /\ left.asked \/ right.asked \/ left.key = right.key
Emit(left, right) ==
  LET lease == LeaseOf(left.seq)
  IN /\ pipe' = [pipe EXCEPT !.barrier = {h \in @ : h.seq # left.seq}, !.streak = 0, !.pairs = @ \ {lease}]
     /\ enc' = Slots(enc, 1)
     /\ jobs' = Append(jobs, [seq |-> left.seq, lease |-> lease, tiles |-> [left |-> left, right |-> right],
                              solo |-> FALSE, ready |-> FALSE])
     /\ UNCHANGED <<flow, cleaning>>
\* publish: one half has arrived
Arrive(side, sample) ==
  LET met == {h \in pipe.barrier : h.seq = sample.seq}
      half == [seq |-> sample.seq, side |-> side, sample |-> sample]
      Half(d) == IF d = side THEN sample ELSE (CHOOSE h \in met : TRUE).sample
  IN IF sample.seq \in pipe.cancelled
     THEN pipe' = [pipe EXCEPT !.cancelled = @ \ {sample.seq}] /\ UNCHANGED <<jobs, flow, enc, cleaning>>
     ELSE IF met # {}
     THEN IF KeysMatch(Half("left"), Half("right")) THEN Emit(Half("left"), Half("right"))
          ELSE PairedRecovery /\ UNCHANGED jobs
     ELSE IF Cardinality(pipe.barrier) = InFlight THEN PairedRecovery /\ UNCHANGED jobs
     ELSE pipe' = [pipe EXCEPT !.barrier = @ \cup {half}] /\ UNCHANGED <<jobs, flow, enc, cleaning>>
\* an encoder may fail, or take a request for a keyframe lightly
TileEncoded(side) ==
  LET out == Head(outs[side])
      Sample(key) == [seq |-> out.seq, asked |-> out.asked, key |-> key, ref |-> out.ref]
  IN /\ outs[side] # <<>> /\ Free("encode")
     /\ outs' = [outs EXCEPT ![side] = Tail(@)]
     /\ \/ Current(out) /\ Arrive(side, Sample(out.asked)) /\ UNCHANGED spent
        \/ Current(out) /\ MayFail /\ Spend("faults") /\ Arrive(side, Sample(~out.asked))
        \/ Current(out) /\ MayFail /\ Spend("faults") /\ PairedRecovery /\ UNCHANGED jobs
        \/ ~Current(out) /\ UNCHANGED <<pipe, jobs, flow, enc, cleaning, spent>>
     /\ UNCHANGED <<net, wire, excused, asks>>

CancelledBy(halves) == {h.seq : h \in halves}
GoesSolo(h) == h.side = "left"
\* handlePairCallbackExpiry: halves wait in the order of their frames, and so do they expire
Expire ==
  \E oldest \in {h.seq : h \in pipe.barrier} :
    LET halves == {h \in pipe.barrier : h.seq <= oldest}
        solos == {h \in halves : GoesSolo(h)}
        retired == {LeaseOf(h.seq) : h \in halves \ solos}
        Job(h) == [seq |-> h.seq, lease |-> LeaseOf(h.seq), tiles |-> [left |-> h.sample, right |-> h.sample],
                   solo |-> TRUE, ready |-> FALSE]
        order == SetToSortSeq(solos, LAMBDA a, b : a.seq < b.seq)
    IN /\ Free("encode")
       /\ spent.expiries < MaxExpiries /\ Undisturbed(1) /\ Spend("expiries")
       /\ IF pipe.streak >= SoftExpiries THEN PairedRecovery /\ UNCHANGED <<jobs, excused>>
          ELSE /\ pipe' = [pipe EXCEPT !.barrier = @ \ halves, !.streak = @ + 1,
                             !.pairs = {l \in @ : \A h \in halves : l.id # h.seq},
                             !.cancelled = @ \cup CancelledBy(halves),
                             !.tiles = @ \cup {Other(h.side) : h \in halves}]
               /\ jobs' = jobs \o [i \in DOMAIN order |-> Job(order[i])]
               /\ enc' = AfterFinish(flow, Slots(enc, Cardinality(halves)), retired)
               /\ flow' = Completed(flow, retired)
               /\ excused' = IF halves = solos THEN excused ELSE Sides
               /\ UNCHANGED cleaning
       /\ UNCHANGED <<outs, net, wire, asks>>

-------------------------------------------------------------------------------
(* packetization and the network *)
\* The lease is looked at before the conversion; it may be gone when the unit is queued.
Packetize ==
  LET job == Head(jobs)
  IN /\ jobs # <<>> /\ ~job.ready /\ Free("packet")
     /\ \/ ~Accepts(flow, job.lease) /\ jobs' = Tail(jobs) /\ UNCHANGED <<flow, enc, cleaning, spent>>
        \/ Accepts(flow, job.lease) /\ jobs' = [jobs EXCEPT ![1].ready = TRUE] /\ UNCHANGED <<flow, enc, cleaning, spent>>
        \/ /\ Accepts(flow, job.lease) /\ MayFail /\ Spend("faults")
           /\ jobs' = Tail(jobs)
           /\ BeginRecovery("packet", TRUE, job.lease, flow, enc)
     /\ UNCHANGED <<pipe, outs, net, wire, excused, asks>>
Before(u, v) == u.seq < v.seq
Enqueue ==
  LET job == Head(jobs)
      earlier == SelectSeq(net.queue, LAMBDA u : ~Before(job, u))
      later == SelectSeq(net.queue, LAMBDA u : Before(job, u))
  IN /\ jobs # <<>> /\ job.ready /\ Free("packet")
     /\ jobs' = Tail(jobs)
     /\ net' = [net EXCEPT !.queue = earlier \o <<job>> \o later]
     /\ IF Len(net.queue) + 1 > InFlight THEN BeginRecovery("packet", TRUE, NoLease, flow, enc)
        ELSE UNCHANGED <<flow, enc, cleaning>>
     /\ UNCHANGED <<pipe, outs, wire, excused, asks, spent>>

Take ==
  /\ net.queue # <<>> /\ net.at = "idle" /\ Free("network")
  /\ net' = [net EXCEPT !.writing = Head(net.queue), !.queue = Tail(@), !.at = "taken"]
  /\ UNCHANGED <<flow, enc, pipe, outs, jobs, wire, excused, cleaning, asks, spent>>
SidesOf(unit) == IF unit.solo THEN {"left"} ELSE Sides
Sent(unit) ==
  [side \in Sides |->
     IF side \notin SidesOf(unit) THEN wire[side]
     ELSE LET t == unit.tiles[side]
          IN [last |-> t.seq, whole |-> t.key \/ (wire[side].whole /\ t.ref = wire[side].last)]]
Idle == [net EXCEPT !.writing = NoUnit, !.at = "idle"]
\* writeSplitPacketPair: the lease is looked at before every datagram
Write ==
  LET unit == net.writing
  IN /\ net.at = "taken"
     /\ \/ ~Accepts(flow, unit.lease) /\ net' = Idle /\ UNCHANGED <<wire, excused, spent>>
        \/ /\ Accepts(flow, unit.lease)
           /\ net' = [net EXCEPT !.at = "sent"]
           /\ wire' = Sent(unit)
           /\ excused' = {side \in excused : ~(side \in SidesOf(unit) /\ unit.tiles[side].key)}
                           \cup {side \in SidesOf(unit) : unit.solo /\ unit.tiles[side].asked /\ ~unit.tiles[side].key}
           /\ UNCHANGED spent
        \/ /\ Accepts(flow, unit.lease) /\ MayFail /\ Spend("faults")
           /\ net' = [net EXCEPT !.at = "failed"]
           /\ UNCHANGED <<wire, excused>>
     /\ UNCHANGED <<flow, enc, pipe, outs, jobs, cleaning, asks>>
AfterFailure(unit, f, e) == BeginRecovery("network", TRUE, unit.lease, f, e)
\* slip: a single tile needs no recovery
SoloSuffices(unit, f, e) == flow' = f /\ enc' = e /\ UNCHANGED cleaning
AfterSolo(unit, f, e) == BeginRecovery("network", FALSE, NoLease, f, e)
\* drainNetwork after the write: a late result belongs to an episode that is over
Written ==
  LET unit == net.writing
      f == Completed(flow, {unit.lease})
      e == AfterFinish(flow, enc, {unit.lease})
  IN /\ net.at \in {"sent", "failed"}
     /\ net' = Idle
     /\ IF ~Accepts(flow, unit.lease) THEN UNCHANGED <<flow, enc, cleaning>>
        ELSE IF net.at = "failed" THEN AfterFailure(unit, flow, enc)
        ELSE IF unit.solo THEN AfterSolo(unit, f, e)
        ELSE flow' = f /\ enc' = e /\ UNCHANGED cleaning
     /\ UNCHANGED <<pipe, outs, jobs, wire, excused, asks, spent>>

-------------------------------------------------------------------------------
(* the viewer *)
\* a viewer asks for both tiles, or for one while no boundary is pending
AskPaired ==
  /\ Free("control") /\ spent.requests < MaxRequests /\ Undisturbed(2) /\ Spend("requests")
  /\ BeginRecovery("control", FALSE, NoLease, flow, enc)
  /\ UNCHANGED <<pipe, outs, jobs, net, wire, excused, asks>>
AskTile(side) ==
  /\ Free("control") /\ ~flow.pending /\ spent.requests < MaxRequests /\ Undisturbed(2) /\ Spend("requests")
  /\ asks' = asks \cup {side}
  /\ UNCHANGED <<flow, enc, pipe, outs, jobs, net, wire, excused, cleaning>>
RunTileRequest(side) ==
  /\ side \in asks /\ Free("encode")
  /\ asks' = asks \ {side}
  /\ pipe' = [pipe EXCEPT !.tiles = @ \cup {side}]
  /\ UNCHANGED <<flow, enc, outs, jobs, net, wire, excused, cleaning, spent>>

Next ==
  \/ Capture \/ Drain \/ Split \/ Expire \/ Packetize \/ Enqueue \/ Take \/ Write \/ Written
  \/ AskPaired
  \/ \E side \in Sides : TileEncoded(side) \/ AskTile(side) \/ RunTileRequest(side)
  \/ \E q \in Queues : Cleanup(q)
Spec == Init /\ [][Next]_vars

-------------------------------------------------------------------------------
\* Every active lease travels with exactly one thing: a pair in the encoders, a packetization, a
\* queued unit or the one being written. A lease that nothing carries would never come back, and one
\* carried twice would be given back for the wrong pair.
LeasesAreCarried ==
  \A l \in flow.active :
    LET queued == {i \in DOMAIN net.queue : net.queue[i].lease = l}
        packing == {i \in DOMAIN jobs : jobs[i].lease = l}
        writing == {u \in {net.writing} : u # NoUnit /\ u.lease = l}
    IN Cardinality(pipe.pairs \cap {l}) + Cardinality(queued) + Cardinality(packing) + Cardinality(writing) = 1

\* The encode slots taken are those of the pairs in the pipeline: no expiry, recovery or late
\* callback gives a slot back twice or keeps one, so that an admitted frame is never refused.
SlotsArePairs == enc.inFlight = Cardinality(pipe.pairs)

\* Whatever is dropped, expired, refused or recovered between the encoders and the wire: a delta is
\* sent only behind the very sample it refers to. Two exceptions, both of the soft expiry: a right half
\* that was ready is thrown away with nothing but a keyframe of the left tile asked for, and a left half
\* goes out without the look at its keyframe that a pair gets.
DeltasFollowTheirReference == \A side \in Sides : wire[side].whole \/ side \in excused

\* Every lease is carried by one pair, slots are taken pair by pair, and a delta is
\* sent behind its reference.
PairsFollowTheirReference ==
  /\ LeasesAreCarried
  /\ SlotsArePairs
  /\ DeltasFollowTheirReference

\* "An unsent reference invalidates every admitted descendant" (SplitRecoveryPolicy.swift): the same
\* without exception.
UnsentReferenceInvalidates == \A side \in Sides : wire[side].whole

\* A recovery that was begun and has a frame to begin with reaches its boundary.
Unsettled == flow.pending /\ enc.carrier
================================================================================
