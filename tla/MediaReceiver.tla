----------------------------- MODULE MediaReceiver -----------------------------
(* The receive loop of the viewer's renderer, with the link to the host: one     *)
(* iteration sends what is due, takes a batch of datagrams and presents the        *)
(* access units they completed, one step each. Nothing else touches the worker's    *)
(* state, so the host and the clock wait for an iteration to end.                    *)
(* The viewer is a record: asm, seq, nack (FrameAssembly, FrameSequencer), dec        *)
(* whether there is a decoder, last the number presented last, awaiting a keyframe,     *)
(* gate ticks until the next keyframe request, incident the render health's episode, if any, *)
(* [age, idr, rebuilt], queue and shown the batch being presented, hidden without Surface. *)
EXTENDS FrameAssembly, FrameSequencer

CONSTANTS BatchSize,      \* MEDIA_BATCH_SIZE: datagrams of a batch and slots for what they complete
          Cooldown,       \* RECOVERY_REQUEST_COOLDOWN and RENDER_IDR_DEADLINE, in ticks
          RebuildAfter,   \* RENDER_REBUILD_DEADLINE, in ticks
          RingSize,       \* access units the host keeps for retransmission
          MaxAir,         \* datagrams under way when the host sends another access unit
          Endless,        \* whether the host goes on for ever, and otherwise
          MaxUnits,       \* how many access units it sends
          MaxUpsets       \* losses, reorderings, decoder failures, surfaces lost, ...

VARIABLES host,     \* next: the next number; sent: how many; asked: a keyframe is owed;
                    \* ring: what can be sent again
          air,      \* datagrams on their way to the viewer
          up,       \* requests on their way to the host
          viewer,
          fed,      \* the access unit the decoder was fed last, as long as it is intact
          upsets

vars == <<host, air, up, viewer, fed, upsets>>

Numbers == 0 .. IdSpace - 1
Idr == [kind |-> "idr"]
Media(id, key, shard) == [kind |-> "media", id |-> id, key |-> key, shard |-> shard]
Mark(kind) == [kind |-> kind, id |-> 0, key |-> FALSE, shard |-> 0]

Init ==
  /\ host = [next |-> IdSpace - 2, sent |-> 0, asked |-> TRUE, ring |-> <<>>]
  /\ air = <<>> /\ up = {} /\ fed = {} /\ upsets = 0
  /\ viewer = [asm |-> Empty, seq |-> Idle, nack |-> NoRequest, dec |-> FALSE, last |-> {},
               awaiting |-> TRUE, gate |-> 0, incident |-> {}, queue |-> <<>>,
               shown |-> FALSE, hidden |-> FALSE]

----------------------------------------------------------------------------
(* The host and the link. *)

Upset == upsets < MaxUpsets /\ upsets' = upsets + 1
Calm == upsets' = upsets
Between == viewer.queue = <<>>

\* an access unit; a keyframe that was asked for follows its configuration
Datagrams(id, key, config) ==
  (IF config THEN <<Mark("config")>> ELSE <<>>)
    \o [i \in 1 .. K |-> Media(id, key, i)]
    \o (IF key /\ K > 1 THEN <<Media(id, key, ParityShard)>> ELSE <<>>)

\* the ring keeps the newest access units; those before a number of the previous round are gone
Stored(ring, id, key) == Newest(Append(Without(ring, id), [id |-> id, key |-> key, got |-> {}]), RingSize)

\* A number comes round again after 2^16 access units. What the viewer still has of the unit that
\* had it before differs in its times and is dropped with the first new fragment; here, when it is sent.
Renumbered(v, id) ==
  [v EXCEPT !.asm = [partial |-> Without(@.partial, id), groups |-> Without(@.groups, id),
                     recent |-> Selected(@.recent, LAMBDA r : r # id),
                     done |-> Selected(@.done, LAMBDA r : r # id)]]

\* frames dropped at the encoder in front of a recovery keyframe have used up their numbers
SendUnit(skipped, key, lost) ==
  LET id == (host.next + skipped) % IdSpace
      sent == Datagrams(id, key, host.asked)
  IN /\ Between /\ Len(air) <= MaxAir /\ (Endless \/ host.sent < MaxUnits)
     /\ host.asked => key
     /\ skipped > 0 => host.asked
     /\ air' = air \o AtIndexes(sent, DOMAIN sent \ lost)
     /\ host' = [next |-> After(id), sent |-> IF Endless THEN 0 ELSE host.sent + 1, asked |-> FALSE, ring |-> Stored(host.ring, id, key)]
     /\ viewer' = Renumbered(viewer, id)
     /\ UNCHANGED <<up, fed>>
Send == Calm /\ \E skipped \in 0 .. 1 : SendUnit(skipped, host.asked, {})
\* a keyframe nobody asked for, or a burst of loss
SendUpset == Upset /\ \/ ~host.asked /\ SendUnit(0, TRUE, {})
                      \/ \E lost \in (SUBSET (1 .. K + 2)) \ {{}} : SendUnit(0, host.asked, lost)

\* handleViewerMessage, handleViewerNack: what the ring still has is sent again
HandleUp(m) ==
  /\ Between
  /\ up' = up \ {m}
  /\ IF m.kind = "idr" THEN host' = [host EXCEPT !.asked = TRUE] /\ UNCHANGED air
     ELSE LET served == IF Has(host.ring, m.id) THEN m.shards ELSE {}
              key == \E u \in ToSet(host.ring) : u.id = m.id /\ u.key
          IN air' = air \o AtIndexes([i \in Data |-> Media(m.id, key, i)], served)
             /\ UNCHANGED host
  /\ Calm /\ UNCHANGED <<viewer, fed>>
LoseUp(m) == Between /\ up' = up \ {m} /\ Upset /\ UNCHANGED <<host, air, viewer, fed>>
\* two neighbours arrive in the wrong order
Reorder ==
  /\ Between /\ Len(air) >= 2 /\ air[1] # air[2]
  /\ air' = <<air[2], air[1]>> \o SubSeq(air, 3, Len(air))
  /\ Upset /\ UNCHANGED <<host, up, viewer, fed>>
\* the host sends from another port, or starts the session anew with a challenge
Rebind(kind) ==
  /\ Between /\ Len(air) <= MaxAir
  /\ air' = Append(air, Mark(kind))
  /\ Upset /\ UNCHANGED <<host, up, viewer, fed>>

----------------------------------------------------------------------------
(* The worker. A step computes [v, up, fed]: the viewer, its requests and the decoder's chain. *)

St == [v |-> viewer, up |-> up, fed |-> fed]
Becomes(s) == viewer' = s.v /\ up' = s.up /\ fed' = s.fed

MissingOf(v) == [id \in Numbers |-> Missing(v.asm, id)]

\* request_idr_debounced, once per cooldown
RequestIdr(s) == IF s.v.gate > 0 THEN s ELSE [s EXCEPT !.v.gate = Cooldown, !.up = @ \cup {Idr}]

ResetDecoder(s) == [s EXCEPT !.v.dec = FALSE, !.v.awaiting = TRUE, !.fed = {}]
\* resync_decoder_after_frame_gap: the decoder is flushed
Resync(s) == [s EXCEPT !.v.awaiting = TRUE, !.fed = {}]
\* the transport state of a receiver that begins anew
Clear(s) == [s EXCEPT !.v.asm = Empty, !.v.seq = Cleared(@), !.v.last = {}]

\* slip: a keyframe is asked for by the event that needs it, and not again
AsksOnce(s) ==
  LET tick == NackTick(s.v.seq, s.v.nack, MissingOf(s.v), s.v.asm.recent, s.v.awaiting, Data)
  IN [s EXCEPT !.v.seq = tick.seq, !.v.nack = tick.nack, !.up = @ \cup tick.asks]
\* at the top of an iteration
Top(s) ==
  LET asked == IF s.v.awaiting THEN RequestIdr(s) ELSE s
      v == asked.v
      tick == NackTick(v.seq, v.nack, MissingOf(v), v.asm.recent, v.awaiting, Data)
  IN [asked EXCEPT !.v.seq = tick.seq, !.v.nack = tick.nack, !.up = @ \cup tick.asks]

\* queue_reassembled_frame: what finds no slot in the batch is dropped
Queued(v, frames) == SubSeq(v.queue \o frames, 1, IF Len(v.queue \o frames) > BatchSize
                                                  THEN BatchSize ELSE Len(v.queue \o frames))
QueueFrame(v, f) ==
  LET pushed == PushReassembled(v.seq, f, MissingOf(v))
  IN [v EXCEPT !.seq = pushed.seq, !.queue = Queued(v, pushed.frames)]

\* a data fragment, received or restored
QueueData(v, d, shard) ==
  LET pushed == Push(v.asm, d, shard)
      w == [v EXCEPT !.asm = pushed.asm]
  IN IF pushed.frames = <<>> THEN w ELSE QueueFrame(w, pushed.frames[1])
QueueAll(v, d, shards) == FoldLeft(LAMBDA w, shard : QueueData(w, d, shard), v, AtIndexes([i \in Data |-> i], shards))

\* queue_parity_packet, queue_fragment_packet
QueueMedia(v, d) ==
  LET grouped == IF K = 1 THEN [asm |-> v.asm, restored |-> {}] ELSE InGroup(v.asm, d)
      restored == QueueAll([v EXCEPT !.asm = grouped.asm], d, grouped.restored)
  IN IF d.shard = ParityShard THEN restored ELSE QueueData(restored, d, d.shard)

\* handle_codec_config_packet: the keyframe that follows is waited for
Configure(s) == [s EXCEPT !.v.dec = TRUE, !.v.awaiting = TRUE]

Accept(s, d) ==
  CASE d.kind = "moved" -> RequestIdr([ResetDecoder(Clear(s)) EXCEPT !.v.gate = 0, !.v.incident = {}])
    [] d.kind = "challenge" -> [s EXCEPT !.v.gate = Cooldown, !.up = @ \cup {Idr}]
    [] OTHER -> LET graced == [s EXCEPT !.v.seq = ConfigureGrace(@, ~s.v.awaiting)]
                IN IF d.kind = "config" THEN Configure(graced)
                   ELSE [graced EXCEPT !.v = QueueMedia(@, d)]

\* one iteration up to its presentation; without a datagram, the overdue access units
Iterate(n) ==
  /\ Between /\ ~viewer.hidden /\ n <= Len(air)
  /\ LET top == Top(St)
         drained == DrainExpired(top.v.seq)
         received == FoldLeft(LAMBDA s, d : Accept(s, d), top, SubSeq(air, 1, n))
     IN Becomes(IF n > 0 THEN received
                ELSE [top EXCEPT !.v.seq = drained.seq, !.v.queue = Queued(top.v, drained.frames)])
  /\ air' = SubSeq(air, n + 1, Len(air))
  /\ Calm /\ UNCHANGED host
\* the decoder's output cannot be polled
PollFails ==
  /\ Between /\ ~viewer.hidden /\ viewer.dec
  /\ Becomes(Resync(St)) /\ Upset /\ UNCHANGED <<host, air>>

\* classify_frame_gap: something is missing in front of the access unit
Gap(v, f) == \E l \in v.last : f.id # After(l)

\* RenderHealthState::observe, for a batch that completed something: the first incident of a
\* picture asks for a keyframe and then builds a new decoder
Observe(s) ==
  LET i == IF s.v.incident = {} THEN [age |-> 0, idr |-> FALSE, rebuilt |-> FALSE]
           ELSE CHOOSE x \in s.v.incident : TRUE
  IN IF s.v.shown THEN [s EXCEPT !.v.incident = {}]
     ELSE IF i.age >= RebuildAfter /\ ~i.rebuilt
          THEN RequestIdr([ResetDecoder(Clear(s)) EXCEPT !.v.incident = {[i EXCEPT !.rebuilt = TRUE]}])
     ELSE IF i.age >= Cooldown /\ ~i.idr
          THEN RequestIdr([s EXCEPT !.v.incident = {[i EXCEPT !.idr = TRUE]}])
     ELSE [s EXCEPT !.v.incident = {i}]
\* the batch ends with its last access unit
Ended(s) ==
  IF s.v.queue # <<>> THEN s ELSE [Observe(s) EXCEPT !.v.shown = FALSE]

\* up to the decoder: the gap is classified, and a missing delta begins a recovery
Classified(s, f) ==
  LET met == [s EXCEPT !.v.queue = Tail(@), !.v.last = {f.id}]
  IN IF ~Gap(s.v, f) THEN met
     ELSE IF f.key THEN [met EXCEPT !.v.awaiting = FALSE]
     ELSE IF s.v.awaiting THEN met
     ELSE RequestIdr([met EXCEPT !.v.awaiting = TRUE])
\* slip: a recovery under way is over with any access unit that follows the one before it
FeedsSuccessors(s, f) == s.v.dec /\ (f.key \/ ~Gap(s.v, f))
\* should_feed_frame, and no delta while a keyframe is awaited
Feeds(s, f) == s.v.dec /\ (f.key \/ (~Gap(s.v, f) /\ ~s.v.awaiting))

\* present_completed_frames, one access unit
Present(outcome) ==
  LET f == viewer.queue[1]
      s == Classified(St, f)
  IN /\ viewer.queue # <<>>
     /\ Becomes(Ended(
          IF ~Feeds(St, f) THEN s
          ELSE CASE outcome = "queued" -> [s EXCEPT !.v.awaiting = FALSE, !.v.shown = TRUE, !.fed = {f}]
            [] outcome = "unavailable" -> RequestIdr([Resync(s) EXCEPT !.v.last = {}])
            [] outcome = "fatal" -> RequestIdr(ResetDecoder(s))))
     /\ UNCHANGED <<host, air>>
PresentQueued == Calm /\ Present("queued")
FeedFails == Upset /\ viewer.queue # <<>> /\ Feeds(St, viewer.queue[1])
                  /\ \E outcome \in {"unavailable", "fatal"} : Present(outcome)

\* the Surface goes: the decoder lets go of it, and the datagrams that come are thrown away
Suspend ==
  /\ Between /\ ~viewer.hidden
  /\ Becomes([ResetDecoder(Clear(St)) EXCEPT !.v.hidden = TRUE, !.v.incident = {}])
  /\ Upset /\ UNCHANGED <<host, air>>
DiscardHidden ==
  /\ viewer.hidden /\ air # <<>> /\ air' = <<>>
  /\ Calm /\ UNCHANGED <<host, up, viewer, fed>>
Resume ==
  /\ viewer.hidden
  /\ Becomes([St EXCEPT !.v.hidden = FALSE, !.v.gate = Cooldown, !.up = @ \cup {Idr}])
  /\ Calm /\ UNCHANGED <<host, air>>

Less(n) == IF n = 0 THEN 0 ELSE n - 1
Sooner(deadlines) == {[d EXCEPT !.left = Less(@)] : d \in deadlines}
\* what is pending has waited, and the sequencer's deadlines are nearer
Waited(s) ==
  [s EXCEPT !.pending = [i \in DOMAIN @ |-> [@[i] EXCEPT !.waited = TRUE]],
            !.hold = {Less(h) : h \in @}, !.reserved = Sooner(@)]
Tick ==
  /\ Between
  /\ viewer' = [viewer EXCEPT
       !.gate = Less(@),
       !.incident = {[i EXCEPT !.age = IF @ < RebuildAfter THEN @ + 1 ELSE @] : i \in @},
       !.seq = Waited(@),
       !.nack.armed = Sooner(@)]
  /\ Calm /\ UNCHANGED <<host, air, up, fed>>

Receive == \E n \in 1 .. BatchSize : Iterate(n)
Timeout == Iterate(0)
Upsets == SendUpset \/ Reorder \/ PollFails \/ FeedFails \/ Suspend
          \/ (\E m \in up : LoseUp(m)) \/ (\E kind \in {"moved", "challenge"} : Rebind(kind))

Next == Send \/ Receive \/ Timeout \/ PresentQueued \/ DiscardHidden \/ Resume \/ Tick
        \/ Upsets \/ (\E m \in up : HandleUp(m))

Spec == Init /\ [][Next]_vars
\* What has arrived is taken by an iteration.
Taken == Between /\ ~viewer.hidden /\ \E n \in 1 .. BatchSize : n <= Len(air) /\ air' = SubSeq(air, n + 1, Len(air))
\* The host, the clock and the worker go on; a presentation interrupts what waits for its end.
FairSpec == /\ Spec
            /\ SF_vars(Send) /\ SF_air(Taken) /\ WF_vars(PresentQueued)
            /\ WF_vars(Resume) /\ SF_vars(Tick)
            /\ SF_vars(Idr \in up /\ HandleUp(Idr))

----------------------------------------------------------------------------
(* Properties. *)

ReceiverTypeOK ==
  /\ host.next \in Numbers /\ host.asked \in BOOLEAN /\ Len(host.ring) <= RingSize
  /\ upsets \in 0 .. MaxUpsets
  /\ \A m \in up : m = Idr \/ (m.kind = "nack" /\ m.id \in Numbers /\ m.shards \subseteq Data /\ m.shards # {})
  /\ Len(viewer.asm.partial) <= MaxInFlight /\ Len(viewer.asm.groups) <= MaxGroups
  /\ Len(viewer.asm.recent) <= MaxRecent /\ Len(viewer.asm.done) <= MaxDone
  /\ \A p \in ToSet(viewer.asm.partial) : p.id \in Numbers /\ p.got \subseteq Data /\ p.got # Data
  /\ viewer.last \subseteq Numbers /\ viewer.seq.last \subseteq Numbers
  /\ viewer.gate \in 0 .. Cooldown /\ {viewer.awaiting, viewer.dec, viewer.hidden} \subseteq BOOLEAN
  /\ Len(viewer.queue) <= BatchSize /\ Cardinality(fed) <= 1

\* What completed early waits in a short queue: a few access units, twice as many while a
\* retransmission is held for, and never a playback queue.
PendingIsBounded ==
  /\ Len(viewer.seq.pending) <= IF viewer.seq.last = {} THEN MaxReorder ELSE MaxHeld - 1
  /\ Cardinality(Pending(viewer.seq)) = Len(viewer.seq.pending)

Left(list, hole) == {r.left : r \in {x \in list : x.id = hole}}
WaitsNoLonger(lefts) == \A h \in viewer'.seq.hold : h > 0 => \E l \in lefts : h <= l
StillBlocked == BlockedHole(viewer.seq) \cap BlockedHole(viewer'.seq)

\* "Keep an expired reservation for this hole so later arrivals cannot renew it"
\* (media_datagram.rs:546): as long as the sequencer is blocked on the same number, neither a
\* request nor a later arrival makes the time reserved for it longer than it was.
ReservedOnce ==
  [][\A hole \in StillBlocked : Left(viewer.seq.reserved, hole) # {} =>
       WaitsNoLonger(Left(viewer.nack.armed \cup viewer.seq.reserved, hole))]_vars

\* The decoder is fed a keyframe, or the successor of what it was fed last.
Feed == INSTANCE FrameFeed
FeedSpec == Feed!Spec

Unsettled == viewer.awaiting \/ ~viewer.dec
\* Once nothing goes wrong any more, a viewer without a picture gets one.
PictureReturns == Unsettled ~> ~Unsettled
===============================================================================
