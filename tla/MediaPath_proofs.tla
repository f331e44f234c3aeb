-------------------------- MODULE MediaPath_proofs --------------------------
(*****************************************************************************)
(* Theorems about the two ends of the media path: the encoder of the host    *)
(* for any limit, queue, pack and restarts (EncoderConstants), the receiver  *)
(* of the viewer for any number of shards, window, space of numbers (two at  *)
(* least) and pacing (ReceiverConstants).                                    *)
(*                                                                           *)
(* The encoder's EncoderInv is Sound: the slots counted are those of the     *)
(* submissions not yet answered, the coalesced ones included, and what is    *)
(* queued keeps its key frame first while one is awaited.                    *)
(*                                                                           *)
(* The receiver's ReceiverInv is Link, about what is on the way, and Seen,   *)
(* about the viewer: its reassembler holds nothing complete, its sequencer   *)
(* holds different numbers and not more than the window allows, and (Chained)*)
(* a decoder that is fed deltas was fed the unit before the next one.        *)
(*                                                                           *)
(* The receiver works through a batch by folds.  FoldExists shows that the   *)
(* function a fold chooses exists, FoldStays carries a predicate along it,   *)
(* and both rest on the least number for which they would fail.              *)
(*****************************************************************************)
EXTENDS MCMediaPath, Sublists, FiniteSetTheorems, SequenceTheorems, WellFoundedInduction, TLAPS

(* How many of the indexes come up to one of them. *)
Rank(I, i) == Cardinality({j \in I : j <= i})

(* A set of indexes is finite. *)
LEMMA IndexesAreFinite ==
  ASSUME NEW n \in Nat, NEW I \in SUBSET (1 .. n)
  PROVE  IsFiniteSet(I) /\ Cardinality(I) \in Nat /\ Cardinality(I) <= n
<1>1. IsFiniteSet(1 .. n) /\ Cardinality(1 .. n) = n
      BY FS_Interval
<1> QED BY <1>1, FS_Subset, FS_CardinalityType

(* Later indexes have higher ranks, and the ranks are the numbers up to the number of indexes. *)
LEMMA RanksOfIndexes ==
  ASSUME NEW n \in Nat, NEW I \in SUBSET (1 .. n)
  PROVE  /\ \A i \in I : Rank(I, i) \in 1 .. Cardinality(I)
         /\ \A i, k \in I : i < k => Rank(I, i) < Rank(I, k)
         /\ \A m \in 1 .. Cardinality(I) : \E i \in I : Rank(I, i) = m
<1>0. \A i \in I : i \in Nat
      OBVIOUS
<1>1. IsFiniteSet(I) /\ Cardinality(I) \in Nat
      BY IndexesAreFinite
<1>2. ASSUME NEW i \in I
      PROVE  Rank(I, i) \in Nat /\ Rank(I, i) >= 1 /\ Rank(I, i) <= Cardinality(I)
  <2>1. {j \in I : j <= i} \in SUBSET I /\ i \in {j \in I : j <= i}
        OBVIOUS
  <2>2. /\ IsFiniteSet({j \in I : j <= i}) /\ Rank(I, i) \in Nat /\ Rank(I, i) <= Cardinality(I)
        BY <1>1, <2>1, FS_Subset, FS_CardinalityType DEF Rank
  <2>3. Rank(I, i) # 0
        BY <2>1, <2>2, FS_EmptySet DEF Rank
  <2> QED BY <2>2, <2>3
<1>3. ASSUME NEW i \in I, NEW k \in I, i < k
      PROVE  Rank(I, i) < Rank(I, k)
  <2> DEFINE upto(x) == {j \in I : j <= x}
  <2>1. upto(i) \in SUBSET upto(k)
    <3>1. ASSUME NEW j \in upto(i) PROVE j \in upto(k)
      <4>1. j \in Nat /\ i \in Nat /\ k \in Nat
            BY <1>0
      <4> QED BY <1>3, <4>1
    <3> QED BY <3>1
  <2>2. k \in upto(k) /\ k \notin upto(i)
        BY <1>0, <1>3
  <2>3. upto(k) \in SUBSET I
        OBVIOUS
  <2>4. Rank(I, i) = Cardinality(upto(i)) /\ Rank(I, k) = Cardinality(upto(k))
        BY DEF Rank
  <2> HIDE DEF upto
  <2>5. IsFiniteSet(upto(k))
        BY <1>1, <2>3, FS_Subset
  <2>6. Rank(I, i) <= Rank(I, k) /\ Rank(I, i) # Rank(I, k)
        BY <2>1, <2>2, <2>4, <2>5, FS_Subset
  <2>7. Rank(I, i) \in Nat /\ Rank(I, k) \in Nat
        BY <1>2
  <2> QED BY <2>6, <2>7
<1>4. \A m \in 1 .. Cardinality(I) : \E i \in I : Rank(I, i) = m
  <2> DEFINE r == [i \in I |-> Rank(I, i)]
  <2>1. \A i \in I : Rank(I, i) \in 1 .. Cardinality(I)
        BY <1>1, <1>2
  <2>2. \A i, k \in I : Rank(I, i) = Rank(I, k) => i = k
    <3> SUFFICES ASSUME NEW i \in I, NEW k \in I, Rank(I, i) = Rank(I, k), i # k PROVE FALSE
        OBVIOUS
    <3>1. i < k \/ k < i
          BY <1>0
    <3>2. Rank(I, i) < Rank(I, k) \/ Rank(I, k) < Rank(I, i)
          BY <1>3, <3>1
    <3>3. Rank(I, i) \in Nat
          BY <1>2
    <3> QED BY <3>2, <3>3
  <2>3. r \in Injection(I, 1 .. Cardinality(I))
        BY <2>1, <2>2 DEF Injection, IsInjective
  <2>4. IsFiniteSet(1 .. Cardinality(I)) /\ Cardinality(1 .. Cardinality(I)) = Cardinality(I)
        BY <1>1, FS_Interval
  <2>5. r \in Surjection(I, 1 .. Cardinality(I))
        BY <2>3, <2>4, FS_Injection
  <2> QED BY <2>5 DEF Surjection
<1> QED BY <1>1, <1>2, <1>3, <1>4

(* The elements at some indexes are a sequence of their number, in their order. *)
LEMMA PartOfSeq ==
  ASSUME NEW A, NEW q \in Seq(A), NEW I \in SUBSET (1 .. Len(q))
  PROVE  /\ AtIndexes(q, I) \in Seq(A) /\ Len(AtIndexes(q, I)) = Cardinality(I)
         /\ \A m \in 1 .. Cardinality(I) : \E i \in I : AtIndexes(q, I)[m] = q[i] /\ Rank(I, i) = m
         /\ \A i \in I : Rank(I, i) \in 1 .. Cardinality(I) /\ AtIndexes(q, I)[Rank(I, i)] = q[i]
<1>n. PICK n \in Nat : n = Len(q) /\ I \in SUBSET (1 .. n)
      OBVIOUS
<1>0. \A i \in I : i \in Nat
      OBVIOUS
<1>1. Cardinality(I) \in Nat
      BY <1>n, IndexesAreFinite
<1>2. /\ \A i \in I : Rank(I, i) \in 1 .. Cardinality(I)
      /\ \A i, k \in I : i < k => Rank(I, i) < Rank(I, k)
      /\ \A m \in 1 .. Cardinality(I) : \E i \in I : Rank(I, i) = m
      BY <1>n, RanksOfIndexes
<1> DEFINE Pick(m) == CHOOSE i \in I : Cardinality({j \in I : j <= i}) = m
<1>3. ASSUME NEW m \in 1 .. Cardinality(I) PROVE Pick(m) \in I /\ Rank(I, Pick(m)) = m
      BY <1>2 DEF Rank
<1>4. AtIndexes(q, I) = [m \in 1 .. Cardinality(I) |-> q[Pick(m)]]
      BY DEF AtIndexes
<1>5. ASSUME NEW i \in I PROVE Pick(Rank(I, i)) = i
  <2>1. Pick(Rank(I, i)) \in I /\ Rank(I, Pick(Rank(I, i))) = Rank(I, i)
        BY <1>2, <1>3
  <2> HIDE DEF Pick
  <2>2. Rank(I, i) \in Nat
        BY <1>2
  <2>3. PICK k \in I : k = Pick(Rank(I, i)) /\ Rank(I, k) = Rank(I, i)
        BY <2>1
  <2>4. k < i => Rank(I, k) < Rank(I, i)
        BY <1>2
  <2>5. i < k => Rank(I, i) < Rank(I, k)
        BY <1>2
  <2>6. k = i
        BY <1>0, <2>2, <2>3, <2>4, <2>5
  <2> QED BY <2>3, <2>6
<1> HIDE DEF Pick
<1>6. \A m \in 1 .. Cardinality(I) : q[Pick(m)] \in A
  <2>1. \A i \in I : q[i] \in A
        OBVIOUS
  <2> QED BY <1>3, <2>1
<1>7. AtIndexes(q, I) \in Seq(A) /\ Len(AtIndexes(q, I)) = Cardinality(I)
      BY <1>1, <1>4, <1>6
<1>8. \A m \in 1 .. Cardinality(I) : AtIndexes(q, I)[m] = q[Pick(m)]
      BY <1>4
<1> QED BY <1>2, <1>3, <1>5, <1>7, <1>8

(* What the macOS host keeps. *)
EncoderRecords ==
  [running : BOOLEAN, source : {"live", "quiet", "restarted"}, captureRestarts : 0 .. MaxCaptureRestarts,
   pending : BOOLEAN, carrier : BOOLEAN, scheduled : BOOLEAN, inFlight : 0 .. ConfiguredLimit,
   limit : {1, ConfiguredLimit}, gate : {"open", "closed"}, session : BOOLEAN, mode : H!Modes,
   confirmed : BOOLEAN, force : BOOLEAN, keyPending : BOOLEAN, cool : 0 .. FreshCooldown,
   retry : BOOLEAN, ledger : Seq(H!Submission), jobs : Seq(H!Job), health : BOOLEAN,
   newCapture : BOOLEAN, freshOut : BOOLEAN, restarts : 0 .. MaxEncoderRestarts, cooling : BOOLEAN,
   timers : 0 .. 2, failed : Nat, queue : Seq(H!Frame), awaiting : BOOLEAN, keyInFlight : BOOLEAN,
   writing : Seq(H!Frame)]

EncoderConstants ==
  /\ ConfiguredLimit \in Nat \ {0} /\ MaxPending \in Nat \ {0} /\ PackLimit \in Nat
  /\ FreshCooldown \in {1, 2} /\ MaxCaptureRestarts \in Nat /\ MaxEncoderRestarts \in Nat
  /\ MaxFaults \in Nat

(* Between two locks a handler may hold slots that no submission of the ledger has: extra.     *)
Sound(h, extra) ==
  /\ h \in EncoderRecords
  /\ Len(h.jobs) <= PackLimit /\ Len(h.queue) <= MaxPending
  /\ h.inFlight = Len(h.ledger) + extra
  /\ h.awaiting => \A i \in 1 .. Len(h.queue) : h.queue[i].idr
  /\ h.retry => h.timers > 0

(* A capture that waits is scheduled. *)
LEMMA ScheduledSound ==
  ASSUME EncoderConstants, NEW x \in Nat, NEW h, Sound(h, x)
  PROVE  Sound(H!Scheduled(h), x) /\ Sound(H!SchedulePending(h), x)
<1>1. Sound(H!Scheduled(h), x)
      BY DEF Sound, EncoderRecords, H!Scheduled
<1> QED BY <1>1 DEF H!SchedulePending

(* Slots given back are no longer taken. *)
LEMMA CompleteSlotsSound ==
  ASSUME EncoderConstants, NEW x \in Nat, NEW n \in Nat, NEW h, Sound(h, x + n)
  PROVE  Sound(H!CompleteSlots(h, n), x)
<1> DEFINE freed == [h EXCEPT !.inFlight = IF @ > n THEN @ - n ELSE 0]
<1>0. h \in EncoderRecords /\ h.ledger \in Seq(H!Submission) /\ Len(h.ledger) \in Nat
      BY DEF Sound, EncoderRecords
<1>1. h.inFlight = Len(h.ledger) + x + n /\ h.inFlight \in 0 .. ConfiguredLimit
      BY <1>0 DEF Sound, EncoderRecords
<1>2. PICK left \in 0 .. ConfiguredLimit : left = (IF h.inFlight > n THEN h.inFlight - n ELSE 0)
      BY <1>1 DEF EncoderConstants
<1>3. left = Len(h.ledger) + x
      BY <1>0, <1>1, <1>2
<1>4. freed = [h EXCEPT !.inFlight = left]
      BY <1>2
<1> HIDE DEF freed
<1>5. Sound(freed, x)
      BY <1>0, <1>3, <1>4 DEF Sound, EncoderRecords
<1>6. H!CompleteSlots(h, n) = freed \/ H!CompleteSlots(h, n) = H!Scheduled(freed)
      BY DEF H!CompleteSlots, freed
<1> QED BY <1>5, <1>6, ScheduledSound

(* The limit of the encodes in flight does not count them. *)
LEMMA SetLimitSound ==
  ASSUME EncoderConstants, NEW x \in Nat, NEW h, Sound(h, x), NEW limit \in {1, ConfiguredLimit}
  PROVE  Sound(H!SetLimit(h, limit), x)
<1>1. Sound([h EXCEPT !.limit = limit], x)
      BY DEF Sound, EncoderRecords
<1> QED BY <1>1, ScheduledSound DEF H!SetLimit

(* Opening the gate, clearing the queue and asking for a keyframe count no slot. *)
LEMMA GateAndQueueSound ==
  ASSUME EncoderConstants, NEW x \in Nat, NEW h, Sound(h, x)
  PROVE  /\ Sound(H!ClearGate(h), x)
         /\ Sound(H!QueueCleared(h), x)
         /\ \A b \in BOOLEAN : Sound(H!RequestKeyframe(h, b), x)
<1>1. Sound(H!ClearGate(h), x)
      BY DEF Sound, EncoderRecords, H!ClearGate
<1>2. Sound(H!QueueCleared(h), x)
  <2>1. <<>> \in Seq(H!Frame) /\ Len(<<>>) = 0 /\ Len(<<>>) <= MaxPending
        BY DEF EncoderConstants
  <2>2. [h EXCEPT !.queue = <<>>] \in EncoderRecords
        BY <2>1 DEF Sound, EncoderRecords
  <2>3. [h EXCEPT !.queue = <<>>].queue = <<>>
        BY DEF Sound, EncoderRecords
  <2>4. \A f \in {"jobs", "inFlight", "ledger", "awaiting", "retry", "timers"} :
          [h EXCEPT !.queue = <<>>][f] = h[f]
        BY DEF Sound, EncoderRecords
  <2> QED BY <2>1, <2>2, <2>3, <2>4 DEF Sound, H!QueueCleared
<1>3. Sound([h EXCEPT !.cool = 0, !.keyPending = TRUE, !.force = TRUE], x)
  <2>1. 0 \in 0 .. FreshCooldown
        BY DEF EncoderConstants
  <2> QED BY <2>1 DEF Sound, EncoderRecords
<1>4. ASSUME NEW b \in BOOLEAN PROVE Sound(H!RequestKeyframe(h, b), x)
      BY <1>3 DEF H!RequestKeyframe
<1> QED BY <1>1, <1>2, <1>4

(* A set of indexes that is not empty has a first and a last one. *)
LEMMA FirstAndLast ==
  ASSUME NEW n \in Nat, NEW I \in SUBSET (1 .. n), I # {}
  PROVE  /\ \E x \in I : \A y \in I : x <= y
         /\ \E x \in I : \A y \in I : x >= y
<1>0. \A i \in I : i \in Nat
      OBVIOUS
<1>1. IsFiniteSet(I) /\ Cardinality(I) \in Nat
      BY IndexesAreFinite
<1>2. Cardinality(I) # 0
      BY <1>1, FS_EmptySet
<1>3. /\ \A i \in I : Rank(I, i) \in 1 .. Cardinality(I)
      /\ \A i, k \in I : i < k => Rank(I, i) < Rank(I, k)
      /\ \A m \in 1 .. Cardinality(I) : \E i \in I : Rank(I, i) = m
      BY RanksOfIndexes
<1>4. PICK x \in I : Rank(I, x) = 1
      BY <1>1, <1>2, <1>3
<1>5. PICK z \in I : Rank(I, z) = Cardinality(I)
      BY <1>1, <1>2, <1>3
<1>6. ASSUME NEW y \in I PROVE x <= y /\ z >= y
  <2>1. Rank(I, y) \in 1 .. Cardinality(I)
        BY <1>3
  <2>2. ~(y < x)
        BY <1>1, <1>3, <1>4, <2>1
  <2>3. ~(z < y)
        BY <1>1, <1>3, <1>5, <2>1
  <2> QED BY <1>0, <2>2, <2>3
<1> QED BY <1>6

(* Seeding the carrier of a keyframe and beginning a recovery count no slot. *)
LEMMA RecoverySound ==
  ASSUME EncoderConstants, NEW x \in Nat, NEW h, Sound(h, x)
  PROVE  Sound(H!SeedCarrier(h), x) /\ Sound(H!BeginNetworkRecovery(h), x)
<1>1. ASSUME NEW g, Sound(g, x) PROVE Sound(H!SeedCarrier(g), x)
  <2>1. Sound([g EXCEPT !.pending = TRUE], x)
        BY <1>1 DEF Sound, EncoderRecords
  <2>2. Sound(H!SchedulePending([g EXCEPT !.pending = TRUE]), x)
        BY <2>1, ScheduledSound
  <2> QED BY <1>1, <2>2 DEF H!SeedCarrier
<1> DEFINE begun == IF H!ShouldStartRecovery(h) THEN [H!QueueCleared(h) EXCEPT !.awaiting = TRUE] ELSE h
<1>2. Sound(begun, x)
  <2>1. PICK c : c = H!QueueCleared(h)
        OBVIOUS
  <2>2. Sound(c, x)
        BY <2>1, GateAndQueueSound
  <2>3. c.queue = <<>>
        BY <2>1 DEF H!QueueCleared, Sound, EncoderRecords
  <2>4. [c EXCEPT !.awaiting = TRUE] \in EncoderRecords
        BY <2>2 DEF Sound, EncoderRecords
  <2>5. [c EXCEPT !.awaiting = TRUE].queue = <<>>
        BY <2>2, <2>3 DEF Sound, EncoderRecords
  <2>6. \A f \in {"jobs", "inFlight", "ledger", "retry", "timers"} : [c EXCEPT !.awaiting = TRUE][f] = c[f]
        BY <2>2 DEF Sound, EncoderRecords
  <2>7. Len(<<>>) = 0 /\ 0 <= MaxPending
        BY DEF EncoderConstants
  <2>8. Sound([c EXCEPT !.awaiting = TRUE], x)
        BY <2>2, <2>4, <2>5, <2>6, <2>7 DEF Sound
  <2> QED BY <2>1, <2>8
<1>3. H!BeginNetworkRecovery(h) = h
        \/ H!BeginNetworkRecovery(h) = H!SeedCarrier(H!RequestKeyframe(begun, FALSE))
      BY DEF H!BeginNetworkRecovery
<1> HIDE DEF begun
<1>4. Sound(H!SeedCarrier(H!RequestKeyframe(begun, FALSE)), x)
  <2>1. Sound(H!RequestKeyframe(begun, FALSE), x)
        BY <1>2, GateAndQueueSound
  <2> QED BY <1>1, <2>1
<1> QED BY <1>1, <1>3, <1>4

(* A delayed retry is started with a timer of its own. *)
LEMMA ScheduleRetrySound ==
  ASSUME EncoderConstants, NEW x \in Nat, NEW h, Sound(h, x)
  PROVE  Sound(H!ScheduleRetry(h), x)
<1>1. PICK c : c = H!QueueCleared(h)
      OBVIOUS
<1>2. Sound(c, x)
      BY <1>1, GateAndQueueSound
<1>3. c.queue = <<>>
      BY <1>1 DEF H!QueueCleared, Sound, EncoderRecords
<1>4. PICK n \in 0 .. 2 : n = (IF c.timers = 2 THEN 2 ELSE c.timers + 1) /\ n > 0
  <2>1. c.timers \in 0 .. 2
        BY <1>2 DEF Sound, EncoderRecords
  <2>2. PICK k \in 0 .. 2 : k = c.timers
        BY <2>1
  <2>3. (IF k = 2 THEN 2 ELSE k + 1) \in 0 .. 2 /\ (IF k = 2 THEN 2 ELSE k + 1) > 0
        OBVIOUS
  <2> QED BY <2>2, <2>3
<1> DEFINE g == [c EXCEPT !.retry = TRUE, !.awaiting = TRUE, !.timers = n]
<1>5. g \in EncoderRecords /\ g.queue = <<>> /\ g.timers = n
      /\ \A f \in {"jobs", "inFlight", "ledger"} : g[f] = c[f]
      BY <1>2, <1>3 DEF Sound, EncoderRecords
<1>6. Len(<<>>) = 0 /\ 0 <= MaxPending /\ n > 0
      BY <1>4 DEF EncoderConstants
<1>7. H!ScheduleRetry(h) = h \/ H!ScheduleRetry(h) = H!ClearGate(g)
      BY <1>1, <1>4 DEF H!ScheduleRetry
<1> HIDE DEF g
<1>8. Sound(g, x)
      BY <1>2, <1>5, <1>6 DEF Sound
<1> QED BY <1>7, <1>8, GateAndQueueSound

(* A queue that is dropped keeps a keyframe or nothing. *)
LEMMA RetainedIsKeyframe ==
  ASSUME EncoderConstants, NEW x \in Nat, NEW h, Sound(h, x)
  PROVE  /\ H!Retained(h) \in Seq(H!Frame) /\ Len(H!Retained(h)) <= MaxPending
         /\ \A i \in 1 .. Len(H!Retained(h)) : H!Retained(h)[i].idr
<1>0. h.queue \in Seq(H!Frame) /\ Len(h.queue) \in Nat /\ DOMAIN h.queue = 1 .. Len(h.queue)
      BY DEF Sound, EncoderRecords
<1>1. CASE H!KeyQueued(h)
  <2> DEFINE I == {i \in 1 .. Len(h.queue) : h.queue[i].idr}
  <2>1. I # {} /\ I \in SUBSET (1 .. Len(h.queue))
        BY <1>0, <1>1 DEF H!KeyQueued
  <2>2. H!Max(I) \in I
    <3>1. \E z \in I : \A y \in I : z >= y
          BY <1>0, <2>1, FirstAndLast
    <3> QED BY <3>1 DEF H!Max
  <2>3. H!Retained(h) = <<h.queue[H!Max(I)]>>
        BY <1>1, <2>1 DEF H!Retained, H!SelectLastInSeq
  <2>4. PICK f \in H!Frame : f = h.queue[H!Max(I)] /\ f.idr
    <3>1. PICK i \in 1 .. Len(h.queue) : i = H!Max(I) /\ h.queue[i].idr
          BY <2>2
    <3>2. h.queue[i] \in H!Frame
          BY <1>0
    <3> QED BY <3>1, <3>2
  <2> HIDE DEF I
  <2>5. <<f>> \in Seq(H!Frame) /\ Len(<<f>>) = 1 /\ <<f>>[1] = f
        OBVIOUS
  <2>6. 1 <= MaxPending /\ \A i \in 1 .. 1 : i = 1
        BY DEF EncoderConstants
  <2> QED BY <2>3, <2>4, <2>5, <2>6
<1>2. CASE ~H!KeyQueued(h)
  <2>1. H!Retained(h) = <<>>
        BY <1>2 DEF H!Retained
  <2>2. <<>> \in Seq(H!Frame) /\ Len(<<>>) = 0 /\ 0 <= MaxPending
        BY DEF EncoderConstants
  <2> QED BY <2>1, <2>2
<1> QED BY <1>1, <1>2

(* A queue of keyframes only may be put for the one there is. *)
LEMMA KeyframeQueueSound ==
  ASSUME EncoderConstants, NEW x \in Nat, NEW h, Sound(h, x), NEW q \in Seq(H!Frame),
         Len(q) <= MaxPending, \A i \in 1 .. Len(q) : q[i].idr, NEW b \in BOOLEAN
  PROVE  Sound([h EXCEPT !.queue = q, !.awaiting = b], x)
<1> DEFINE g == [h EXCEPT !.queue = q, !.awaiting = b]
<1>1. g \in EncoderRecords /\ g.queue = q
      /\ \A f \in {"jobs", "inFlight", "ledger", "retry", "timers"} : g[f] = h[f]
      BY DEF Sound, EncoderRecords
<1> HIDE DEF g
<1>2. Sound(g, x)
      BY <1>1 DEF Sound
<1> QED BY <1>2 DEF g

(* A frame joins the queue, or a chain without its keyframe is dropped and asked for anew. *)
LEMMA EnqueuedSound ==
  ASSUME EncoderConstants, NEW x \in Nat, NEW h, Sound(h, x), NEW idr \in BOOLEAN, NEW rec \in BOOLEAN
  PROVE  Sound(H!Enqueued(h, idr, rec), x)
<1> DEFINE frame == [idr |-> idr, rec |-> rec]
<1>0. /\ h.queue \in Seq(H!Frame) /\ Len(h.queue) \in Nat /\ Len(h.queue) <= MaxPending
      /\ h.awaiting \in BOOLEAN
      BY DEF Sound, EncoderRecords
<1>1. frame \in H!Frame /\ frame.idr = idr
      BY DEF H!Frame
<1>2. CASE idr
  <2>1. H!Enqueued(h, idr, rec) = [h EXCEPT !.queue = <<frame>>, !.awaiting = @ \/ rec]
        BY <1>2 DEF H!Enqueued
  <2> HIDE DEF frame
  <2>2. <<frame>> \in Seq(H!Frame) /\ Len(<<frame>>) = 1 /\ <<frame>>[1] = frame
        BY <1>1
  <2>3. 1 <= MaxPending /\ \A i \in 1 .. 1 : i = 1
        BY DEF EncoderConstants
  <2>4. PICK b \in BOOLEAN : b = (h.awaiting \/ rec)
        BY <1>0
  <2>5. Sound([h EXCEPT !.queue = <<frame>>, !.awaiting = b], x)
        BY <1>1, <1>2, <2>2, <2>3, KeyframeQueueSound
  <2> QED BY <2>1, <2>4, <2>5
<1>3. CASE ~idr /\ h.awaiting
  <2>1. H!Enqueued(h, idr, rec) = H!RequestKeyframe(h, FALSE)
        BY <1>3 DEF H!Enqueued
  <2> QED BY <2>1, GateAndQueueSound
<1>4. CASE ~idr /\ ~h.awaiting /\ Len(h.queue) < MaxPending
  <2>1. H!Enqueued(h, idr, rec) = [h EXCEPT !.queue = Append(@, frame)]
        BY <1>4 DEF H!Enqueued
  <2> HIDE DEF frame
  <2>2. PICK q \in Seq(H!Frame) : q = Append(h.queue, frame) /\ Len(q) = Len(h.queue) + 1
    <3>1. Append(h.queue, frame) \in Seq(H!Frame)
          BY <1>0, <1>1
    <3>2. Len(Append(h.queue, frame)) = Len(h.queue) + 1
          BY <1>0, <1>1
    <3> QED BY <3>1, <3>2
  <2> DEFINE g == [h EXCEPT !.queue = q]
  <2>3. g \in EncoderRecords /\ g.queue = q
        /\ \A f \in {"jobs", "inFlight", "ledger", "retry", "timers", "awaiting"} : g[f] = h[f]
        BY DEF Sound, EncoderRecords
  <2> HIDE DEF g
  <2>4. Len(q) <= MaxPending
        BY <1>0, <1>4, <2>2 DEF EncoderConstants
  <2>5. Sound(g, x)
        BY <1>4, <2>3, <2>4 DEF Sound
  <2> QED BY <2>1, <2>2, <2>5 DEF g
<1>5. CASE ~idr /\ ~h.awaiting /\ ~(Len(h.queue) < MaxPending)
  <2> DEFINE dropped == [h EXCEPT !.queue = H!Retained(h)]
  <2>1. H!Enqueued(h, idr, rec) = IF H!KeyQueued(h) \/ h.keyInFlight THEN dropped
                                  ELSE H!RequestKeyframe([dropped EXCEPT !.awaiting = TRUE], FALSE)
        BY <1>5 DEF H!Enqueued
  <2>2. PICK q : q = H!Retained(h)
        OBVIOUS
  <2>3. q \in Seq(H!Frame) /\ Len(q) <= MaxPending /\ \A i \in 1 .. Len(q) : q[i].idr
        BY <2>2, RetainedIsKeyframe
  <2>4. Sound([h EXCEPT !.queue = q, !.awaiting = FALSE], x) /\ Sound([h EXCEPT !.queue = q, !.awaiting = TRUE], x)
        BY <2>3, KeyframeQueueSound
  <2>5. dropped = [h EXCEPT !.queue = q, !.awaiting = FALSE]
        BY <1>5, <2>2, <1>0 DEF Sound, EncoderRecords
  <2>6. [dropped EXCEPT !.awaiting = TRUE] = [h EXCEPT !.queue = q, !.awaiting = TRUE]
        BY <2>2 DEF Sound, EncoderRecords
  <2> HIDE DEF dropped
  <2>7. Sound(H!RequestKeyframe([dropped EXCEPT !.awaiting = TRUE], FALSE), x)
        BY <2>4, <2>6, GateAndQueueSound
  <2> QED BY <2>1, <2>4, <2>5, <2>7
<1> QED BY <1>2, <1>3, <1>4, <1>5

(* So it is with a queue whose oldest frame is too old. *)
LEMMA EnqueueFrameSound ==
  ASSUME EncoderConstants, NEW x \in Nat, NEW h, Sound(h, x), NEW idr \in BOOLEAN, NEW rec \in BOOLEAN,
         NEW expired
  PROVE  Sound(H!EnqueueFrame(h, idr, rec, expired), x)
<1> DEFINE kept == IF expired /\ h.queue # <<>> THEN H!Expire(h) ELSE h
           put == H!Enqueued(kept, idr, rec)
<1>1. Sound(H!Expire(h), x)
  <2>1. PICK q : q = H!Retained(h)
        OBVIOUS
  <2>2. q \in Seq(H!Frame) /\ Len(q) <= MaxPending /\ \A i \in 1 .. Len(q) : q[i].idr
        BY <2>1, RetainedIsKeyframe
  <2>3. h.awaiting \in BOOLEAN
        BY DEF Sound, EncoderRecords
  <2>4. PICK b \in BOOLEAN : b = (h.awaiting \/ H!ShouldStartRecovery(h))
        BY <2>3 DEF H!ShouldStartRecovery
  <2>5. Sound([h EXCEPT !.queue = q, !.awaiting = b], x)
        BY <2>2, KeyframeQueueSound
  <2> QED BY <2>1, <2>4, <2>5 DEF H!Expire
<1>2. Sound(kept, x)
      BY <1>1
<1> HIDE DEF kept
<1>3. Sound(put, x)
      BY <1>2, EnqueuedSound
<1>4. H!EnqueueFrame(h, idr, rec, expired) = put
        \/ H!EnqueueFrame(h, idr, rec, expired) = H!RequestKeyframe(put, FALSE)
      BY DEF H!EnqueueFrame, kept
<1> HIDE DEF put
<1> QED BY <1>3, <1>4, GateAndQueueSound

(* A keyframe that was sent ends what was waiting for it. *)
LEMMA DidSendSound ==
  ASSUME EncoderConstants, NEW x \in Nat, NEW h, Sound(h, x)
  PROVE  Sound(H!RecoveryKeyframeDidSend(h), x)
<1> DEFINE g == [h EXCEPT !.keyPending = FALSE, !.retry = FALSE, !.force = FALSE]
<1>1. Sound(g, x)
      BY DEF Sound, EncoderRecords
<1> HIDE DEF g
<1>2. Sound(H!SchedulePending(H!ClearGate(g)), x)
      BY <1>1, GateAndQueueSound, ScheduledSound
<1> QED BY <1>2 DEF H!RecoveryKeyframeDidSend, g

(* The end of a generation marks its submissions and jobs, and forgets none. *)
LEMMA NewGenerationSound ==
  ASSUME EncoderConstants, NEW x \in Nat, NEW h, Sound(h, x), NEW b \in BOOLEAN
  PROVE  Sound([H!NewGeneration(h) EXCEPT !.session = b], x)
<1> DEFINE old == [i \in DOMAIN h.ledger |-> [h.ledger[i] EXCEPT !.cur = FALSE]]
           late == [i \in DOMAIN h.jobs |-> [h.jobs[i] EXCEPT !.cur = FALSE]]
<1>0. /\ h.ledger \in Seq(H!Submission) /\ Len(h.ledger) \in Nat /\ DOMAIN h.ledger = 1 .. Len(h.ledger)
      /\ h.jobs \in Seq(H!Job) /\ Len(h.jobs) \in Nat /\ DOMAIN h.jobs = 1 .. Len(h.jobs)
      BY DEF Sound, EncoderRecords
<1>1. old \in Seq(H!Submission) /\ Len(old) = Len(h.ledger)
  <2>1. ASSUME NEW i \in 1 .. Len(h.ledger) PROVE [h.ledger[i] EXCEPT !.cur = FALSE] \in H!Submission
    <3>1. PICK e \in H!Submission : e = h.ledger[i]
          BY <1>0
    <3>2. [e EXCEPT !.cur = FALSE] \in H!Submission
          BY DEF H!Submission
    <3> QED BY <3>1, <3>2
  <2>2. old = [i \in 1 .. Len(h.ledger) |-> [h.ledger[i] EXCEPT !.cur = FALSE]]
        BY <1>0
  <2> QED BY <1>0, <2>1, <2>2
<1>2. late \in Seq(H!Job) /\ Len(late) = Len(h.jobs)
  <2>1. ASSUME NEW i \in 1 .. Len(h.jobs) PROVE [h.jobs[i] EXCEPT !.cur = FALSE] \in H!Job
    <3>1. PICK e \in H!Job : e = h.jobs[i]
          BY <1>0
    <3>2. [e EXCEPT !.cur = FALSE] \in H!Job
          BY DEF H!Job
    <3> QED BY <3>1, <3>2
  <2>2. late = [i \in 1 .. Len(h.jobs) |-> [h.jobs[i] EXCEPT !.cur = FALSE]]
        BY <1>0
  <2> QED BY <1>0, <2>1, <2>2
<1>3. PICK q \in Seq(H!Submission), j \in Seq(H!Job) :
        q = old /\ j = late /\ Len(q) = Len(h.ledger) /\ Len(j) = Len(h.jobs)
      BY <1>1, <1>2
<1> DEFINE g == [h EXCEPT !.ledger = q, !.jobs = j, !.confirmed = FALSE, !.retry = FALSE,
                          !.timers = 0, !.failed = 0]
<1>4. H!NewGeneration(h) = g
      BY <1>3 DEF H!NewGeneration
<1> HIDE DEF old, late
<1> DEFINE k == [g EXCEPT !.session = b]
<1>5. k \in EncoderRecords
  <2>1. g \in EncoderRecords
    <3>1. 0 \in 0 .. 2 /\ 0 \in Nat
          OBVIOUS
    <3> QED BY <3>1 DEF Sound, EncoderRecords
  <2> HIDE DEF g
  <2> QED BY <2>1 DEF EncoderRecords
<1>6. k.ledger = q /\ k.jobs = j /\ k.retry = FALSE
      /\ \A f \in {"inFlight", "queue", "awaiting"} : k[f] = h[f]
      BY DEF Sound, EncoderRecords
<1> HIDE DEF g
<1>7. k = [H!NewGeneration(h) EXCEPT !.session = b]
      BY <1>4
<1> HIDE DEF k
<1>8. Sound(k, x)
      BY <1>3, <1>5, <1>6 DEF Sound
<1> QED BY <1>7, <1>8

(* The submissions of the current generation leave the ledger; nothing else does. *)
LEMMA ReclaimedSound ==
  ASSUME EncoderConstants, NEW x \in Nat, NEW h, Sound(h, x)
  PROVE  /\ Len(H!Current(h)) \in Nat
         /\ Sound(H!Reclaimed(h), x + Len(H!Current(h)))
         /\ Len(H!Current(H!Reclaimed(h))) = 0
         /\ H!Current(h) \in Seq(H!Submission)
<1> DEFINE n == Len(h.ledger)
           on == {i \in 1 .. n : h.ledger[i].cur}
           off == {i \in 1 .. n : ~h.ledger[i].cur}
           q == AtIndexes(h.ledger, off)
<1>0. h.ledger \in Seq(H!Submission) /\ n \in Nat /\ \A i \in 1 .. n : h.ledger[i] \in H!Submission
      BY DEF Sound, EncoderRecords
<1>1. on \in SUBSET (1 .. n) /\ off \in SUBSET (1 .. n)
      OBVIOUS
<1>2. \A s, I : H!AtIndexes(s, I) = AtIndexes(s, I)
      BY DEF H!AtIndexes, AtIndexes, H!Cardinality, Cardinality, H!IsFiniteSet, IsFiniteSet
<1>3. H!Current(h) = AtIndexes(h.ledger, on)
      BY <1>2 DEF H!Current, H!Selected
<1>4. H!Reclaimed(h) = [h EXCEPT !.ledger = q]
      BY <1>2 DEF H!Reclaimed, H!Selected
<1>5. /\ AtIndexes(h.ledger, on) \in Seq(H!Submission) /\ Len(AtIndexes(h.ledger, on)) = Cardinality(on)
      /\ q \in Seq(H!Submission) /\ Len(q) = Cardinality(off)
      /\ \A m \in 1 .. Cardinality(off) : \E i \in off : q[m] = h.ledger[i]
  <2> HIDE DEF n, on, off, q
  <2>0. PICK l \in Seq(H!Submission) : l = h.ledger /\ n = Len(l)
        BY <1>0 DEF n
  <2>1. on \in SUBSET (1 .. Len(l)) /\ off \in SUBSET (1 .. Len(l))
        BY <1>1, <2>0
  <2>2. /\ AtIndexes(l, on) \in Seq(H!Submission) /\ Len(AtIndexes(l, on)) = Cardinality(on)
        /\ AtIndexes(l, off) \in Seq(H!Submission) /\ Len(AtIndexes(l, off)) = Cardinality(off)
        /\ \A m \in 1 .. Cardinality(off) : \E i \in off : AtIndexes(l, off)[m] = l[i]
        BY <2>1, PartOfSeq
  <2> QED BY <2>0, <2>2 DEF q
<1>6. Cardinality(on) \in Nat /\ Cardinality(off) \in Nat /\ n = Cardinality(on) + Cardinality(off)
  <2>1. on \cup off = 1 .. n /\ on \cap off = {}
        OBVIOUS
  <2> HIDE DEF n, on, off
  <2>2. IsFiniteSet(on) /\ IsFiniteSet(off) /\ Cardinality(on) \in Nat /\ Cardinality(off) \in Nat
        BY <1>0, <1>1, IndexesAreFinite
  <2>3. Cardinality(on \cup off) = Cardinality(on) + Cardinality(off) - Cardinality(on \cap off)
        BY <2>2, FS_Union
  <2>4. Cardinality(1 .. n) = n
        BY <1>0, FS_Interval
  <2>5. Cardinality(on \cap off) = 0
        BY <2>1, FS_EmptySet
  <2>6. n = Cardinality(on) + Cardinality(off) - 0
        BY <2>1, <2>3, <2>4, <2>5
  <2> QED BY <2>2, <2>6
<1>7. \A m \in 1 .. Len(q) : ~q[m].cur
      BY <1>5
<1> HIDE DEF q
<1>8. PICK g : g = [h EXCEPT !.ledger = q]
      OBVIOUS
<1>9. g \in EncoderRecords /\ g.ledger = q
      /\ \A f \in {"jobs", "inFlight", "retry", "timers", "awaiting", "queue"} : g[f] = h[f]
      BY <1>5, <1>8 DEF Sound, EncoderRecords
<1>10. h.inFlight = n + x
      BY DEF Sound
<1> HIDE DEF n, on, off
<1>11. g.inFlight = Len(g.ledger) + (x + Len(H!Current(h)))
      BY <1>3, <1>5, <1>6, <1>9, <1>10
<1>12. Sound(g, x + Len(H!Current(h)))
      BY <1>9, <1>11 DEF Sound
<1>13. Len(H!Current(g)) = 0
  <2>1. {i \in 1 .. Len(g.ledger) : g.ledger[i].cur} = {}
        BY <1>7, <1>9
  <2>2. H!Current(g) = AtIndexes(g.ledger, {})
        BY <1>2, <2>1 DEF H!Current, H!Selected
  <2>3. Len(AtIndexes(q, {})) = Cardinality({})
    <3>1. q \in Seq(H!Submission) /\ {} \in SUBSET (1 .. Len(q))
          BY <1>5
    <3> QED BY <3>1, PartOfSeq
  <2> QED BY <1>9, <2>2, <2>3, FS_EmptySet
<1> QED BY <1>3, <1>4, <1>5, <1>6, <1>8, <1>12, <1>13

(* Invalidating the encoder gives back the slot of every submission it forgets. *)
LEMMA InvalidateSound ==
  ASSUME EncoderConstants, NEW x \in Nat, NEW h, Sound(h, x)
  PROVE  Sound(H!InvalidateEncoder(h), x)
<1>1. PICK n \in Nat : n = Len(H!Current(h))
      BY ReclaimedSound
<1>2. PICK g : g = H!Reclaimed(h)
      OBVIOUS
<1>3. Sound(g, x + n)
      BY <1>1, <1>2, ReclaimedSound
<1>4. x + n \in Nat
      OBVIOUS
<1>5. Sound([H!NewGeneration(g) EXCEPT !.session = FALSE], x + n)
      BY <1>3, <1>4, NewGenerationSound
<1>6. Sound(H!CompleteSlots([H!NewGeneration(g) EXCEPT !.session = FALSE], n), x)
      BY <1>5, CompleteSlotsSound
<1> QED BY <1>1, <1>2, <1>6 DEF H!InvalidateEncoder

(* An encoder that was restarted gives back the slots of its submissions once. *)
LEMMA RestartSound ==
  ASSUME EncoderConstants, NEW x \in Nat, NEW h, Sound(h, x), h.restarts < MaxEncoderRestarts
  PROVE  Sound(H!RestartEncoder(h), x)
<1>1. PICK n \in Nat : n = Len(H!Current(h))
      BY ReclaimedSound
<1>2. PICK g : g = H!Reclaimed(h)
      OBVIOUS
<1>3. Sound(g, x + n) /\ x + n \in Nat
      BY <1>1, <1>2, ReclaimedSound
<1>4. PICK k : k = H!InvalidateEncoder(g)
      OBVIOUS
<1>5. Sound(k, x + n)
      BY <1>3, <1>4, InvalidateSound
<1>6. PICK freed : freed = H!ClearGate(H!CompleteSlots(k, n))
      OBVIOUS
<1>7. Sound(freed, x)
      BY <1>5, <1>6, CompleteSlotsSound, GateAndQueueSound
<1>8. freed.restarts = h.restarts
  <2>1. g.restarts = h.restarts /\ g \in EncoderRecords
        BY <1>2, <1>3 DEF H!Reclaimed, Sound, EncoderRecords
  <2>2. \A c, m : c \in EncoderRecords =>
          /\ H!CompleteSlots(c, m).restarts = c.restarts
          /\ H!CompleteSlots(c, m).restarts = c.restarts
        BY DEF H!CompleteSlots, H!Scheduled, EncoderRecords
  <2>3. PICK c : c = [H!NewGeneration(H!Reclaimed(g)) EXCEPT !.session = FALSE]
        OBVIOUS
  <2>4. c \in EncoderRecords
    <3>1. PICK m \in Nat : m = Len(H!Current(g))
          BY <1>3, ReclaimedSound
    <3>2. Sound(H!Reclaimed(g), (x + n) + m) /\ (x + n) + m \in Nat
          BY <1>3, <3>1, ReclaimedSound
    <3>3. Sound(c, (x + n) + m)
          BY <2>3, <3>2, NewGenerationSound
    <3> QED BY <3>3 DEF Sound
  <2>5. c.restarts = g.restarts
        BY <2>1, <2>3 DEF H!NewGeneration, H!Reclaimed, EncoderRecords
  <2>6. k.restarts = g.restarts /\ k \in EncoderRecords
        BY <1>4, <1>5, <2>2, <2>3, <2>4, <2>5 DEF H!InvalidateEncoder, Sound
  <2>7. PICK d : d = H!CompleteSlots(k, n)
        OBVIOUS
  <2>8. d.restarts = k.restarts /\ d \in EncoderRecords
        BY <1>5, <2>2, <2>6, <2>7, CompleteSlotsSound DEF Sound
  <2>9. freed.restarts = d.restarts
        BY <1>6, <2>7, <2>8 DEF H!ClearGate, EncoderRecords
  <2> QED BY <2>1, <2>6, <2>8, <2>9
<1> DEFINE again == [freed EXCEPT !.force = TRUE, !.keyPending = TRUE, !.restarts = @ + 1, !.cooling = TRUE]
<1>9. Sound(again, x)
  <2>1. h.restarts \in Nat
        BY DEF Sound, EncoderRecords
  <2>2. PICK r \in 0 .. MaxEncoderRestarts : r = freed.restarts + 1
        BY <1>8, <2>1 DEF EncoderConstants
  <2>3. again = [freed EXCEPT !.force = TRUE, !.keyPending = TRUE, !.restarts = r, !.cooling = TRUE]
        BY <2>2
  <2> HIDE DEF again
  <2> QED BY <1>7, <2>3 DEF Sound, EncoderRecords
<1>10. H!RestartEncoder(h) = H!SchedulePending(again)
      BY <1>1, <1>2, <1>4, <1>6 DEF H!RestartEncoder
<1> HIDE DEF again
<1> QED BY <1>9, <1>10, ScheduledSound

(* Setting up, failing over and stopping count no slot. *)
LEMMA LifecycleSound ==
  ASSUME EncoderConstants, NEW x \in Nat, NEW h, Sound(h, x)
  PROVE  /\ Sound(H!SetupEncoder(h), x)
         /\ Sound(H!EncoderFailed(h), x)
         /\ Sound(H!Stopped(h), x)
<1>0. h.mode \in H!Modes /\ \A b \in BOOLEAN : H!StartupLimit(h.mode, b) \in {1, ConfiguredLimit}
      BY DEF Sound, EncoderRecords, H!StartupLimit
<1>1. PICK limit \in {1, ConfiguredLimit} : limit = H!StartupLimit(h.mode, FALSE)
      BY <1>0
<1>2. Sound(H!SetupEncoder(h), x)
  <2>1. Sound([H!NewGeneration(h) EXCEPT !.session = TRUE], x)
        BY NewGenerationSound
  <2> QED BY <1>1, <2>1, SetLimitSound DEF H!SetupEncoder
<1>3. Sound(H!EncoderFailed(h), x)
  <2>1. PICK g : g = H!SetLimit(h, limit)
        OBVIOUS
  <2>2. Sound(g, x)
        BY <2>1, SetLimitSound
  <2>3. PICK c : c = [H!NewGeneration(g) EXCEPT !.session = FALSE]
        OBVIOUS
  <2>4. Sound(c, x)
        BY <2>2, <2>3, NewGenerationSound
  <2>5. PICK mode \in H!Modes : mode = (IF c.mode = "ave" THEN "staged" ELSE "next")
        BY DEF H!Modes
  <2>6. Sound([c EXCEPT !.mode = mode, !.force = FALSE, !.keyPending = FALSE], x)
        BY <2>4 DEF Sound, EncoderRecords
  <2>7. [H!NewGeneration(H!SetLimit(h, H!StartupLimit(h.mode, FALSE)))
          EXCEPT !.session = FALSE, !.mode = IF @ = "ave" THEN "staged" ELSE "next",
                 !.force = FALSE, !.keyPending = FALSE]
          = [c EXCEPT !.mode = mode, !.force = FALSE, !.keyPending = FALSE]
    <3>1. PICK e : e = H!NewGeneration(g)
          OBVIOUS
    <3>2. c = [e EXCEPT !.session = FALSE]
          BY <2>3, <3>1
    <3>3. c.mode = e.mode
      <4>1. e.mode = g.mode
            BY <2>2, <3>1 DEF H!NewGeneration, Sound, EncoderRecords
      <4>2. c.mode = g.mode
            BY <2>2, <3>1, <3>2 DEF H!NewGeneration, Sound, EncoderRecords
      <4> QED BY <4>1, <4>2
    <3>4. [e EXCEPT !.session = FALSE, !.mode = IF @ = "ave" THEN "staged" ELSE "next",
                    !.force = FALSE, !.keyPending = FALSE]
            = [c EXCEPT !.mode = mode, !.force = FALSE, !.keyPending = FALSE]
          BY <2>5, <3>2, <3>3
    <3> QED BY <1>1, <2>1, <3>1, <3>4
  <2>8. Sound(H!RequestKeyframe(h, FALSE), x)
        BY GateAndQueueSound
  <2> QED BY <2>6, <2>7, <2>8 DEF H!EncoderFailed
<1>4. Sound(H!Stopped(h), x)
  <2>1. PICK e : e = [h EXCEPT !.queue = <<>>, !.awaiting = FALSE]
        OBVIOUS
  <2>2. Sound(e, x)
    <3>0. <<>> \in Seq(H!Frame) /\ Len(<<>>) = 0
          OBVIOUS
    <3>1. PICK q \in Seq(H!Frame) : q = <<>> /\ Len(q) = 0
          BY <3>0
    <3>2. Len(q) <= MaxPending /\ \A i \in 1 .. Len(q) : q[i].idr
          BY <3>1 DEF EncoderConstants
    <3>3. Sound([h EXCEPT !.queue = q, !.awaiting = FALSE], x)
          BY <3>2, KeyframeQueueSound
    <3> QED BY <2>1, <3>1, <3>3
  <2>3. PICK g : g = [e EXCEPT !.running = FALSE, !.retry = FALSE, !.keyInFlight = FALSE,
                               !.pending = FALSE, !.carrier = FALSE, !.gate = "open"]
        OBVIOUS
  <2>4. Sound(g, x)
    <3>1. g \in EncoderRecords
      <4>1. PICK c : c = [e EXCEPT !.running = FALSE, !.retry = FALSE, !.keyInFlight = FALSE]
            OBVIOUS
      <4>0. e \in EncoderRecords
            BY <2>2 DEF Sound
      <4>5. [e EXCEPT !.running = FALSE, !.retry = FALSE, !.keyInFlight = FALSE] \in EncoderRecords
            BY ONLY <4>0 DEF EncoderRecords
      <4>2. c \in EncoderRecords
            BY <4>1, <4>5
      <4>3. [c EXCEPT !.pending = FALSE, !.carrier = FALSE, !.gate = "open"] \in EncoderRecords
            BY <4>2 DEF EncoderRecords
      <4>4. g = [c EXCEPT !.pending = FALSE, !.carrier = FALSE, !.gate = "open"]
            BY <2>3, <4>1
      <4> QED BY <4>3, <4>4
    <3>2. g.retry = FALSE /\ \A f \in {"jobs", "inFlight", "ledger", "queue", "awaiting"} : g[f] = e[f]
          BY <2>2, <2>3 DEF Sound, EncoderRecords
    <3> QED BY <2>2, <3>1, <3>2 DEF Sound
  <2>5. [h EXCEPT !.running = FALSE, !.retry = FALSE, !.queue = <<>>,
                              !.awaiting = FALSE, !.keyInFlight = FALSE, !.pending = FALSE,
                              !.carrier = FALSE, !.gate = "open"] = g
        BY <2>1, <2>3 DEF Sound, EncoderRecords
  <2>6. H!Stopped(h) = H!InvalidateEncoder(g)
        BY <2>5 DEF H!Stopped
  <2> QED BY <2>4, <2>6, InvalidateSound
<1> QED BY <1>2, <1>3, <1>4

(* Whether the oldest submission is stale is a truth value. *)
LEMMA StaleIsBoolean ==
  ASSUME EncoderConstants, NEW x \in Nat, NEW h, Sound(h, x)
  PROVE  H!OldestIsStale(h) \in BOOLEAN
<1>1. H!Current(h) \in Seq(H!Submission)
      BY ReclaimedSound
<1>2. CASE H!Current(h) # <<>>
  <2>1. Head(H!Current(h)) \in H!Submission
        BY <1>1, <1>2
  <2>2. Head(H!Current(h)).lost \in BOOLEAN
        BY <2>1 DEF H!Submission
  <2> QED BY <1>2, <2>2 DEF H!OldestIsStale
<1>3. CASE H!Current(h) = <<>>
      BY <1>3 DEF H!OldestIsStale
<1> QED BY <1>2, <1>3

(* A capture waits for its encode. *)
LEMMA CapturedSound ==
  ASSUME EncoderConstants, NEW x \in Nat, NEW h, Sound(h, x)
  PROVE  Sound(H!Captured(h), x)
<1>1. h \in EncoderRecords /\ h.health \in BOOLEAN
      BY DEF Sound, EncoderRecords
<1>2. PICK b \in BOOLEAN : b = (h.health \/ H!OldestIsStale(h))
      BY <1>1, StaleIsBoolean
<1> DEFINE c == [h EXCEPT !.pending = TRUE, !.carrier = TRUE, !.source = "live", !.newCapture = TRUE]
           g == [c EXCEPT !.health = b]
<1>3. c \in EncoderRecords
      BY ONLY <1>1 DEF EncoderRecords
<1>4. g \in EncoderRecords
  <2> HIDE DEF c
  <2> QED BY ONLY <1>3, b \in BOOLEAN DEF EncoderRecords
<1>5. \A f \in {"jobs", "inFlight", "ledger", "queue", "awaiting", "retry", "timers"} : g[f] = h[f]
      BY <1>1 DEF EncoderRecords
<1>6. H!Captured(h) = H!SchedulePending(g)
      BY <1>1, <1>2 DEF H!Captured
<1> HIDE DEF g
<1>7. Sound(g, x)
      BY <1>4, <1>5 DEF Sound
<1> QED BY <1>6, <1>7, ScheduledSound

(* A submission that is retired gives its slot back. *)
LEMMA RetireSound ==
  ASSUME EncoderConstants, NEW h, Sound(h, 0), NEW i \in 1 .. Len(h.ledger)
  PROVE  Sound(H!Retire(h, i), 0)
<1>0. h \in EncoderRecords /\ h.ledger \in Seq(H!Submission)
      BY DEF Sound, EncoderRecords
<1>1. PICK l \in Seq(H!Submission) : l = h.ledger /\ Len(l) \in Nat /\ i \in 1 .. Len(l)
      BY <1>0
<1>2. PICK q : q = H!RemoveAt(l, i)
      OBVIOUS
<1>3. q \in Seq(H!Submission) /\ Len(q) = Len(l) - 1
  <2>1. PICK a, b : a = SubSeq(l, 1, i - 1) /\ b = SubSeq(l, i + 1, Len(l))
        OBVIOUS
  <2>2. a \in Seq(H!Submission) /\ Len(a) = i - 1
    <3>1. \A k \in 1 .. i - 1 : l[k] \in H!Submission
          BY <1>1
    <3> QED BY <1>1, <2>1, <3>1, SubSeqProperties
  <2>3. b \in Seq(H!Submission) /\ Len(b) = Len(l) - i
    <3>1. i + 1 \in 1 .. Len(l) + 1 /\ Len(l) \in i .. Len(l)
          BY <1>1
    <3> QED BY <1>1, <2>1, <3>1, SubSeqProperties
  <2>4. q = a \o b
        BY <1>2, <2>1 DEF H!RemoveAt
  <2>5. Len(a \o b) = Len(a) + Len(b) /\ a \o b \in Seq(H!Submission)
        BY <2>2, <2>3
  <2> QED BY <1>1, <2>2, <2>3, <2>4, <2>5
<1>4. PICK g : g = [h EXCEPT !.ledger = q]
      OBVIOUS
<1>5. g \in EncoderRecords /\ g.ledger = q
      /\ \A f \in {"jobs", "inFlight", "queue", "awaiting", "retry", "timers"} : g[f] = h[f]
      BY <1>0, <1>3, <1>4 DEF EncoderRecords
<1>6. h.inFlight = Len(l)
      BY <1>1 DEF Sound
<1>7. g.inFlight = Len(g.ledger) + (0 + 1)
      BY <1>1, <1>3, <1>5, <1>6
<1>8. Sound(g, 0 + 1)
      BY <1>5, <1>7 DEF Sound
<1>9. Sound(H!CompleteSlots(g, 1), 0)
      BY <1>8, CompleteSlotsSound
<1> QED BY <1>1, <1>2, <1>4, <1>9 DEF H!Retire

(* An output is of a submission of the ledger. *)
LEMMA DeliveredIsKnown ==
  ASSUME EncoderConstants, Sound(host, 0), H!Delivered # 0
  PROVE  H!Delivered \in 1 .. Len(host.ledger) /\ host.ledger[H!Delivered] \in H!Submission
<1>0. host.ledger \in Seq(H!Submission) /\ Len(host.ledger) \in Nat
      BY DEF Sound, EncoderRecords
<1> DEFINE I == {i \in 1 .. Len(host.ledger) : ~host.ledger[i].lost}
<1>1. H!Delivered = IF I # {} THEN H!Min(I) ELSE 0
      BY DEF H!Delivered, H!SelectInSeq
<1>2. I # {} /\ I \in SUBSET (1 .. Len(host.ledger))
      BY <1>1
<1>3. \E z \in I : \A y \in I : z <= y
      BY <1>0, <1>2, FirstAndLast
<1>4. H!Min(I) \in I
      BY <1>3 DEF H!Min
<1> HIDE DEF I
<1>5. H!Delivered \in 1 .. Len(host.ledger)
      BY <1>1, <1>2, <1>4
<1> QED BY <1>0, <1>5

EncoderInv == Sound(host, 0) /\ waiting \in BOOLEAN /\ faults \in 0 .. MaxFaults

(* What a step puts for the host's state is sound. *)
LEMMA StepSound ==
  ASSUME EncoderConstants, EncoderInv, NEW h, Sound(h, 0), H!Becomes(h), H!Fault \/ H!NoFault
  PROVE  EncoderInv'
<1>1. host' = h /\ waiting' = waiting
      BY DEF H!Becomes
<1>2. faults' \in 0 .. MaxFaults
      BY DEF EncoderInv, H!Fault, H!NoFault, EncoderConstants
<1>3. Sound(host', 0)
      BY <1>1
<1> QED BY <1>1, <1>2, <1>3 DEF EncoderInv

(* Captures, the screen that idles, and the source that is restarted. *)
LEMMA CaptureSteps ==
  ASSUME EncoderConstants, EncoderInv,
         H!Capture \/ H!GateTimesOut \/ H!ScreenIdles \/ H!CaptureStalls
  PROVE  EncoderInv'
<1>0. Sound(host, 0) /\ host \in EncoderRecords
      BY DEF EncoderInv, Sound
<1>1. CASE H!Capture
  <2>1. H!Becomes(H!Captured(host)) /\ H!NoFault
        BY <1>1 DEF H!Capture
  <2> QED BY <1>0, <2>1, CapturedSound, StepSound
<1>2. CASE H!GateTimesOut
  <2>1. H!Becomes(H!Captured(H!ClearGate(host))) /\ H!NoFault
        BY <1>2 DEF H!GateTimesOut
  <2>2. Sound(H!Captured(H!ClearGate(host)), 0)
        BY <1>0, GateAndQueueSound, CapturedSound
  <2> QED BY <2>1, <2>2, StepSound
<1>3. CASE H!ScreenIdles
  <2>1. H!Becomes([host EXCEPT !.source = "quiet"]) /\ H!NoFault
        BY <1>3 DEF H!ScreenIdles
  <2>2. Sound([host EXCEPT !.source = "quiet"], 0)
        BY <1>0 DEF Sound, EncoderRecords
  <2> QED BY <2>1, <2>2, StepSound
<1>4. CASE H!CaptureStalls
  <2>1. H!Becomes(IF host.captureRestarts < MaxCaptureRestarts
             THEN [host EXCEPT !.captureRestarts = @ + 1, !.source = "restarted", !.force = TRUE]
             ELSE H!Stopped(host)) /\ H!NoFault
        BY <1>4 DEF H!CaptureStalls
  <2>2. Sound(H!Stopped(host), 0)
        BY <1>0, LifecycleSound
  <2>3. ASSUME host.captureRestarts < MaxCaptureRestarts
        PROVE  Sound([host EXCEPT !.captureRestarts = @ + 1, !.source = "restarted", !.force = TRUE], 0)
    <3>1. PICK r \in 0 .. MaxCaptureRestarts : r = host.captureRestarts + 1
          BY <1>0, <2>3 DEF EncoderRecords, EncoderConstants
    <3>2. Sound([host EXCEPT !.captureRestarts = r, !.source = "restarted", !.force = TRUE], 0)
          BY <1>0 DEF Sound, EncoderRecords
    <3> QED BY <3>1, <3>2
  <2>4. PICK h : h = (IF host.captureRestarts < MaxCaptureRestarts
             THEN [host EXCEPT !.captureRestarts = @ + 1, !.source = "restarted", !.force = TRUE]
             ELSE H!Stopped(host))
        OBVIOUS
  <2>5. Sound(h, 0)
        BY <2>2, <2>3, <2>4
  <2> QED BY <2>1, <2>4, <2>5, StepSound
<1> QED BY <1>1, <1>2, <1>3, <1>4

(* One round of the encode queue: a slot is taken, and kept by a submission or given back. *)
LEMMA EncodeKeeps ==
  ASSUME EncoderConstants, EncoderInv, H!Encode
  PROVE  EncoderInv'
<1>0. Sound(host, 0) /\ host \in EncoderRecords
      BY DEF EncoderInv, Sound
<1> DEFINE taken == H!Dequeued(host)
           ready == H!Prepared(taken)
<1>1. H!Room(host)
      BY DEF H!Encode
<1>2. \/ H!Becomes(H!CompleteSlots(taken, 1)) /\ H!NoFault
      \/ H!Becomes(H!Accepted(ready, FALSE)) /\ H!NoFault
      \/ H!Becomes(H!Accepted(ready, TRUE)) /\ H!Fault
      \/ H!Becomes(H!EncoderFailed(H!CompleteSlots(H!Refused(ready), 1))) /\ H!Fault
      \/ H!Becomes(H!CompleteSlots(H!EncoderFailed(ready), 1)) /\ H!Fault
      \/ H!Becomes(H!CompleteSlots(H!Stopped(taken), 1)) /\ H!Fault
      BY DEF H!Encode
<1>3. Sound(taken, 0 + 1)
  <2>1. PICK n \in 0 .. ConfiguredLimit : n = host.inFlight + 1
        BY <1>0, <1>1 DEF EncoderRecords, EncoderConstants, H!Room
  <2>2. taken = [host EXCEPT !.pending = FALSE, !.inFlight = n]
        BY <2>1 DEF H!Dequeued
  <2> HIDE DEF taken
  <2>3. taken \in EncoderRecords /\ taken.inFlight = n
        /\ \A f \in {"jobs", "ledger", "queue", "awaiting", "retry", "timers"} : taken[f] = host[f]
        BY <1>0, <2>2 DEF EncoderRecords
  <2>4. taken.inFlight = Len(taken.ledger) + (0 + 1)
    <3>1. host.inFlight = Len(host.ledger) + 0 /\ Len(host.ledger) \in Nat
          BY <1>0 DEF Sound, EncoderRecords
    <3> QED BY <2>1, <2>3, <3>1
  <2> QED BY <1>0, <2>3, <2>4 DEF Sound
<1> HIDE DEF taken
<1>4. Sound(ready, 0 + 1)
  <2>1. Sound(H!SetupEncoder(taken), 0 + 1)
        BY <1>3, LifecycleSound
  <2> QED BY <1>3, <2>1 DEF H!Prepared
<1> HIDE DEF ready
<1>5. PICK b \in BOOLEAN : b = (ready.freshOut /\ H!Current(ready) # <<>>)
      BY <1>4 DEF Sound, EncoderRecords
<1>6. PICK gate \in {"open", "closed"} : gate = (IF ready.force THEN "closed" ELSE ready.gate)
      BY <1>4 DEF Sound, EncoderRecords
<1>7. PICK s : s = H!Submitted(ready)
      OBVIOUS
<1>8. Sound(s, 0 + 1) /\ s.ledger = ready.ledger
  <2>1. s = [ready EXCEPT !.force = FALSE, !.gate = gate, !.freshOut = b]
        BY <1>4, <1>5, <1>6, <1>7 DEF H!Submitted, Sound, EncoderRecords
  <2>4. ready \in EncoderRecords
        BY <1>4 DEF Sound
  <2>6. PICK g : g = [ready EXCEPT !.force = FALSE, !.gate = gate, !.freshOut = b]
        OBVIOUS
  <2>7. b \in BOOLEAN /\ gate \in {"open", "closed"} /\ FALSE \in BOOLEAN
        BY <1>5, <1>6
  <2>8. g \in EncoderRecords
        BY ONLY <2>4, <2>6, <2>7 DEF EncoderRecords
  <2>9. \A f \in {"jobs", "inFlight", "ledger", "queue", "awaiting", "retry", "timers"} : g[f] = ready[f]
        BY ONLY <2>4, <2>6 DEF EncoderRecords
  <2>5. [ready EXCEPT !.force = FALSE, !.gate = gate, !.freshOut = b] \in EncoderRecords
        /\ \A f \in {"jobs", "inFlight", "ledger", "queue", "awaiting", "retry", "timers"} :
             [ready EXCEPT !.force = FALSE, !.gate = gate, !.freshOut = b][f] = ready[f]
        BY <2>6, <2>8, <2>9
  <2>2. Sound([ready EXCEPT !.force = FALSE, !.gate = gate, !.freshOut = b], 0 + 1)
        BY <1>4, <2>5 DEF Sound
  <2>3. [ready EXCEPT !.force = FALSE, !.gate = gate, !.freshOut = b].ledger = ready.ledger
        BY <1>4 DEF Sound, EncoderRecords
  <2> QED BY <2>1, <2>2, <2>3
<1>9. ASSUME NEW lost \in BOOLEAN PROVE Sound(H!Accepted(ready, lost), 0)
  <2>1. PICK e : e = [cur |-> TRUE, key |-> ready.force, lost |-> lost]
        OBVIOUS
  <2>2. e \in H!Submission
        BY <1>4, <2>1 DEF H!Submission, Sound, EncoderRecords
  <2>3. PICK l \in Seq(H!Submission) : l = s.ledger /\ Len(l) \in Nat
        BY <1>8 DEF Sound, EncoderRecords
  <2>4. Append(l, e) \in Seq(H!Submission) /\ Len(Append(l, e)) = Len(l) + 1
        BY <2>2, <2>3
  <2>5. PICK q : q = Append(l, e)
        OBVIOUS
  <2>6. PICK g : g = [s EXCEPT !.ledger = q]
        OBVIOUS
  <2>7. H!Accepted(ready, lost) = g
        BY <1>7, <2>1, <2>3, <2>5, <2>6 DEF H!Accepted
  <2>8. s \in EncoderRecords
        BY <1>8 DEF Sound
  <2>9. g \in EncoderRecords /\ g.ledger = q
        /\ \A f \in {"jobs", "inFlight", "queue", "awaiting", "retry", "timers"} : g[f] = s[f]
        BY <2>4, <2>5, <2>6, <2>8 DEF EncoderRecords
  <2>10. s.inFlight = Len(l) + (0 + 1)
        BY <1>8, <2>3 DEF Sound
  <2>11. g.inFlight = Len(g.ledger) + 0
        BY <2>3, <2>4, <2>5, <2>9, <2>10
  <2>12. Sound(g, 0)
        BY <1>8, <2>9, <2>11 DEF Sound
  <2> QED BY <2>7, <2>12
<1>10. Sound(H!CompleteSlots(taken, 1), 0)
      BY <1>3, CompleteSlotsSound
<1>11. Sound(H!EncoderFailed(H!CompleteSlots(H!Refused(ready), 1)), 0)
  <2>1. Sound(H!Refused(ready), 0 + 1)
        BY <1>7, <1>8, GateAndQueueSound DEF H!Refused
  <2> QED BY <2>1, CompleteSlotsSound, LifecycleSound
<1>12. Sound(H!CompleteSlots(H!EncoderFailed(ready), 1), 0)
      BY <1>4, CompleteSlotsSound, LifecycleSound
<1>13. Sound(H!CompleteSlots(H!Stopped(taken), 1), 0)
      BY <1>3, CompleteSlotsSound, LifecycleSound
<1> QED BY <1>2, <1>9, <1>10, <1>11, <1>12, <1>13, StepSound

(* The tasks of the encode queue other than an encode. *)
LEMMA QueueTaskKeeps ==
  ASSUME EncoderConstants, EncoderInv, H!Drain \/ H!FailedOutput \/ H!RetryFires
  PROVE  EncoderInv'
<1>0. Sound(host, 0) /\ host \in EncoderRecords
      BY DEF EncoderInv, Sound
<1>1. CASE H!Drain
  <2>1. H!Becomes([host EXCEPT !.scheduled = FALSE]) /\ H!NoFault
        BY <1>1 DEF H!Drain
  <2>2. Sound([host EXCEPT !.scheduled = FALSE], 0)
        BY <1>0 DEF Sound, EncoderRecords
  <2> QED BY <2>1, <2>2, StepSound
<1>2. CASE H!FailedOutput
  <2>1. PICK n \in Nat : n = host.failed - 1
        BY <1>0, <1>2 DEF H!FailedOutput, EncoderRecords
  <2>2. PICK g : g = [host EXCEPT !.failed = n]
        OBVIOUS
  <2>3. H!Becomes(H!EncoderFailed(g)) /\ H!NoFault
        BY <1>2, <2>1, <2>2 DEF H!FailedOutput
  <2>4. Sound(g, 0)
        BY <1>0, <2>2 DEF Sound, EncoderRecords
  <2>5. Sound(H!EncoderFailed(g), 0)
        BY <2>4, LifecycleSound
  <2> QED BY <2>3, <2>5, StepSound
<1>3. CASE H!RetryFires
  <2>1. PICK n \in 0 .. 2 : n = host.timers - 1
        BY <1>0, <1>3 DEF H!RetryFires, EncoderRecords
  <2>2. PICK g : g = [host EXCEPT !.timers = n, !.retry = FALSE]
        OBVIOUS
  <2>3. PICK h : h = (IF host.running /\ host.retry /\ host.awaiting THEN H!RequestKeyframe(g, TRUE) ELSE g)
        OBVIOUS
  <2>4. H!Becomes(h) /\ H!NoFault
        BY <1>3, <2>1, <2>2, <2>3 DEF H!RetryFires
  <2>5. g \in EncoderRecords /\ g.retry = FALSE
        /\ \A f \in {"jobs", "inFlight", "ledger", "queue", "awaiting"} : g[f] = host[f]
        BY <1>0, <2>2 DEF EncoderRecords
  <2>6. Sound(g, 0)
        BY <1>0, <2>5 DEF Sound
  <2>7. Sound(h, 0)
        BY <2>3, <2>6, GateAndQueueSound
  <2> QED BY <2>4, <2>7, StepSound
<1> QED BY <1>1, <1>2, <1>3

(* The health check restarts the encoder as often as it may, and then stops. *)
LEMMA HealthCheckKeeps ==
  ASSUME EncoderConstants, EncoderInv, H!HealthCheck
  PROVE  EncoderInv'
<1>0. Sound(host, 0) /\ host \in EncoderRecords
      BY DEF EncoderInv, Sound
<1>1. PICK seen : seen = [host EXCEPT !.newCapture = FALSE]
      OBVIOUS
<1>2. PICK observed : observed = [seen EXCEPT !.freshOut = FALSE]
      OBVIOUS
<1>3. Sound(seen, 0) /\ seen.restarts = host.restarts
      BY <1>0, <1>1 DEF Sound, EncoderRecords
<1>4. Sound(observed, 0) /\ observed.restarts = host.restarts
      BY <1>2, <1>3 DEF Sound, EncoderRecords
<1>5. PICK h : h = H!Evaluated(host)
      OBVIOUS
<1>6. \/ h = host \/ h = seen \/ h = observed \/ h = H!Stopped(observed)
      \/ ~(host.restarts >= MaxEncoderRestarts) /\ h = H!RestartEncoder(observed)
      BY <1>1, <1>2, <1>5 DEF H!Evaluated
<1>7. Sound(h, 0)
  <2>1. Sound(H!Stopped(observed), 0)
        BY <1>4, LifecycleSound
  <2>2. ASSUME ~(host.restarts >= MaxEncoderRestarts) PROVE Sound(H!RestartEncoder(observed), 0)
    <3>1. host.restarts < MaxEncoderRestarts
          BY <1>0, <2>2 DEF EncoderRecords, EncoderConstants
    <3> QED BY <1>4, <3>1, RestartSound
  <2> QED BY <1>0, <1>3, <1>4, <1>6, <2>1, <2>2
<1>8. Sound([h EXCEPT !.health = FALSE], 0)
      BY <1>7 DEF Sound, EncoderRecords
<1>9. H!Becomes([h EXCEPT !.health = FALSE]) /\ H!NoFault
      BY <1>5 DEF H!HealthCheck
<1> QED BY <1>8, <1>9, StepSound

(* What an output's sample is admitted to: the packetizer, or a recovery. *)
LEMMA AdmitSound ==
  ASSUME EncoderConstants, NEW h, Sound(h, 0), NEW key \in BOOLEAN, NEW idr \in BOOLEAN
  PROVE  Sound(H!Admit(h, key, idr), 0)
<1>0. h \in EncoderRecords /\ h.jobs \in Seq(H!Job) /\ Len(h.jobs) \in Nat
      BY DEF Sound, EncoderRecords
<1>1. PICK e \in H!Job : e = [cur |-> TRUE, key |-> key, idr |-> idr]
      BY DEF H!Job
<1>2. PICK q \in Seq(H!Job) : q = h.jobs
      BY <1>0
<1>8. Append(q, e) \in Seq(H!Job) /\ Len(Append(q, e)) = Len(q) + 1
      OBVIOUS
<1>3. PICK p \in Seq(H!Job) : p = Append(q, e) /\ Len(p) = Len(q) + 1
      BY <1>8
<1>4. PICK g : g = [h EXCEPT !.jobs = p]
      OBVIOUS
<1>5. \/ Len(q) < PackLimit /\ H!Admit(h, key, idr) = g
      \/ H!Admit(h, key, idr) = H!ScheduleRetry(h)
      \/ H!Admit(h, key, idr) = h
      \/ H!Admit(h, key, idr) = H!BeginNetworkRecovery(h)
      BY <1>1, <1>2, <1>3, <1>4 DEF H!Admit
<1>6. ASSUME Len(q) < PackLimit PROVE Sound(g, 0)
  <2>1. g \in EncoderRecords /\ g.jobs = p
        /\ \A f \in {"inFlight", "ledger", "queue", "awaiting", "retry", "timers"} : g[f] = h[f]
        BY <1>0, <1>4 DEF EncoderRecords
  <2>2. Len(p) <= PackLimit
        BY <1>3, <1>6 DEF EncoderConstants
  <2> QED BY <2>1, <2>2 DEF Sound
<1>7. Sound(H!ScheduleRetry(h), 0) /\ Sound(H!BeginNetworkRecovery(h), 0)
      BY ScheduleRetrySound, RecoverySound
<1> QED BY <1>5, <1>6, <1>7

(* The outputs of the encoder, each of a submission of the ledger. *)
LEMMA OutputsKeep ==
  ASSUME EncoderConstants, EncoderInv,
         H!LateOutput \/ H!ValidOutput \/ H!DroppedOutput \/ H!OutputFails
  PROVE  EncoderInv'
<1>0. Sound(host, 0) /\ host \in EncoderRecords
      BY DEF EncoderInv, Sound
<1>1. H!Delivered # 0
      BY DEF H!LateOutput, H!ValidOutput, H!DroppedOutput, H!OutputFails
<1>2. H!Delivered \in 1 .. Len(host.ledger) /\ host.ledger[H!Delivered] \in H!Submission
      BY <1>0, <1>1, DeliveredIsKnown
<1>3. PICK retired : retired = H!Retire(host, H!Delivered)
      OBVIOUS
<1>4. Sound(retired, 0)
      BY <1>0, <1>2, <1>3, RetireSound
<1>5. PICK key \in BOOLEAN : key = host.ledger[H!Delivered].key
      BY <1>2 DEF H!Submission
<1>6. CASE H!LateOutput
  <2>1. H!Becomes(retired) /\ H!NoFault
        BY <1>3, <1>6 DEF H!LateOutput
  <2> QED BY <1>4, <2>1, StepSound
<1>7. CASE H!ValidOutput
  <2>1. PICK confirmed : confirmed = H!Confirmed(retired)
        OBVIOUS
  <2>2. Sound(confirmed, 0)
    <3>1. PICK b \in BOOLEAN : b = H!OldestIsStale(retired)
          BY <1>4, StaleIsBoolean
    <3>2. PICK g : g = [retired EXCEPT !.confirmed = TRUE, !.freshOut = b]
          OBVIOUS
    <3>3. Sound(g, 0)
          BY <1>4, <3>2 DEF Sound, EncoderRecords
    <3>4. Sound(H!SetLimit(g, ConfiguredLimit), 0)
          BY <3>3, SetLimitSound
    <3> QED BY <2>1, <3>1, <3>2, <3>4 DEF H!Confirmed
  <2>3. PICK sync \in BOOLEAN : sync = (key \/ ~host.confirmed)
        BY <1>0 DEF EncoderRecords
  <2>4. \/ H!Becomes(H!Admit(confirmed, key, sync)) /\ H!NoFault
        \/ H!Becomes(H!Admit(confirmed, key, TRUE)) /\ H!NoFault
        \/ H!Becomes(H!Admit(confirmed, key, FALSE)) /\ H!Fault
        BY <1>3, <1>5, <1>7, <2>1, <2>3 DEF H!ValidOutput
  <2>5. \A b \in BOOLEAN : Sound(H!Admit(confirmed, key, b), 0)
        BY <2>2, AdmitSound
  <2> QED BY <2>4, <2>5, StepSound
<1>8. CASE H!DroppedOutput
  <2>1. PICK h : h = (IF host.ledger[H!Delivered].key THEN H!ScheduleRetry(retired) ELSE retired)
        OBVIOUS
  <2>2. H!Becomes(h) /\ H!Fault
        BY <1>3, <1>8, <2>1 DEF H!DroppedOutput
  <2>3. Sound(h, 0)
        BY <1>4, <2>1, ScheduleRetrySound
  <2> QED BY <2>2, <2>3, StepSound
<1>9. CASE H!OutputFails
  <2>1. PICK h : h = (IF host.ledger[H!Delivered].key THEN H!ClearGate(retired) ELSE retired)
        OBVIOUS
  <2>2. H!Becomes([h EXCEPT !.failed = @ + 1]) /\ H!Fault
        BY <1>3, <1>9, <2>1 DEF H!OutputFails
  <2>3. Sound(h, 0)
        BY <1>4, <2>1, GateAndQueueSound
  <2>4. PICK n \in Nat : n = h.failed + 1
        BY <2>3 DEF Sound, EncoderRecords
  <2>5. Sound([h EXCEPT !.failed = n], 0)
        BY <2>3 DEF Sound, EncoderRecords
  <2> QED BY <2>2, <2>4, <2>5, StepSound
<1> QED BY <1>6, <1>7, <1>8, <1>9

(* Taking the first of a sequence that is not empty. *)
LEMMA HeadAndTail ==
  ASSUME NEW A, NEW q \in Seq(A), q # <<>>
  PROVE  /\ Head(q) \in A /\ Head(q) = q[1] /\ Tail(q) \in Seq(A) /\ Len(q) \in Nat /\ Len(q) >= 1
         /\ Len(Tail(q)) = Len(q) - 1
         /\ \A i \in 1 .. Len(q) - 1 : Tail(q)[i] = q[i + 1]
<1>1. Head(q) \in A /\ Head(q) = q[1] /\ Tail(q) \in Seq(A) /\ Len(q) \in Nat
      OBVIOUS
<1>2. Len(q) # 0
      BY <1>1, EmptySeq
<1>3. Len(Tail(q)) = Len(q) - 1
      BY <1>1, <1>2
<1>4. \A i \in 1 .. Len(q) - 1 : Tail(q)[i] = q[i + 1]
      BY <1>1, <1>3
<1> QED BY <1>1, <1>2, <1>3, <1>4

(* A packetizer takes its job first. *)
LEMMA TakenSound ==
  ASSUME EncoderConstants, NEW h, Sound(h, 0), h.jobs # <<>>
  PROVE  Sound(H!Taken(h), 0) /\ Head(h.jobs) \in H!Job
<1>0. h \in EncoderRecords /\ h.jobs \in Seq(H!Job)
      BY DEF Sound, EncoderRecords
<1>1. Head(h.jobs) \in H!Job /\ Tail(h.jobs) \in Seq(H!Job) /\ Len(Tail(h.jobs)) = Len(h.jobs) - 1
      /\ Len(h.jobs) \in Nat
      BY <1>0, HeadAndTail
<1>6. Len(h.jobs) <= PackLimit /\ PackLimit \in Nat
      BY DEF Sound, EncoderConstants
<1>7. Len(Tail(h.jobs)) <= PackLimit
      BY <1>1, <1>6
<1>2. PICK p \in Seq(H!Job) : p = Tail(h.jobs) /\ Len(p) <= PackLimit
      BY <1>1, <1>7
<1>3. PICK g : g = [h EXCEPT !.jobs = p]
      OBVIOUS
<1>4. g \in EncoderRecords /\ g.jobs = p
      /\ \A f \in {"inFlight", "ledger", "queue", "awaiting", "retry", "timers"} : g[f] = h[f]
      BY <1>0, <1>3 DEF EncoderRecords
<1>5. Sound(g, 0)
      BY <1>2, <1>4 DEF Sound
<1> QED BY <1>1, <1>2, <1>3, <1>5 DEF H!Taken

(* Packetization gives its frame to the queue, or nothing. *)
LEMMA PacketsKeep ==
  ASSUME EncoderConstants, EncoderInv, H!PacketizeStale \/ H!Packetize
  PROVE  EncoderInv'
<1>0. Sound(host, 0) /\ host \in EncoderRecords /\ host.jobs # <<>>
      BY DEF EncoderInv, Sound, H!PacketizeStale, H!Packetize
<1>1. PICK taken : taken = H!Taken(host)
      OBVIOUS
<1>2. Sound(taken, 0) /\ Head(host.jobs) \in H!Job
      BY <1>0, <1>1, TakenSound
<1>3. PICK job \in H!Job : job = Head(host.jobs)
      BY <1>2
<1>4. Sound(H!ClearGate(taken), 0) /\ Sound(H!ScheduleRetry(taken), 0)
      BY <1>2, GateAndQueueSound, ScheduleRetrySound
<1>5. CASE H!PacketizeStale
  <2>1. PICK h : h = (IF job.cur /\ job.key THEN H!ClearGate(taken) ELSE taken)
        OBVIOUS
  <2>2. H!Becomes(h) /\ H!NoFault
        BY <1>1, <1>3, <1>5, <2>1 DEF H!PacketizeStale
  <2>3. Sound(h, 0)
        BY <1>2, <1>4, <2>1
  <2> QED BY <2>2, <2>3, StepSound
<1>6. CASE H!Packetize
  <2>1. PICK unknown : unknown = [taken EXCEPT !.force = TRUE]
        OBVIOUS
  <2>2. Sound(unknown, 0)
        BY <1>2, <2>1 DEF Sound, EncoderRecords
  <2>3. job.idr \in BOOLEAN /\ job.key \in BOOLEAN
        BY DEF H!Job
  <2>4. \/ /\ \E expired \in {FALSE, QueueMaxAge} :
                H!Becomes(IF job.key /\ ~job.idr THEN H!ScheduleRetry(taken)
                          ELSE H!EnqueueFrame(taken, job.idr, job.key, expired))
           /\ H!NoFault
        \/ H!Becomes(IF job.key THEN H!ScheduleRetry(taken) ELSE taken) /\ H!Fault
        \/ H!Becomes(IF job.key THEN H!ClearGate(unknown) ELSE unknown) /\ H!Fault
        BY <1>1, <1>3, <1>6, <2>1 DEF H!Packetize
  <2>5. CASE \E expired \in {FALSE, QueueMaxAge} :
                H!Becomes(IF job.key /\ ~job.idr THEN H!ScheduleRetry(taken)
                          ELSE H!EnqueueFrame(taken, job.idr, job.key, expired))
                /\ H!NoFault
    <3>1. PICK expired \in {FALSE, QueueMaxAge} :
                H!Becomes(IF job.key /\ ~job.idr THEN H!ScheduleRetry(taken)
                          ELSE H!EnqueueFrame(taken, job.idr, job.key, expired))
                /\ H!NoFault
          BY <2>5
    <3>2. PICK h : h = (IF job.key /\ ~job.idr THEN H!ScheduleRetry(taken)
                        ELSE H!EnqueueFrame(taken, job.idr, job.key, expired))
          OBVIOUS
    <3>3. Sound(H!EnqueueFrame(taken, job.idr, job.key, expired), 0)
          BY <1>2, <2>3, EnqueueFrameSound
    <3>4. Sound(h, 0)
          BY <1>4, <3>2, <3>3
    <3> QED BY <3>1, <3>2, <3>4, StepSound
  <2>6. CASE H!Becomes(IF job.key THEN H!ScheduleRetry(taken) ELSE taken) /\ H!Fault
    <3>1. PICK h : h = (IF job.key THEN H!ScheduleRetry(taken) ELSE taken)
          OBVIOUS
    <3>2. Sound(h, 0)
          BY <1>2, <1>4, <3>1
    <3> QED BY <2>6, <3>1, <3>2, StepSound
  <2>7. CASE H!Becomes(IF job.key THEN H!ClearGate(unknown) ELSE unknown) /\ H!Fault
    <3>1. PICK h : h = (IF job.key THEN H!ClearGate(unknown) ELSE unknown)
          OBVIOUS
    <3>2. Sound(h, 0)
          BY <2>2, <3>1, GateAndQueueSound
    <3> QED BY <2>7, <3>1, <3>2, StepSound
  <2> QED BY <2>4, <2>5, <2>6, <2>7
<1> QED BY <1>5, <1>6

(* The network queue gives its first frame to the socket. *)
LEMMA NetworkTakeKeeps ==
  ASSUME EncoderConstants, EncoderInv, H!NetworkTake
  PROVE  EncoderInv'
<1>0. Sound(host, 0) /\ host \in EncoderRecords /\ host.queue \in Seq(H!Frame) /\ host.queue # <<>>
      BY DEF EncoderInv, Sound, EncoderRecords, H!NetworkTake
<1>1. PICK q \in Seq(H!Frame) : q = host.queue
      BY <1>0
<1>2. /\ Head(q) \in H!Frame /\ Tail(q) \in Seq(H!Frame) /\ Len(q) \in Nat /\ Len(q) >= 1
      /\ Len(Tail(q)) = Len(q) - 1 /\ \A i \in 1 .. Len(q) - 1 : Tail(q)[i] = q[i + 1]
      BY <1>0, <1>1, HeadAndTail
<1>3. PICK p \in Seq(H!Frame) : p = Tail(q)
      BY <1>2
<1>4. PICK f \in H!Frame : f = Head(q)
      BY <1>2
<1>5. <<f>> \in Seq(H!Frame)
      OBVIOUS
<1>6. PICK w \in Seq(H!Frame) : w = <<f>>
      BY <1>5
<1>7. PICK b \in BOOLEAN : b = (host.keyInFlight \/ f.idr)
      BY <1>0 DEF EncoderRecords, H!Frame
<1>8. PICK g : g = [host EXCEPT !.writing = w, !.queue = p, !.keyInFlight = b]
      OBVIOUS
<1>9. H!Becomes(g) /\ H!NoFault
      BY <1>1, <1>3, <1>4, <1>6, <1>7, <1>8 DEF H!NetworkTake
<1>10. g \in EncoderRecords /\ g.queue = p
      /\ \A x \in {"jobs", "inFlight", "ledger", "awaiting", "retry", "timers"} : g[x] = host[x]
      BY <1>0, <1>8 DEF EncoderRecords
<1>11. Len(p) <= MaxPending
  <2>1. Len(q) <= MaxPending
        BY <1>0, <1>1 DEF Sound
  <2>2. Len(p) = Len(q) - 1
        BY <1>2, <1>3
  <2> QED BY <1>2, <2>1, <2>2 DEF EncoderConstants
<1>12. host.awaiting => \A i \in 1 .. Len(p) : p[i].idr
  <2> SUFFICES ASSUME host.awaiting, NEW i \in 1 .. Len(p) PROVE p[i].idr
      OBVIOUS
  <2>1. \A j \in 1 .. Len(q) : q[j].idr
        BY <1>0, <1>1 DEF Sound
  <2>2. i + 1 \in 1 .. Len(q) /\ p[i] = q[i + 1]
        BY <1>2, <1>3
  <2> QED BY <2>1, <2>2
<1>13. Sound(g, 0)
      BY <1>0, <1>10, <1>11, <1>12 DEF Sound
<1> QED BY <1>9, <1>13, StepSound

(* A frame is written, or its write fails, or it is not written any more. *)
LEMMA WriteFrameKeeps ==
  ASSUME EncoderConstants, EncoderInv, H!WriteFrame
  PROVE  EncoderInv'
<1>0. Sound(host, 0) /\ host \in EncoderRecords /\ host.writing \in Seq(H!Frame) /\ host.writing # <<>>
      BY DEF EncoderInv, Sound, EncoderRecords, H!WriteFrame
<1>1. PICK f \in H!Frame : f = host.writing[1]
      BY <1>0, HeadAndTail
<1>2. ASSUME NEW h, Sound(h, 0), NEW b \in BOOLEAN PROVE Sound(H!AfterSend(h, f, b), 0)
  <2>1. h \in EncoderRecords /\ h.queue \in Seq(H!Frame) /\ h.awaiting \in BOOLEAN
        BY <1>2 DEF Sound, EncoderRecords
  <2>2. PICK a \in BOOLEAN : a = (h.awaiting /\ ~(f.idr /\ b))
        BY <2>1 DEF H!Frame
  <2>3. PICK e \in Seq(H!Frame) : e = <<>>
    <3>1. <<>> \in Seq(H!Frame)
          OBVIOUS
    <3> QED BY <3>1
  <2>4. PICK g : g = [h EXCEPT !.writing = e, !.keyInFlight = FALSE, !.awaiting = a]
        OBVIOUS
  <2>5. g \in EncoderRecords /\ g.awaiting = a
        /\ \A x \in {"jobs", "inFlight", "ledger", "queue", "retry", "timers"} : g[x] = h[x]
        BY <2>1, <2>4 DEF EncoderRecords
  <2>6. a => h.awaiting
        BY <2>2
  <2>7. Sound(g, 0)
        BY <1>2, <2>5, <2>6 DEF Sound
  <2> QED BY <2>2, <2>3, <2>4, <2>7 DEF H!AfterSend
<1>3. PICK done : done = (IF f.rec THEN H!RecoveryKeyframeDidSend(host) ELSE host)
      OBVIOUS
<1>4. Sound(done, 0)
      BY <1>0, <1>3, DidSendSound
<1>5. PICK sent : sent = H!AfterSend(done, f, TRUE)
      OBVIOUS
<1>6. Sound(sent, 0)
      BY <1>2, <1>4, <1>5
<1>7. PICK cleared : cleared = [H!QueueCleared(host) EXCEPT !.awaiting = TRUE]
      OBVIOUS
<1>8. Sound(cleared, 0)
  <2>1. PICK e : e = <<>>
        OBVIOUS
  <2>2. e \in Seq(H!Frame) /\ Len(e) = 0 /\ Len(e) <= MaxPending
        BY <2>1 DEF EncoderConstants
  <2>3. PICK g : g = [host EXCEPT !.queue = e, !.awaiting = TRUE]
        OBVIOUS
  <2>7. host \in EncoderRecords /\ e \in Seq(H!Frame)
        BY <1>0, <2>2
  <2>8. g \in EncoderRecords
        BY ONLY <2>3, <2>7 DEF EncoderRecords
  <2>9. g.queue = e
        BY ONLY <2>3, <2>7 DEF EncoderRecords
  <2>10. \A x \in {"jobs", "inFlight", "ledger", "retry", "timers"} : g[x] = host[x]
        BY ONLY <2>3, <2>7 DEF EncoderRecords
  <2>4. g \in EncoderRecords /\ g.queue = e
        /\ \A x \in {"jobs", "inFlight", "ledger", "retry", "timers"} : g[x] = host[x]
        BY <2>8, <2>9, <2>10
  <2>6. Sound(g, 0)
        BY <1>0, <2>2, <2>4 DEF Sound
  <2>5. cleared = [host EXCEPT !.queue = e, !.awaiting = TRUE]
        BY <1>0, <1>7, <2>1 DEF H!QueueCleared, EncoderRecords
  <2> QED BY <2>3, <2>5, <2>6
<1>9. PICK failed : failed = H!WriteFails(host, f.rec)
      OBVIOUS
<1>10. Sound(failed, 0)
  <2>1. PICK h : h = (IF f.rec THEN H!ClearGate(cleared) ELSE cleared)
        OBVIOUS
  <2>2. Sound(h, 0)
        BY <1>8, <2>1, GateAndQueueSound
  <2>3. failed = H!RequestKeyframe(h, FALSE)
        BY <1>7, <1>9, <2>1 DEF H!WriteFails
  <2> QED BY <2>2, <2>3, GateAndQueueSound
<1>11. PICK unsent : unsent = H!Unsent(host, f.rec)
      OBVIOUS
<1>12. Sound(unsent, 0)
      BY <1>0, <1>11, GateAndQueueSound DEF H!Unsent
<1>13. \/ /\ host' = sent /\ waiting' = (waiting /\ ~f.idr) /\ H!NoFault
       \/ /\ host' = sent /\ waiting' = TRUE /\ H!Fault
       \/ H!Becomes(H!AfterSend(failed, f, FALSE)) /\ H!Fault
       \/ H!Becomes(H!AfterSend(unsent, f, FALSE)) /\ H!NoFault
      BY <1>1, <1>3, <1>5, <1>9, <1>11 DEF H!WriteFrame
<1>14. Sound(H!AfterSend(failed, f, FALSE), 0) /\ Sound(H!AfterSend(unsent, f, FALSE), 0)
      BY <1>2, <1>10, <1>12
<1>15. CASE host' = sent /\ waiting' \in BOOLEAN /\ (H!NoFault \/ H!Fault)
  <2>1. Sound(host', 0)
        BY <1>6, <1>15
  <2>2. faults' \in 0 .. MaxFaults
        BY <1>15 DEF EncoderInv, H!Fault, H!NoFault, EncoderConstants
  <2> QED BY <1>15, <2>1, <2>2 DEF EncoderInv
<1>16. (waiting /\ ~f.idr) \in BOOLEAN
      BY DEF EncoderInv, H!Frame
<1> QED BY <1>13, <1>14, <1>15, <1>16, StepSound

(* The viewer's requests and the passing of time. *)
LEMMA OthersKeep ==
  ASSUME EncoderConstants, EncoderInv,
         H!ViewerGap \/ H!ViewerIdr \/ H!ViewerStops \/ H!CoolAges \/ H!RestartAges
  PROVE  EncoderInv'
<1>0. Sound(host, 0) /\ host \in EncoderRecords
      BY DEF EncoderInv, Sound
<1>1. CASE H!ViewerGap
  <2>1. host' = host /\ waiting' = TRUE /\ H!Fault
        BY <1>1 DEF H!ViewerGap
  <2>2. faults' \in 0 .. MaxFaults
        BY <2>1 DEF EncoderInv, H!Fault, EncoderConstants
  <2>3. Sound(host', 0)
        BY <1>0, <2>1
  <2> QED BY <2>1, <2>2, <2>3 DEF EncoderInv
<1>2. CASE H!ViewerIdr
  <2>1. H!Becomes(H!BeginNetworkRecovery(host)) /\ H!NoFault
        BY <1>2 DEF H!ViewerIdr
  <2> QED BY <1>0, <2>1, RecoverySound, StepSound
<1>3. CASE H!ViewerStops
  <2>1. H!Becomes(H!Stopped(host)) /\ H!NoFault
        BY <1>3 DEF H!ViewerStops
  <2> QED BY <1>0, <2>1, LifecycleSound, StepSound
<1>4. CASE H!CoolAges
  <2>1. PICK n \in 0 .. FreshCooldown : n = host.cool + 1
        BY <1>0, <1>4 DEF H!CoolAges, EncoderRecords, EncoderConstants
  <2>2. H!Becomes([host EXCEPT !.cool = n]) /\ H!NoFault
        BY <1>4, <2>1 DEF H!CoolAges
  <2>3. Sound([host EXCEPT !.cool = n], 0)
        BY <1>0 DEF Sound, EncoderRecords
  <2> QED BY <2>2, <2>3, StepSound
<1>5. CASE H!RestartAges
  <2>1. CASE host.cooling
    <3>1. H!Becomes([host EXCEPT !.cooling = FALSE]) /\ H!NoFault
          BY <1>5, <2>1 DEF H!RestartAges
    <3>2. Sound([host EXCEPT !.cooling = FALSE], 0)
          BY <1>0 DEF Sound, EncoderRecords
    <3> QED BY <3>1, <3>2, StepSound
  <2>2. CASE ~host.cooling
    <3>1. PICK n \in 0 .. MaxEncoderRestarts : n = host.restarts - 1
          BY <1>0, <1>5, <2>2 DEF H!RestartAges, EncoderRecords, EncoderConstants
    <3>2. H!Becomes([host EXCEPT !.restarts = n]) /\ H!NoFault
          BY <1>5, <2>2, <3>1 DEF H!RestartAges
    <3>3. Sound([host EXCEPT !.restarts = n], 0)
          BY <1>0 DEF Sound, EncoderRecords
    <3> QED BY <3>2, <3>3, StepSound
  <2> QED BY <2>1, <2>2
<1> QED BY <1>1, <1>2, <1>3, <1>4, <1>5

(* The host starts with no slot taken and nothing queued. *)
LEMMA EncoderStarts ==
  ASSUME EncoderConstants, H!Init
  PROVE  EncoderInv
<1> DEFINE e == <<>>
<1>1. Len(e) = 0 /\ e \in Seq(H!Submission) /\ e \in Seq(H!Job) /\ e \in Seq(H!Frame)
      OBVIOUS
<1>2. host.ledger = e /\ host.jobs = e /\ host.queue = e /\ host.writing = e
      BY DEF H!Init
<1>3. host \in EncoderRecords
  <2>1. 0 \in 0 .. ConfiguredLimit /\ 0 \in 0 .. MaxCaptureRestarts /\ FreshCooldown \in 0 .. FreshCooldown
        /\ 0 \in 0 .. MaxEncoderRestarts /\ 0 \in 0 .. 2 /\ 0 \in Nat
        BY DEF EncoderConstants
  <2> HIDE DEF e
  <2>2. host = [running |-> TRUE,
             source |-> "live", captureRestarts |-> 0, pending |-> FALSE, carrier |-> FALSE,
             scheduled |-> FALSE, inFlight |-> 0, limit |-> ConfiguredLimit, gate |-> "open",
             session |-> FALSE, mode |-> "ave", confirmed |-> FALSE, force |-> FALSE, keyPending |-> FALSE,
             cool |-> FreshCooldown, retry |-> FALSE, ledger |-> e, jobs |-> e,
             health |-> FALSE, newCapture |-> FALSE, freshOut |-> FALSE,
             restarts |-> 0, cooling |-> FALSE,
             timers |-> 0, failed |-> 0,
             queue |-> e, awaiting |-> FALSE, keyInFlight |-> FALSE, writing |-> e]
        BY DEF H!Init, e
  <2> QED BY <1>1, <2>1, <2>2 DEF EncoderRecords, H!Modes
<1>4. host.inFlight = 0 /\ ~host.awaiting /\ ~host.retry
      BY DEF H!Init
<1> HIDE DEF e
<1>5. Sound(host, 0)
      BY <1>1, <1>2, <1>3, <1>4 DEF Sound, EncoderConstants
<1>7. waiting = FALSE /\ faults = 0
      BY DEF H!Init
<1>8. waiting \in BOOLEAN
      BY <1>7, Zenon
<1>9. MaxFaults \in Nat
      BY DEF EncoderConstants
<1>6. waiting \in BOOLEAN /\ faults \in 0 .. MaxFaults
      BY ONLY <1>7, <1>8, <1>9
<1> QED BY <1>5, <1>6 DEF EncoderInv

(* Every step of the host keeps it sound. *)
LEMMA EncoderSteps ==
  ASSUME EncoderConstants, EncoderInv, H!Next
  PROVE  EncoderInv'
<1>1. \/ H!Capture \/ H!GateTimesOut \/ H!ScreenIdles \/ H!CaptureStalls
      \/ H!Drain \/ H!FailedOutput \/ H!RetryFires
      \/ H!Encode
      \/ H!HealthCheck
      \/ H!LateOutput \/ H!ValidOutput \/ H!DroppedOutput \/ H!OutputFails
      \/ H!PacketizeStale \/ H!Packetize
      \/ H!NetworkTake
      \/ H!WriteFrame
      \/ H!ViewerGap \/ H!ViewerIdr \/ H!ViewerStops \/ H!CoolAges \/ H!RestartAges
      BY DEF H!Next, H!EncodeQueue, H!VideoToolbox, H!Packets, H!Network, H!Ages
<1> QED BY <1>1, CaptureSteps, QueueTaskKeeps, EncodeKeeps, HealthCheckKeeps, OutputsKeep,
           PacketsKeep, NetworkTakeKeeps, WriteFrameKeeps, OthersKeep

(* A sound host is one in which slots and boundaries hold. *)
LEMMA SoundIsTyped ==
  ASSUME EncoderConstants, EncoderInv
  PROVE  SlotsAndBoundariesHold
<1>0. Sound(host, 0) /\ host \in EncoderRecords /\ waiting \in BOOLEAN /\ faults \in 0 .. MaxFaults
      BY DEF EncoderInv, Sound
<1>1. /\ host.ledger \in Seq(H!Submission) /\ Len(host.ledger) \in Nat
      /\ host.jobs \in Seq(H!Job) /\ Len(host.jobs) \in Nat
      /\ host.queue \in Seq(H!Frame) /\ Len(host.queue) \in Nat
      /\ host.inFlight \in 0 .. ConfiguredLimit
      BY <1>0 DEF EncoderRecords
<1>2. ASSUME NEW A, NEW q \in Seq(A), NEW n \in Nat, Len(q) <= n
      PROVE  q \in H!BoundedSeq(A, n)
  <2>1. Len(q) \in 0 .. n /\ q \in [1 .. Len(q) -> A]
        BY <1>2
  <2> QED BY <2>1 DEF H!BoundedSeq, H!SeqOf
<1>3. host.inFlight = Len(host.ledger)
      BY <1>0, <1>1 DEF Sound
<1>4. Len(host.ledger) <= ConfiguredLimit /\ Len(host.jobs) <= PackLimit /\ Len(host.queue) <= MaxPending
      BY <1>0, <1>1, <1>3 DEF Sound, EncoderConstants
<1>5. ConfiguredLimit \in Nat /\ PackLimit \in Nat /\ MaxPending \in Nat
      BY DEF EncoderConstants
<1>6. /\ host.ledger \in H!BoundedSeq(H!Submission, ConfiguredLimit)
      /\ host.jobs \in H!BoundedSeq(H!Job, PackLimit)
      /\ host.queue \in H!BoundedSeq(H!Frame, MaxPending)
      BY <1>1, <1>2, <1>4, <1>5
<1>7. /\ host.mode \in H!Modes /\ host.gate \in {"open", "closed"}
      /\ host.source \in {"live", "quiet", "restarted"} /\ host.cool \in 0 .. FreshCooldown
      /\ host.limit \in {1, ConfiguredLimit} /\ host.inFlight \in 0 .. ConfiguredLimit
      /\ host.timers \in 0 .. 2 /\ host.failed \in Nat
      /\ host.restarts \in 0 .. MaxEncoderRestarts /\ host.captureRestarts \in 0 .. MaxCaptureRestarts
      BY <1>0 DEF EncoderRecords
<1>8. {host.running, host.pending, host.carrier, host.scheduled, host.session,
       host.confirmed, host.force, host.keyPending, host.retry, host.health,
       host.newCapture, host.freshOut, host.cooling, host.awaiting,
       host.keyInFlight, waiting} \subseteq BOOLEAN
  <2>1. /\ host.running \in BOOLEAN /\ host.pending \in BOOLEAN /\ host.carrier \in BOOLEAN
        /\ host.scheduled \in BOOLEAN /\ host.session \in BOOLEAN /\ host.confirmed \in BOOLEAN
        /\ host.force \in BOOLEAN /\ host.keyPending \in BOOLEAN /\ host.retry \in BOOLEAN
        /\ host.health \in BOOLEAN /\ host.newCapture \in BOOLEAN /\ host.freshOut \in BOOLEAN
        /\ host.cooling \in BOOLEAN /\ host.awaiting \in BOOLEAN /\ host.keyInFlight \in BOOLEAN
        BY <1>0 DEF EncoderRecords
  <2> QED BY <1>0, <2>1, Zenon
<1>9. H!HostTypeOK
      BY <1>0, <1>6, <1>7, <1>8 DEF H!HostTypeOK
<1>10. H!BoundaryHoldsDeltas /\ H!RetryHasTimer
  <2>1. DOMAIN host.queue = 1 .. Len(host.queue)
        BY <1>1
  <2> QED BY <1>0, <2>1 DEF Sound, H!BoundaryHoldsDeltas, H!RetryHasTimer
<1> QED BY <1>3, <1>9, <1>10 DEF SlotsAndBoundariesHold, H!SlotsAndBoundariesHold, H!SlotsConserved

(* In every state of every behaviour. *)
THEOREM SlotsAreConserved ==
  ASSUME EncoderConstants
  PROVE  Spec => []SlotsAndBoundariesHold
<1>1. Init => EncoderInv
      BY EncoderStarts DEF Init
<1>2. EncoderInv /\ [Next]_vars => EncoderInv'
  <2> SUFFICES ASSUME EncoderInv, [Next]_vars PROVE EncoderInv'
      OBVIOUS
  <2>1. CASE HostStep
        BY <2>1, EncoderSteps DEF HostStep
  <2>2. CASE UNCHANGED hostVars
    <3>1. host' = host /\ waiting' = waiting /\ faults' = faults
          BY <2>2 DEF hostVars
    <3>2. Sound(host, 0)' = Sound(host', 0)
          BY DEF Sound, EncoderRecords
    <3>3. Sound(host', 0)
          BY <3>1 DEF EncoderInv
    <3> QED BY <3>1, <3>2, <3>3 DEF EncoderInv
  <2>3. HostStep \/ UNCHANGED hostVars
        BY DEF Next, vars, ViewerStep, SplitStep
  <2> QED BY <2>1, <2>2, <2>3
<1>3. EncoderInv => SlotsAndBoundariesHold
      BY SoundIsTyped
<1> QED BY <1>1, <1>2, <1>3, PTL DEF Spec

(* What the sequencer and the reassembler of the viewer keep. *)
Frames == [id : M!Numbers, key : BOOLEAN]
Waits == [id : M!Numbers, key : BOOLEAN, waited : BOOLEAN]
Entries == [id : M!Numbers, key : BOOLEAN, got : SUBSET (1 .. K + 1)]
Timed == [id : M!Numbers, left : Nat]
Sequencers == [last : SUBSET M!Numbers, pending : Seq(Waits), hold : SUBSET Nat, grace : BOOLEAN,
               reserved : SUBSET Timed]
Requesters == [attempted : SUBSET M!Numbers, armed : SUBSET Timed, probe : BOOLEAN]
Assemblies == [partial : Seq(Entries), recent : Seq(M!Numbers), groups : Seq(Entries), done : Seq(M!Numbers)]
Incidents == [age : Nat, idr : BOOLEAN, rebuilt : BOOLEAN]
Viewers == [asm : Assemblies, seq : Sequencers, nack : Requesters, dec : BOOLEAN, last : SUBSET M!Numbers,
            awaiting : BOOLEAN, gate : 0 .. Cooldown, incident : SUBSET Incidents, queue : Seq(Frames),
            shown : BOOLEAN, hidden : BOOLEAN]
Datagram == [kind : {"media"}, id : M!Numbers, key : BOOLEAN, shard : 1 .. K + 1]
              \cup [kind : {"config", "moved", "challenge"}, id : {0}, key : {FALSE}, shard : {0}]
Nacks == [kind : {"nack"}, id : M!Numbers, shards : (SUBSET (1 .. K)) \ {{}}]

ReceiverConstants ==
  /\ K \in Nat \ {0} /\ MaxInFlight \in Nat \ {0} /\ MaxGroups \in Nat \ {0}
  /\ MaxRecent \in Nat /\ MaxDone \in Nat
  /\ IdSpace \in Nat /\ IdSpace >= 2 /\ MaxReorder \in Nat \ {0} /\ Grace \in Nat
  /\ BatchSize \in Nat /\ Cooldown \in Nat /\ RingSize \in Nat /\ MaxUpsets \in Nat

(* A sequencer holds few access units, each of another number. *)
Sequenced(s) ==
  /\ s \in Sequencers
  /\ \A a, b \in s.last : a = b
  /\ Len(s.pending) <= IF s.last = {} THEN MaxReorder ELSE 2 * MaxReorder - 1
  /\ \A i, j \in 1 .. Len(s.pending) : s.pending[i].id = s.pending[j].id => i = j
(* An assembly is within its limits, and nothing complete is left in it. *)
Assembled(a) ==
  /\ a \in Assemblies
  /\ Len(a.partial) <= MaxInFlight /\ Len(a.groups) <= MaxGroups
  /\ Len(a.recent) <= MaxRecent /\ Len(a.done) <= MaxDone
  /\ \A i \in 1 .. Len(a.partial) : a.partial[i].got \subseteq 1 .. K /\ a.partial[i].got # 1 .. K
Viewing(v) == v \in Viewers /\ Assembled(v.asm) /\ Sequenced(v.seq) /\ Len(v.queue) <= BatchSize
(* A decoder that is fed deltas was fed the access unit before them. *)
Chained(v, shown) == v.dec /\ ~v.awaiting => \E f \in Frames : shown = {f} /\ v.last = {f.id}

Seen(v, u, f) ==
  Viewing(v) /\ u \subseteq Nacks \cup {M!Idr} /\ (f = {} \/ \E g \in Frames : f = {g}) /\ Chained(v, f)
Link(h, a, n) ==
  /\ h \in [next : M!Numbers, sent : Nat, asked : BOOLEAN, ring : Seq(Entries)]
  /\ Len(h.ring) <= RingSize /\ a \in Seq(Datagram) /\ n \in 0 .. MaxUpsets
(* The inductive invariant of the receiver. *)
ReceiverInv == Link(sender, air, upsets) /\ Seen(viewer, up, fed)

(* A set of numbers has a least one. *)
LEMMA LeastNumber ==
  ASSUME NEW T \in SUBSET Nat, T # {}
  PROVE  \E x \in T : \A y \in T : x <= y
<1> DEFINE R == OpToRel(<, Nat)
<1>1. IsWellFoundedOn(R, Nat)
      BY NatLessThanWellFounded
<1>2. \A x, y \in Nat : y < x => <<y, x>> \in R
      BY DEF OpToRel
<1> HIDE DEF R
<1>3. PICK x \in T : \A y \in T : ~(<<y, x>> \in R)
      BY <1>1, WFMin
<1>4. ASSUME NEW y \in T PROVE x <= y
  <2>1. x \in Nat /\ y \in Nat
        OBVIOUS
  <2>2. ~(y < x)
        BY <1>2, <1>3, <2>1
  <2> QED BY <2>1, <2>2
<1> QED BY <1>4

(* A set of numbers up to a bound has a greatest one. *)
LEMMA GreatestNumber ==
  ASSUME NEW n \in Nat, NEW T \in SUBSET (0 .. n), T # {}
  PROVE  \E x \in T : \A y \in T : y <= x
<1> DEFINE U == {n - x : x \in T}
<1>0. \A x \in T : n - x \in Nat
  <2>1. \A x \in 0 .. n : n - x \in Nat
        OBVIOUS
  <2> QED BY <2>1
<1>1. U \in SUBSET Nat /\ U # {}
      BY <1>0
<1>2. PICK u \in U : \A y \in U : u <= y
      BY <1>1, LeastNumber
<1>3. PICK x \in T : u = n - x
      OBVIOUS
<1>4. ASSUME NEW y \in T PROVE y <= x
  <2>1. n - y \in U
        OBVIOUS
  <2>2. n - x <= n - y
        BY <1>2, <1>3, <2>1
  <2>3. x \in 0 .. n /\ y \in 0 .. n
        OBVIOUS
  <2> QED BY <2>2, <2>3
<1> QED BY <1>3, <1>4

(* A sequencer apart from the bound on what it holds. *)
Listed(s) ==
  /\ s \in Sequencers
  /\ \A a, b \in s.last : a = b
  /\ \A i, j \in 1 .. Len(s.pending) : s.pending[i].id = s.pending[j].id => i = j

(* A part of the pending access units, in their order, has each number once too. *)
LEMMA PartIsApart ==
  ASSUME NEW q \in Seq(Waits), \A i, j \in 1 .. Len(q) : q[i].id = q[j].id => i = j,
         NEW I \in SUBSET (1 .. Len(q))
  PROVE  /\ AtIndexes(q, I) \in Seq(Waits) /\ Len(AtIndexes(q, I)) = Cardinality(I)
         /\ Cardinality(I) \in Nat /\ Cardinality(I) <= Len(q)
         /\ I # 1 .. Len(q) => Cardinality(I) < Len(q)
         /\ \A i, j \in 1 .. Len(AtIndexes(q, I)) : AtIndexes(q, I)[i].id = AtIndexes(q, I)[j].id => i = j
<1> DEFINE p == AtIndexes(q, I)
<1>0. q \in Seq(Waits) /\ I \in SUBSET (1 .. Len(q))
      OBVIOUS
<1>1. /\ p \in Seq(Waits) /\ Len(p) = Cardinality(I)
      /\ \A m \in 1 .. Cardinality(I) : \E i \in I : p[m] = q[i] /\ Rank(I, i) = m
      BY ONLY <1>0, PartOfSeq
<1>n. PICK n \in Nat : n = Len(q) /\ I \in SUBSET (1 .. n)
      OBVIOUS
<1>2. Cardinality(I) \in Nat /\ Cardinality(I) <= n /\ IsFiniteSet(I)
      BY <1>n, IndexesAreFinite
<1>3. I # 1 .. n => Cardinality(I) < n
  <2> SUFFICES ASSUME I # 1 .. n PROVE Cardinality(I) # n
      BY <1>2, <1>n
  <2>1. IsFiniteSet(1 .. n) /\ Cardinality(1 .. n) = n
        BY FS_Interval
  <2> QED BY <1>n, <2>1, FS_Subset
<1> HIDE DEF p
<1>4. ASSUME NEW i \in 1 .. Len(p), NEW j \in 1 .. Len(p), p[i].id = p[j].id PROVE i = j
  <2>1. PICK x \in I : p[i] = q[x] /\ Rank(I, x) = i
        BY <1>1
  <2>2. PICK y \in I : p[j] = q[y] /\ Rank(I, y) = j
        BY <1>1
  <2>3. x = y
        BY <1>4, <2>1, <2>2
  <2> QED BY <2>1, <2>2, <2>3
<1> QED BY <1>1, <1>2, <1>3, <1>4, <1>n DEF p

(* All of a sequence is a part of it. *)
LEMMA WholeSeq ==
  ASSUME NEW A, NEW q \in Seq(A)
  PROVE  AtIndexes(q, 1 .. Len(q)) = q
<1>n. PICK n \in Nat : n = Len(q) /\ 1 .. n \in SUBSET (1 .. Len(q))
      OBVIOUS
<1>1. Cardinality(1 .. n) = n
      BY FS_Interval
<1>2. PICK p \in Seq(A) : p = AtIndexes(q, 1 .. n) /\ Len(p) = n
      BY <1>1, <1>n, PartOfSeq
<1>3. \A m \in 1 .. n : Rank(1 .. n, m) = m
  <2> SUFFICES ASSUME NEW m \in 1 .. n PROVE Rank(1 .. n, m) = m
      OBVIOUS
  <2>1. {j \in 1 .. n : j <= m} = 1 .. m
        OBVIOUS
  <2>2. Cardinality(1 .. m) = m
    <3>1. m \in Nat
          OBVIOUS
    <3> QED BY <3>1, FS_Interval
  <2> QED BY <2>1, <2>2 DEF Rank
<1>4. \A m \in 1 .. n : p[m] = q[m]
  <2> SUFFICES ASSUME NEW m \in 1 .. n PROVE p[m] = q[m]
      OBVIOUS
  <2>1. \A i \in 1 .. n : AtIndexes(q, 1 .. n)[Rank(1 .. n, i)] = q[i]
        BY <1>n, PartOfSeq
  <2> QED BY <1>2, <1>3, <2>1
<1>5. p = q
      BY <1>2, <1>4, <1>n
<1> QED BY <1>2, <1>5, <1>n

(* Filtering as the receiver does it. *)
LEMMA ReceiverSelects ==
  \A s, I : M!AtIndexes(s, I) = AtIndexes(s, I)
BY DEF M!AtIndexes, AtIndexes, M!Cardinality, Cardinality, M!IsFiniteSet, IsFiniteSet

(* Numbers come round. *)
LEMMA NumbersComeRound ==
  ASSUME ReceiverConstants
  PROVE  /\ \A id \in Nat : id % IdSpace \in M!Numbers
         /\ \A id \in M!Numbers : id % IdSpace = id /\ id \in Nat /\ M!After(id) \in M!Numbers
         /\ \A id, last \in M!Numbers : M!Distance(id, last) \in Nat
<1>1. IdSpace \in Nat /\ IdSpace >= 2
      BY DEF ReceiverConstants
<1>2. \A id \in Nat : id % IdSpace \in 0 .. IdSpace - 1
      BY <1>1
<1>3. \A id \in 0 .. IdSpace - 1 : id % IdSpace = id /\ id \in Nat
      BY <1>1
<1>4. ASSUME NEW id \in 0 .. IdSpace - 1, NEW last \in 0 .. IdSpace - 1
      PROVE  (id + IdSpace - last) % IdSpace \in Nat
  <2>1. id + IdSpace - last \in Nat
        BY <1>1
  <2> QED BY <1>1, <1>2, <2>1
<1> QED BY <1>1, <1>2, <1>3, <1>4 DEF M!Numbers, M!After, M!Distance

(* A number of the pending access units is one of an access unit. *)
LEMMA PendingNumbers ==
  ASSUME NEW s, s.pending \in Seq(Waits), NEW id
  PROVE  /\ id \in M!Pending(s) <=> \E i \in 1 .. Len(s.pending) : s.pending[i].id = id
         /\ id \in M!Pending(s) => M!FrameAt(s, id) \in Frames /\ id \in M!Numbers /\ Len(s.pending) > 0
<1>0. PICK q \in Seq(Waits) : q = s.pending /\ Len(q) \in Nat /\ DOMAIN q = 1 .. Len(q)
      OBVIOUS
<1>1. id \in M!Pending(s) <=> \E i \in 1 .. Len(q) : q[i].id = id
      BY <1>0 DEF M!Pending, M!ToSet
<1>2. ASSUME id \in M!Pending(s) PROVE M!FrameAt(s, id) \in Frames /\ id \in M!Numbers /\ Len(q) > 0
  <2>1. PICK i \in 1 .. Len(q) : q[i].id = id
        BY <1>1, <1>2
  <2>2. q[i] \in M!ToSet(q) /\ q[i] \in Waits /\ \A w \in M!ToSet(q) : w \in Waits
        BY <1>0 DEF M!ToSet
  <2>3. PICK w : w = CHOOSE p \in M!ToSet(q) : p.id = id
        OBVIOUS
  <2>4. w \in M!ToSet(q) /\ w.id = id
        BY <2>1, <2>2, <2>3
  <2>5. M!FrameAt(s, id) = [id |-> w.id, key |-> w.key]
        BY <1>0, <2>3 DEF M!FrameAt, M!FrameOf
  <2>6. w \in Waits
        BY <2>2, <2>4
  <2> QED BY <1>0, <2>1, <2>2, <2>5, <2>6 DEF Waits, Frames
<1> QED BY <1>0, <1>1, <1>2

(* The access units in a row from a number on. *)
LEMMA RunIsPending ==
  ASSUME ReceiverConstants, NEW s, s.pending \in Seq(Waits), NEW id \in M!Numbers
  PROVE  /\ M!Run(s, id) \in 0 .. Len(s.pending)
         /\ \A i \in 0 .. M!Run(s, id) - 1 : (id + i) % IdSpace \in M!Pending(s)
         /\ id \in M!Pending(s) => M!Run(s, id) >= 1
<1>n. PICK n \in Nat : n = Len(s.pending)
      OBVIOUS
<1> DEFINE whole == {m \in 0 .. n : \A i \in 0 .. m - 1 : (id + i) % IdSpace \in M!Pending(s)}
<1>1. whole \in SUBSET (0 .. n) /\ 0 \in whole
      OBVIOUS
<1>2. \E x \in whole : \A y \in whole : y <= x
      BY <1>1, GreatestNumber
<1>3. M!Run(s, id) = CHOOSE x \in whole : \A y \in whole : y <= x
      BY <1>n DEF M!Run
<1>4. M!Run(s, id) \in whole /\ \A y \in whole : y <= M!Run(s, id)
      BY <1>2, <1>3
<1>5. id \in M!Pending(s) => M!Run(s, id) >= 1
  <2> SUFFICES ASSUME id \in M!Pending(s) PROVE 1 \in whole
      BY <1>4
  <2>1. n >= 1
        BY <1>n, PendingNumbers
  <2>2. (id + 0) % IdSpace = id
    <3>1. id \in Nat /\ id % IdSpace = id
          BY NumbersComeRound
    <3> QED BY <3>1
  <2>3. \A i \in 0 .. 1 - 1 : i = 0
        OBVIOUS
  <2> QED BY <2>1, <2>2, <2>3
<1> QED BY <1>4, <1>5, <1>n

(* Draining takes what it delivers out of the pending access units. *)
LEMMA DrainFromKeeps ==
  ASSUME ReceiverConstants, NEW s, Listed(s), NEW id \in M!Numbers
  PROVE  LET d == M!DrainFrom(s, id)
         IN /\ Listed(d.seq) /\ d.frames \in Seq(Frames)
            /\ d.seq.hold = s.hold /\ d.seq.reserved = s.reserved
            /\ Len(d.seq.pending) <= Len(s.pending)
            /\ d.frames # <<>> => d.seq.last # {} /\ Len(d.seq.pending) < Len(s.pending)
            /\ d.frames = <<>> => d.seq = s
            /\ id \in M!Pending(s) => d.frames # <<>>
            /\ s.last # {} => d.seq.last # {}
<1>0. s \in Sequencers /\ s.pending \in Seq(Waits)
      BY DEF Listed, Sequencers
<1>q. PICK q \in Seq(Waits) : q = s.pending /\ Len(q) \in Nat
      BY <1>0
<1>1. PICK n \in 0 .. Len(q) : /\ n = M!Run(s, id)
                               /\ \A i \in 0 .. n - 1 : (id + i) % IdSpace \in M!Pending(s)
                               /\ id \in M!Pending(s) => n >= 1
      BY <1>0, <1>q, RunIsPending
<1> DEFINE ids == [i \in 1 .. n |-> (id + i - 1) % IdSpace]
           I == {i \in 1 .. Len(q) : q[i].id \notin {ids[j] : j \in 1 .. n}}
           p == AtIndexes(q, I)
           fs == [i \in 1 .. n |-> M!FrameAt(s, ids[i])]
<1>2. \A i \in 1 .. n : ids[i] \in M!Pending(s) /\ ids[i] \in M!Numbers /\ fs[i] \in Frames
  <2> SUFFICES ASSUME NEW i \in 1 .. n
               PROVE  ids[i] \in M!Pending(s) /\ ids[i] \in M!Numbers /\ fs[i] \in Frames
      OBVIOUS
  <2>5. id \in Nat
        BY NumbersComeRound
  <2>1. i - 1 \in 0 .. n - 1 /\ id + (i - 1) = id + i - 1
        BY <1>1, <2>5
  <2>2. (id + (i - 1)) % IdSpace \in M!Pending(s)
        BY <1>1, <2>1
  <2>3. ids[i] \in M!Pending(s)
        BY <2>1, <2>2
  <2>4. M!FrameAt(s, ids[i]) \in Frames /\ ids[i] \in M!Numbers
    <3> HIDE DEF ids
    <3> QED BY <1>0, <2>3, PendingNumbers
  <2> QED BY <2>3, <2>4
<1>3. I \in SUBSET (1 .. Len(q))
      OBVIOUS
<1>4. \A i, j \in 1 .. Len(q) : q[i].id = q[j].id => i = j
      BY <1>q DEF Listed
<1> DEFINE l == IF n = 0 THEN s.last ELSE {ids[n]}
<1>5. M!DrainFrom(s, id) = [seq |-> [s EXCEPT !.pending = p, !.last = l], frames |-> fs]
  <2>1. M!ToSet(ids) = {ids[j] : j \in 1 .. n}
        BY DEF M!ToSet
  <2> QED BY <1>1, <1>q, <2>1, ReceiverSelects DEF M!DrainFrom, M!Selected
<1>6. n > 0 => I # 1 .. Len(q)
  <2> SUFFICES ASSUME n > 0 PROVE I # 1 .. Len(q)
      OBVIOUS
  <2>1. 1 \in 1 .. n
        BY <1>1
  <2>2. ids[1] \in M!Pending(s)
        BY <1>2, <2>1
  <2>3. PICK i \in 1 .. Len(s.pending) : s.pending[i].id = ids[1]
    <3> HIDE DEF ids
    <3> QED BY <1>0, <2>2, PendingNumbers
  <2>4. i \in 1 .. Len(q) /\ i \notin I
        BY <1>q, <2>1, <2>3
  <2> QED BY <2>4
<1>7. /\ p \in Seq(Waits) /\ Len(p) <= Len(q) /\ Len(p) \in Nat
      /\ n > 0 => Len(p) < Len(q)
      /\ \A i, j \in 1 .. Len(p) : p[i].id = p[j].id => i = j
  <2> HIDE DEF I
  <2> QED BY <1>3, <1>4, <1>6, PartIsApart
<1>8. fs \in Seq(Frames) /\ Len(fs) = n
      BY <1>1, <1>2
<1>9. l \in SUBSET M!Numbers /\ \A a, b \in l : a = b
  <2>1. n # 0 => ids[n] \in M!Numbers
        BY <1>1, <1>2
  <2>2. s.last \in SUBSET M!Numbers /\ \A a, b \in s.last : a = b
        BY DEF Listed, Sequencers
  <2> HIDE DEF ids
  <2> QED BY <2>1, <2>2
<1>10. n = 0 => p = q
  <2> SUFFICES ASSUME n = 0 PROVE p = q
      OBVIOUS
  <2>1. I = 1 .. Len(q)
        BY <1>1
  <2> HIDE DEF I, p
  <2>2. AtIndexes(q, 1 .. Len(q)) = q
        BY WholeSeq
  <2> QED BY <2>1, <2>2 DEF p
<1> HIDE DEF I, p, ids, fs, l
<1>11. PICK t : t = [s EXCEPT !.pending = p, !.last = l]
      OBVIOUS
<1>12. t \in Sequencers /\ t.pending = p /\ t.last = l /\ t.hold = s.hold /\ t.reserved = s.reserved
      BY <1>0, <1>7, <1>9, <1>11 DEF Sequencers
<1>13. Listed(t)
      BY <1>7, <1>9, <1>12 DEF Listed
<1>14. n = 0 => t = s
      BY <1>0, <1>10, <1>11, <1>q DEF l, Sequencers
<1>15. l # {} \/ n = 0
      BY DEF l
<1>16. fs # <<>> <=> n # 0
      BY <1>1, <1>8
<1>17. M!DrainFrom(s, id).seq = t /\ M!DrainFrom(s, id).frames = fs
      BY <1>5, <1>11
<1>18. /\ Len(t.pending) <= Len(s.pending)
       /\ fs # <<>> => t.last # {} /\ Len(t.pending) < Len(s.pending)
       /\ fs = <<>> => t = s
       /\ id \in M!Pending(s) => fs # <<>>
       /\ s.last # {} => t.last # {}
      BY <1>1, <1>7, <1>12, <1>14, <1>15, <1>16, <1>q
<1> QED BY <1>8, <1>12, <1>13, <1>17, <1>18

(* Past the hole, the access unit with the nearest number leaves. *)
LEMMA DrainNextKeeps ==
  ASSUME ReceiverConstants, NEW s, Listed(s), s.last # {}, Len(s.pending) > 0
  PROVE  LET d == M!DrainNext(s)
         IN /\ Listed(d.seq) /\ d.frames \in Seq(Frames)
            /\ Len(d.seq.pending) < Len(s.pending) /\ d.seq.last # {}
<1>0. s \in Sequencers /\ s.pending \in Seq(Waits) /\ s.last \in SUBSET M!Numbers /\ Len(s.pending) \in Nat
      BY DEF Listed, Sequencers
<1>1. PICK last \in M!Numbers : last = CHOOSE l \in s.last : TRUE
      BY <1>0
<1> DEFINE P == M!Pending(s)
           D == {M!Distance(o, last) : o \in P}
<1>2. P # {} /\ \A o \in P : o \in M!Numbers
  <2>1. 1 \in 1 .. Len(s.pending)
        BY <1>0
  <2>2. s.pending[1].id \in P
        BY <1>0, <2>1, PendingNumbers
  <2> QED BY <1>0, <2>2, PendingNumbers
<1>3. D \in SUBSET Nat /\ D # {}
      BY <1>2, NumbersComeRound
<1>4. PICK m \in D : \A y \in D : m <= y
      BY <1>3, LeastNumber
<1>5. \E id \in P : \A o \in P : M!Distance(id, last) <= M!Distance(o, last)
      BY <1>4
<1>6. PICK id : id = CHOOSE x \in P : \A o \in P : M!Distance(x, last) <= M!Distance(o, last)
      OBVIOUS
<1>7. id \in P /\ id \in M!Numbers
      BY <1>2, <1>5, <1>6
<1>8. M!DrainNext(s) = M!DrainFrom(s, id)
      BY <1>1, <1>6 DEF M!DrainNext
<1> QED BY <1>7, <1>8, DrainFromKeeps

(* What is overdue leaves. *)
LEMMA DrainExpiredKeeps ==
  ASSUME ReceiverConstants, NEW s, Sequenced(s)
  PROVE  Sequenced(M!DrainExpired(s).seq) /\ M!DrainExpired(s).frames \in Seq(Frames)
<1>0. s \in Sequencers /\ s.pending \in Seq(Waits) /\ Len(s.pending) \in Nat /\ Listed(s)
      BY DEF Sequenced, Sequencers, Listed
<1>1. CASE s.last # {} /\ M!ExpiryDue(s)
  <2>1. Len(s.pending) > 0
    <3>1. PICK p \in M!ToSet(s.pending) : TRUE
          BY <1>1 DEF M!ExpiryDue
    <3>2. PICK i \in 1 .. Len(s.pending) : TRUE
          BY <1>0, <3>1 DEF M!ToSet
    <3> QED BY <1>0, <3>2
  <2>2. PICK d : d = M!DrainNext(s)
        OBVIOUS
  <2>3. Listed(d.seq) /\ d.frames \in Seq(Frames) /\ Len(d.seq.pending) < Len(s.pending) /\ d.seq.last # {}
        BY <1>0, <1>1, <2>1, <2>2, DrainNextKeeps
  <2>4. Len(d.seq.pending) \in Nat
        BY <2>3 DEF Listed, Sequencers
  <2>5. Len(s.pending) <= 2 * MaxReorder - 1
        BY <1>1 DEF Sequenced
  <2>6. Len(d.seq.pending) <= 2 * MaxReorder - 1
        BY <1>0, <2>3, <2>4, <2>5 DEF ReceiverConstants
  <2>7. Sequenced(d.seq)
        BY <2>3, <2>6 DEF Sequenced, Listed
  <2> QED BY <1>1, <2>2, <2>3, <2>7 DEF M!DrainExpired
<1>2. CASE ~(s.last # {} /\ M!ExpiryDue(s))
  <2>1. M!DrainExpired(s) = [seq |-> s, frames |-> <<>>]
        BY <1>2 DEF M!DrainExpired, M!Nothing
  <2>2. <<>> \in Seq(Frames)
        OBVIOUS
  <2> QED BY <2>1, <2>2
<1> QED BY <1>1, <1>2

(* What changes no number and nothing pending. *)
LEMMA HoldsAreFree ==
  ASSUME NEW s, Sequenced(s), NEW t \in Sequencers, t.last = s.last, t.pending = s.pending
  PROVE  Sequenced(t)
BY DEF Sequenced

(* Holding longer, releasing and configuring the grace. *)
LEMMA HoldingKeeps ==
  ASSUME ReceiverConstants, NEW s, Sequenced(s)
  PROVE  /\ \A h \in SUBSET Nat : Sequenced([s EXCEPT !.hold = h])
         /\ Sequenced(M!Released(s)) /\ M!Released(s).last = s.last
         /\ \A b \in BOOLEAN : Sequenced(M!ConfigureGrace(s, b)) /\ Sequenced([M!Released(s) EXCEPT !.grace = b])
         /\ Sequenced(M!Cleared(s))
<1>0. s \in Sequencers
      BY DEF Sequenced
<1>1. ASSUME NEW h \in SUBSET Nat PROVE Sequenced([s EXCEPT !.hold = h])
  <2>1. [s EXCEPT !.hold = h] \in Sequencers /\ [s EXCEPT !.hold = h].last = s.last
        /\ [s EXCEPT !.hold = h].pending = s.pending
        BY <1>0 DEF Sequencers
  <2> QED BY <2>1, HoldsAreFree
<1>2. PICK r : r = M!Released(s)
      OBVIOUS
<1>3. r \in Sequencers /\ r.last = s.last /\ r.pending = s.pending
      BY <1>0, <1>2 DEF M!Released, Sequencers
<1>4. ASSUME NEW b \in BOOLEAN, NEW t \in {r, s} PROVE Sequenced([t EXCEPT !.grace = b])
  <2>1. t \in Sequencers /\ t.last = s.last /\ t.pending = s.pending
        BY <1>0, <1>3
  <2>2. [t EXCEPT !.grace = b] \in Sequencers /\ [t EXCEPT !.grace = b].last = s.last
        /\ [t EXCEPT !.grace = b].pending = s.pending
        BY <2>1 DEF Sequencers
  <2> QED BY <2>2, HoldsAreFree
<1>5. ASSUME NEW b \in BOOLEAN PROVE Sequenced(M!ConfigureGrace(s, b))
  <2>1. M!ConfigureGrace(s, b) = (IF b THEN [s EXCEPT !.grace = TRUE] ELSE [r EXCEPT !.grace = FALSE])
        BY <1>2 DEF M!ConfigureGrace
  <2>2. Sequenced([s EXCEPT !.grace = TRUE]) /\ Sequenced([r EXCEPT !.grace = FALSE])
        BY <1>4, Zenon
  <2> QED BY <2>1, <2>2
<1>6. Sequenced(M!Cleared(s))
  <2>1. PICK e : e = <<>>
        OBVIOUS
  <2>2. e \in Seq(Waits) /\ Len(e) = 0
        BY <2>1
  <2>3. PICK t : t = [last |-> {}, pending |-> e, hold |-> {}, grace |-> s.grace, reserved |-> {}]
        OBVIOUS
  <2>7. PICK i : i = [last |-> {}, pending |-> e, hold |-> {}, grace |-> FALSE, reserved |-> {}]
        OBVIOUS
  <2>8. M!Idle = i
        BY <2>1, <2>7 DEF M!Idle
  <2>9. [i EXCEPT !.grace = s.grace] = t
        BY <2>3, <2>7
  <2>4. M!Cleared(s) = t
        BY <2>8, <2>9 DEF M!Cleared
  <2>5. t \in Sequencers /\ t.last = {} /\ t.pending = e
        BY <1>0, <2>2, <2>3 DEF Sequencers
  <2>6. Sequenced(t)
        BY <2>2, <2>5 DEF Sequenced, ReceiverConstants
  <2> QED BY <2>4, <2>6
<1>7. Sequenced(r)
      BY <1>3, HoldsAreFree
<1> QED BY <1>1, <1>2, <1>3, <1>4, <1>5, <1>6, <1>7

(* Reserving time for a hole. *)
LEMMA ReserveKeeps ==
  ASSUME ReceiverConstants, NEW s, Sequenced(s), NEW f, NEW missing
  PROVE  Sequenced(M!Reserve(s, f, missing)) /\ M!Reserve(s, f, missing).last = s.last
<1>0. s \in Sequencers /\ s.last \in SUBSET M!Numbers
      BY DEF Sequenced, Sequencers
<1>1. PICK last : last = CHOOSE l \in s.last : TRUE
      OBVIOUS
<1>2. PICK hole : hole = M!After(last)
      OBVIOUS
<1>3. PICK moved : moved = IF \E r \in s.reserved : r.id # hole THEN M!Released(s) ELSE s
      OBVIOUS
<1>4. Sequenced(moved) /\ moved.last = s.last /\ moved \in Sequencers
      BY <1>3, HoldingKeeps DEF Sequenced
<1>5. PICK left \in Nat : left = IF moved.hold = {} THEN Grace ELSE CHOOSE h \in moved.hold : TRUE
  <2>1. moved.hold \in SUBSET Nat /\ Grace \in Nat
        BY <1>4 DEF Sequencers, ReceiverConstants
  <2> QED BY <2>1
<1>6. PICK t : t = [moved EXCEPT !.reserved = {[id |-> hole, left |-> left]}, !.hold = {left}]
      OBVIOUS
<1>7. M!Reserve(s, f, missing) \in {s, moved} \/ (s.last # {} /\ M!Reserve(s, f, missing) = t)
      BY <1>1, <1>2, <1>3, <1>5, <1>6 DEF M!Reserve
<1>8. ASSUME s.last # {} PROVE Sequenced(t) /\ t.last = s.last
  <2>1. hole \in M!Numbers
        BY <1>0, <1>1, <1>2, <1>8, NumbersComeRound
  <2>2. {[id |-> hole, left |-> left]} \in SUBSET Timed /\ {left} \in SUBSET Nat
        BY <2>1 DEF Timed
  <2>3. PICK a \in SUBSET Timed, b \in SUBSET Nat : a = {[id |-> hole, left |-> left]} /\ b = {left}
        BY <2>2
  <2>4. t \in Sequencers /\ t.last = moved.last /\ t.pending = moved.pending
        BY <1>4, <1>6, <2>3 DEF Sequencers
  <2> QED BY <1>4, <2>4, HoldsAreFree
<1> QED BY <1>4, <1>7, <1>8

(* What a push into a sequencer leaves and delivers. *)
PushKept(d) == Sequenced(d.seq) /\ d.frames \in Seq(Frames) /\ d = [seq |-> d.seq, frames |-> d.frames]

(* Nothing delivered. *)
LEMMA NothingKept ==
  ASSUME NEW s, Sequenced(s)
  PROVE  PushKept(M!Nothing(s))
<1>1. <<>> \in Seq(Frames)
      OBVIOUS
<1>2. PICK e \in Seq(Frames) : e = <<>>
      BY <1>1
<1>3. M!Nothing(s) = [seq |-> s, frames |-> e]
      BY <1>2 DEF M!Nothing
<1> QED BY <1>3 DEF PushKept

(* What a drain from a sequencer that may be too full leaves. *)
LEMMA DrainedIsKept ==
  ASSUME ReceiverConstants, NEW d, Listed(d.seq), d.frames \in Seq(Frames), d.seq.last # {},
         d = [seq |-> d.seq, frames |-> d.frames], Len(d.seq.pending) < 2 * MaxReorder
  PROVE  PushKept(d)
<1>1. Len(d.seq.pending) \in Nat
      BY DEF Listed, Sequencers
<1>3. PICK m \in Nat : m = MaxReorder /\ Len(d.seq.pending) < 2 * m
      BY DEF ReceiverConstants
<1>4. \A x \in Nat : x < 2 * m => x <= 2 * m - 1
      OBVIOUS
<1>2. Len(d.seq.pending) <= 2 * MaxReorder - 1
      BY <1>1, <1>3, <1>4
<1> QED BY <1>2 DEF PushKept, Sequenced, Listed

(* One more pending access unit, of a number that is not pending. *)
LEMMA OneMorePending ==
  ASSUME NEW s, Listed(s), NEW f \in Frames, f.id \notin M!Pending(s)
  PROVE  LET t == [s EXCEPT !.pending = Append(@, M!Waiting(f))]
         IN Listed(t) /\ Len(t.pending) = Len(s.pending) + 1 /\ t.last = s.last
<1>0. s \in Sequencers
      BY DEF Listed
<1>1. PICK q \in Seq(Waits) : q = s.pending /\ Len(q) \in Nat
      BY <1>0 DEF Sequencers
<1>11. PICK w : w = M!Waiting(f)
      OBVIOUS
<1>12. w = [id |-> f.id, key |-> f.key, waited |-> FALSE] /\ f.id \in M!Numbers /\ f.key \in BOOLEAN
      BY <1>11 DEF M!Waiting, Frames
<1>2. w \in Waits /\ w = M!Waiting(f) /\ w.id = f.id
      BY <1>11, <1>12 DEF Waits
<1>3. Append(q, w) \in Seq(Waits) /\ Len(Append(q, w)) = Len(q) + 1
      /\ (\A i \in 1 .. Len(q) : Append(q, w)[i] = q[i]) /\ Append(q, w)[Len(q) + 1] = w
      BY <1>1, <1>2
<1>4. PICK p \in Seq(Waits) : p = Append(q, w)
      BY <1>3
<1>5. \A i \in 1 .. Len(q) : q[i].id # w.id
      BY <1>0, <1>1, <1>2, PendingNumbers DEF Sequencers
<1>6. \A i, j \in 1 .. Len(p) : p[i].id = p[j].id => i = j
  <2> SUFFICES ASSUME NEW i \in 1 .. Len(p), NEW j \in 1 .. Len(p), p[i].id = p[j].id PROVE i = j
      OBVIOUS
  <2>1. \A x, y \in 1 .. Len(q) : q[x].id = q[y].id => x = y
        BY <1>1 DEF Listed
  <2>2. /\ i \in 1 .. Len(q) \/ i = Len(q) + 1
        /\ j \in 1 .. Len(q) \/ j = Len(q) + 1
        BY <1>1, <1>3, <1>4
  <2> QED BY <1>1, <1>3, <1>4, <1>5, <2>1, <2>2
<1>7. PICK t : t = [s EXCEPT !.pending = p]
      OBVIOUS
<1>8. t \in Sequencers /\ t.pending = p /\ t.last = s.last
      BY <1>0, <1>7 DEF Sequencers
<1>9. Listed(t)
      BY <1>6, <1>8 DEF Listed
<1>10. [s EXCEPT !.pending = Append(@, M!Waiting(f))] = t
      BY <1>1, <1>2, <1>4, <1>7
<1> QED BY <1>1, <1>3, <1>4, <1>8, <1>9, <1>10

(* A keyframe starts an epoch, with what follows it. *)
LEMMA BeginEpochKeeps ==
  ASSUME ReceiverConstants, NEW s, Sequenced(s), s.last = {}, NEW f \in Frames
  PROVE  PushKept(M!BeginEpoch(s, f))
<1>0. s \in Sequencers /\ s.pending \in Seq(Waits) /\ Len(s.pending) \in Nat /\ f.id \in M!Numbers
      BY DEF Sequenced, Sequencers, Frames
<1>1. PICK kept : kept = {(f.id + i) % IdSpace : i \in 1 .. M!Run(s, M!After(f.id))}
      OBVIOUS
<1>2. PICK q \in Seq(Waits) : q = s.pending
      BY <1>0
<1> DEFINE I == {i \in 1 .. Len(q) : q[i].id \in kept}
           p == AtIndexes(q, I)
<1>3. I \in SUBSET (1 .. Len(q)) /\ \A i, j \in 1 .. Len(q) : q[i].id = q[j].id => i = j
      BY <1>2 DEF Sequenced
<1> HIDE DEF I
<1>4. /\ p \in Seq(Waits) /\ Len(p) <= Len(q) /\ Len(p) \in Nat
      /\ \A i, j \in 1 .. Len(p) : p[i].id = p[j].id => i = j
      BY <1>3, PartIsApart
<1> HIDE DEF p
<1>5. PICK l \in SUBSET M!Numbers : l = {f.id}
      BY <1>0
<1>6. PICK t : t = [s EXCEPT !.last = l, !.pending = p]
      OBVIOUS
<1>7. t \in Sequencers /\ t.last = l /\ t.pending = p
      BY <1>0, <1>4, <1>6 DEF Sequencers
<1>8. Listed(t)
      BY <1>4, <1>5, <1>7 DEF Listed
<1>9. PICK id \in M!Numbers : id = M!After(f.id)
      BY <1>0, NumbersComeRound
<1>10. PICK d : d = M!DrainFrom(t, id)
      OBVIOUS
<1>11. /\ Listed(d.seq) /\ d.frames \in Seq(Frames) /\ Len(d.seq.pending) <= Len(t.pending) /\ d.seq.last # {}
  <2>1. t.last # {}
        BY <1>5, <1>7
  <2> QED BY <1>8, <1>10, <2>1, DrainFromKeeps
<1>12. PICK a \in Seq(Frames) : a = <<f>> \o d.frames
  <2>1. <<f>> \in Seq(Frames)
        OBVIOUS
  <2>2. <<f>> \o d.frames \in Seq(Frames)
        BY <1>11, <2>1
  <2> QED BY <2>2
<1>13. M!BeginEpoch(s, f) = [d EXCEPT !.frames = a]
      BY <1>1, <1>2, <1>5, <1>6, <1>9, <1>10, <1>12, ReceiverSelects DEF M!BeginEpoch, M!Selected, I, p
<1>14. d = [seq |-> d.seq, frames |-> d.frames]
      BY <1>10 DEF M!DrainFrom
<1>15. PICK g : g = [seq |-> d.seq, frames |-> a]
      OBVIOUS
<1>16. [d EXCEPT !.frames = a] = g
      BY <1>14, <1>15
<1>17. Len(d.seq.pending) < 2 * MaxReorder
  <2>1. Len(q) <= MaxReorder
        BY <1>2 DEF Sequenced
  <2>2. Len(d.seq.pending) \in Nat
        BY <1>11 DEF Listed, Sequencers
  <2> QED BY <1>0, <1>2, <1>4, <1>7, <1>11, <2>1, <2>2 DEF ReceiverConstants
<1>18. PushKept(g)
      BY <1>11, <1>15, <1>17, DrainedIsKept
<1> QED BY <1>13, <1>16, <1>18

(* Before an epoch, the oldest access unit makes room. *)
LEMMA PushBeforeKeeps ==
  ASSUME ReceiverConstants, NEW s, Sequenced(s), s.last = {}, NEW f \in Frames
  PROVE  PushKept(M!PushBeforeEpoch(s, f))
<1>0. Listed(s) /\ s \in Sequencers /\ s.pending \in Seq(Waits) /\ Len(s.pending) \in Nat
      BY DEF Sequenced, Sequencers, Listed
<1>1. CASE f.key
      BY <1>1, BeginEpochKeeps DEF M!PushBeforeEpoch
<1>2. CASE ~f.key /\ f.id \in M!Pending(s)
      BY <1>2, NothingKept DEF M!PushBeforeEpoch
<1>3. CASE ~f.key /\ f.id \notin M!Pending(s)
  <2>1. PICK q \in Seq(Waits) : q = s.pending
        BY <1>0
  <2>2. PICK p : p = IF Len(q) >= MaxReorder THEN Tail(q) ELSE q
        OBVIOUS
  <2>3. PICK t : t = [s EXCEPT !.pending = p]
        OBVIOUS
  <2>4. Len(q) <= MaxReorder /\ MaxReorder \in Nat /\ MaxReorder >= 1
        BY <2>1 DEF Sequenced, ReceiverConstants
  <2>5. p \in Seq(Waits) /\ Len(p) \in Nat /\ Len(p) + 1 <= MaxReorder
        /\ \E c \in {0, 1} : \A i \in 1 .. Len(p) : i + c \in 1 .. Len(q) /\ p[i] = q[i + c]
    <3>1. CASE Len(q) >= MaxReorder
      <4>1. q # <<>> /\ p = Tail(q)
            BY <2>2, <2>4, <3>1
      <4>2. p \in Seq(Waits) /\ Len(p) = Len(q) - 1 /\ Len(q) \in Nat /\ \A i \in 1 .. Len(q) - 1 : p[i] = q[i + 1]
            BY <4>1, HeadAndTail
      <4>3. \A i \in 1 .. Len(p) : i + 1 \in 1 .. Len(q) /\ p[i] = q[i + 1]
            BY <4>2
      <4>4. Len(p) \in Nat /\ Len(p) + 1 <= MaxReorder
            BY <2>4, <4>2
      <4> QED BY <4>2, <4>3, <4>4
    <3>2. CASE ~(Len(q) >= MaxReorder)
      <4>1. p = q /\ Len(q) \in Nat
            BY <2>2, <3>2
      <4>2. \A i \in 1 .. Len(p) : i + 0 \in 1 .. Len(q) /\ p[i] = q[i + 0]
            BY <4>1
      <4>3. Len(p) + 1 <= MaxReorder
            BY <2>4, <3>2, <4>1
      <4> QED BY <4>1, <4>2, <4>3
    <3> QED BY <3>1, <3>2
  <2>6. PICK c \in {0, 1} : \A i \in 1 .. Len(p) : i + c \in 1 .. Len(q) /\ p[i] = q[i + c]
        BY <2>5
  <2>7. \A i, j \in 1 .. Len(p) : p[i].id = p[j].id => i = j
    <3> SUFFICES ASSUME NEW i \in 1 .. Len(p), NEW j \in 1 .. Len(p), p[i].id = p[j].id PROVE i = j
        OBVIOUS
    <3>1. \A x, y \in 1 .. Len(q) : q[x].id = q[y].id => x = y
          BY <2>1 DEF Sequenced
    <3>2. PICK x \in 1 .. Len(q) : x = i + c /\ p[i] = q[x]
          BY <2>6
    <3>3. PICK y \in 1 .. Len(q) : y = j + c /\ p[j] = q[y]
          BY <2>6
    <3>4. x = y
          BY <3>1, <3>2, <3>3
    <3> QED BY <3>2, <3>3, <3>4
  <2>8. t \in Sequencers /\ t.pending = p /\ t.last = {}
        BY <1>0, <2>3, <2>5 DEF Sequencers
  <2>9. Listed(t)
        BY <2>7, <2>8 DEF Listed
  <2>10. f.id \notin M!Pending(t)
    <3> SUFFICES ASSUME f.id \in M!Pending(t) PROVE FALSE
        OBVIOUS
    <3>0. t.pending \in Seq(Waits)
          BY <2>5, <2>8
    <3>4. \E i \in 1 .. Len(t.pending) : t.pending[i].id = f.id
          BY <3>0, PendingNumbers
    <3>1. PICK i \in 1 .. Len(p) : p[i].id = f.id
          BY <2>8, <3>4
    <3>2. PICK x \in 1 .. Len(q) : p[i] = q[x]
          BY <2>6
    <3> QED BY <1>0, <1>3, <2>1, <3>1, <3>2, PendingNumbers
  <2>11. PICK u : u = [t EXCEPT !.pending = Append(@, M!Waiting(f))]
        OBVIOUS
  <2>12. Listed(u) /\ Len(u.pending) = Len(p) + 1 /\ u.last = {}
        BY <2>8, <2>9, <2>10, <2>11, OneMorePending
  <2>13. Sequenced(u)
    <3>1. Len(u.pending) <= MaxReorder
          BY <2>5, <2>12
    <3> QED BY <2>12, <3>1 DEF Sequenced, Listed
  <2>14. [s EXCEPT !.pending = Append(IF Len(@) >= MaxReorder THEN Tail(@) ELSE @, M!Waiting(f))] = u
        BY <1>0, <2>1, <2>2, <2>3, <2>11 DEF Sequencers
  <2>15. M!PushBeforeEpoch(s, f) = M!Nothing(u)
        BY <1>3, <2>14 DEF M!PushBeforeEpoch
  <2> QED BY <2>13, <2>15, NothingKept
<1> QED BY <1>1, <1>2, <1>3

(* In an epoch, what is too much leaves past the hole. *)
LEMMA PushAfterKeeps ==
  ASSUME ReceiverConstants, NEW s, Sequenced(s), NEW last \in M!Numbers, s.last # {}, NEW f \in Frames
  PROVE  PushKept(M!PushAfter(s, f, last))
<1>0. Listed(s) /\ s \in Sequencers /\ s.pending \in Seq(Waits) /\ Len(s.pending) \in Nat
      /\ Len(s.pending) <= 2 * MaxReorder - 1 /\ MaxReorder \in Nat /\ MaxReorder >= 1
      BY DEF Sequenced, Sequencers, Listed, ReceiverConstants
<1>1. CASE ~M!Ahead(f.id, last)
      BY <1>1, NothingKept DEF M!PushAfter
<1>2. CASE M!Ahead(f.id, last)
  <2>1. PICK put : put = IF f.id \in M!Pending(s) THEN s
                         ELSE [s EXCEPT !.pending = Append(@, M!Waiting(f))]
        OBVIOUS
  <2>2. Listed(put) /\ put.last = s.last /\ put.last # {} /\ Len(put.pending) \in Nat
        /\ Len(put.pending) <= 2 * MaxReorder
        /\ (Len(put.pending) = 2 * MaxReorder => put # s)
    <3>1. CASE f.id \in M!Pending(s)
          BY <1>0, <2>1, <3>1
    <3>2. CASE f.id \notin M!Pending(s)
      <4>1. Listed(put) /\ Len(put.pending) = Len(s.pending) + 1 /\ put.last = s.last
            BY <1>0, <2>1, <3>2, OneMorePending
      <4>2. Len(put.pending) # Len(s.pending)
            BY <1>0, <4>1
      <4> QED BY <1>0, <4>1, <4>2
    <3> QED BY <3>1, <3>2
  <2>3. PICK id \in M!Numbers : id = M!After(last)
        BY NumbersComeRound
  <2>4. PICK ready : ready = M!DrainFrom(put, id)
        OBVIOUS
  <2>5. /\ Listed(ready.seq) /\ ready.frames \in Seq(Frames)
        /\ ready.frames # <<>> => ready.seq.last # {} /\ Len(ready.seq.pending) < Len(put.pending)
        BY <2>2, <2>4, DrainFromKeeps
  <2>6. PICK next : next = M!DrainNext(put)
        OBVIOUS
  <2>7. M!PushAfter(s, f, last) =
          IF ready.frames # <<>> THEN ready
          ELSE IF M!ExpiryDue(put) \/ Len(put.pending) >= M!FlushThreshold(put) THEN next ELSE M!Nothing(put)
        BY <1>2, <2>1, <2>3, <2>4, <2>6 DEF M!PushAfter
  <2>8. ASSUME ready.frames # <<>> PROVE PushKept(ready)
    <3>1. ready = [seq |-> ready.seq, frames |-> ready.frames]
          BY <2>4 DEF M!DrainFrom
    <3>2. Len(ready.seq.pending) \in Nat
          BY <2>5 DEF Listed, Sequencers
    <3>3. Len(ready.seq.pending) < 2 * MaxReorder
          BY <1>0, <2>2, <2>5, <2>8, <3>2
    <3> QED BY <2>5, <2>8, <3>1, <3>3, DrainedIsKept
  <2>9. ASSUME M!ExpiryDue(put) \/ Len(put.pending) >= M!FlushThreshold(put) PROVE PushKept(next)
    <3>1. Len(put.pending) > 0
      <4>1. CASE M!ExpiryDue(put)
        <5>1. PICK p \in M!ToSet(put.pending) : TRUE
              BY <4>1 DEF M!ExpiryDue
        <5>2. put.pending \in Seq(Waits)
              BY <2>2 DEF Listed, Sequencers
        <5>3. PICK i \in 1 .. Len(put.pending) : TRUE
              BY <5>1, <5>2 DEF M!ToSet
        <5> QED BY <2>2, <5>3
      <4>2. CASE Len(put.pending) >= M!FlushThreshold(put)
        <5>1. M!FlushThreshold(put) \in {2 * MaxReorder, MaxReorder}
              BY DEF M!FlushThreshold, M!MaxHeld
        <5> QED BY <1>0, <2>2, <4>2, <5>1
      <4> QED BY <2>9, <4>1, <4>2
    <3>2. Listed(next.seq) /\ next.frames \in Seq(Frames) /\ Len(next.seq.pending) < Len(put.pending)
          /\ next.seq.last # {}
          BY <2>2, <2>6, <3>1, DrainNextKeeps
    <3>3. next = [seq |-> next.seq, frames |-> next.frames]
          BY <2>6 DEF M!DrainNext, M!DrainFrom
    <3>4. Len(next.seq.pending) \in Nat
          BY <3>2 DEF Listed, Sequencers
    <3>5. Len(next.seq.pending) < 2 * MaxReorder
          BY <1>0, <2>2, <3>2, <3>4
    <3> QED BY <3>2, <3>3, <3>5, DrainedIsKept
  <2>10. ASSUME ~(Len(put.pending) >= M!FlushThreshold(put)) PROVE PushKept(M!Nothing(put))
    <3>1. M!FlushThreshold(put) \in {2 * MaxReorder, MaxReorder}
          BY DEF M!FlushThreshold, M!MaxHeld
    <3>2. Len(put.pending) <= 2 * MaxReorder - 1
          BY <1>0, <2>2, <2>10, <3>1
    <3>3. Sequenced(put)
          BY <2>2, <3>2 DEF Sequenced, Listed
    <3> QED BY <3>3, NothingKept
  <2> QED BY <2>7, <2>8, <2>9, <2>10
<1> QED BY <1>1, <1>2

(* A completed access unit is delivered, or waits, or is too late. *)
LEMMA PushReassembledKeeps ==
  ASSUME ReceiverConstants, NEW s, Sequenced(s), NEW f \in Frames, NEW missing
  PROVE  Sequenced(M!PushReassembled(s, f, missing).seq) /\ M!PushReassembled(s, f, missing).frames \in Seq(Frames)
<1>1. PICK t : t = M!Reserve(s, f, missing)
      OBVIOUS
<1>2. Sequenced(t)
      BY <1>1, ReserveKeeps
<1>3. PICK d : d = M!PushFrame(t, f)
      OBVIOUS
<1>4. PushKept(d)
  <2>1. CASE t.last = {}
        BY <1>2, <1>3, <2>1, PushBeforeKeeps DEF M!PushFrame
  <2>2. CASE t.last # {}
    <3>1. t.last \in SUBSET M!Numbers
          BY <1>2 DEF Sequenced, Sequencers
    <3>2. PICK last \in M!Numbers : last = CHOOSE l \in t.last : TRUE
          BY <2>2, <3>1
    <3>3. d = M!PushAfter(t, f, last)
          BY <1>3, <2>2, <3>2 DEF M!PushFrame
    <3> QED BY <1>2, <2>2, <3>3, PushAfterKeeps
  <2> QED BY <2>1, <2>2
<1>5. PICK u : u = IF \E r \in d.seq.reserved : r.id \notin M!BlockedHole(d.seq) THEN M!Released(d.seq) ELSE d.seq
      OBVIOUS
<1>6. Sequenced(u)
      BY <1>4, <1>5, HoldingKeeps DEF PushKept
<1>7. M!PushReassembled(s, f, missing) = [d EXCEPT !.seq = u]
      BY <1>1, <1>3, <1>4, <1>5 DEF M!PushReassembled, PushKept
<1>8. [d EXCEPT !.seq = u].seq = u /\ [d EXCEPT !.seq = u].frames = d.frames
      BY <1>4 DEF PushKept
<1> QED BY <1>4, <1>6, <1>7, <1>8 DEF PushKept

(* What a tick of the requester leaves and asks for. *)
TickKept(r, s) ==
  /\ Sequenced(r.seq) /\ r.seq.last = s.last
  /\ r.nack \in Requesters /\ r.asks \subseteq Nacks

(* Shards that are asked for. *)
LEMMA AsksAreNacks ==
  ASSUME NEW hole \in M!Numbers, NEW shards \in SUBSET (1 .. K), shards # {}
  PROVE  M!Ask(hole, shards) \subseteq Nacks
<1>1. PICK m : m = [kind |-> "nack", id |-> hole, shards |-> shards]
      OBVIOUS
<1>2. m \in Nacks
      BY <1>1 DEF Nacks
<1> QED BY <1>1, <1>2 DEF M!Ask

(* The open request, and the one that follows a probe. *)
LEMMA FollowUpKeeps ==
  ASSUME ReceiverConstants, NEW s, Sequenced(s), NEW n \in Requesters, NEW hole \in M!Numbers, NEW left \in Nat,
         NEW missing, missing[hole] \in SUBSET SUBSET (1 .. K)
  PROVE  TickKept(M!FollowUp(s, n, hole, left, missing), s)
<1>1. PICK held : held = [s EXCEPT !.hold = {left}]
      OBVIOUS
<1>2. Sequenced(held) /\ held.last = s.last
  <2>1. {left} \in SUBSET Nat
        OBVIOUS
  <2>2. Sequenced(held)
        BY <1>1, <2>1, HoldingKeeps
  <2>3. s \in Sequencers
        BY DEF Sequenced
  <2> QED BY <1>1, <2>2, <2>3 DEF Sequencers
<1>3. PICK rest \in SUBSET SUBSET (1 .. K) : rest = {m \in missing[hole] : n.probe /\ m # {}}
      OBVIOUS
<1>4. PICK u : u = UNION rest
      OBVIOUS
<1>5. rest # {} => u \in SUBSET (1 .. K) /\ u # {}
  <2> SUFFICES ASSUME rest # {} PROVE u \in SUBSET (1 .. K) /\ u # {}
      OBVIOUS
  <2>1. PICK m \in rest : m # {}
        BY <1>3
  <2>2. m \subseteq u /\ u \subseteq 1 .. K
        BY <1>4
  <2> QED BY <2>1, <2>2
<1>6. PICK p : p = [n EXCEPT !.probe = FALSE]
      OBVIOUS
<1>7. p \in Requesters
      BY <1>6 DEF Requesters
<1>8. PICK r : r = M!FollowUp(s, n, hole, left, missing)
      OBVIOUS
<1>9. \/ r = [seq |-> held, nack |-> n, asks |-> {}]
      \/ rest # {} /\ r = [seq |-> held, nack |-> p, asks |-> M!Ask(hole, u)]
      BY <1>1, <1>3, <1>4, <1>6, <1>8 DEF M!FollowUp
<1>10. CASE r = [seq |-> held, nack |-> n, asks |-> {}]
  <2>1. r.seq = held /\ r.nack = n /\ r.asks = {}
        BY <1>10
  <2> QED BY <1>2, <1>8, <2>1 DEF TickKept
<1>11. CASE rest # {} /\ r = [seq |-> held, nack |-> p, asks |-> M!Ask(hole, u)]
  <2>1. r.seq = held /\ r.nack = p /\ r.asks = M!Ask(hole, u)
        BY <1>11
  <2>2. M!Ask(hole, u) \subseteq Nacks
        BY <1>5, <1>11, AsksAreNacks
  <2> QED BY <1>2, <1>7, <1>8, <2>1, <2>2 DEF TickKept
<1> QED BY <1>9, <1>10, <1>11

(* The first request of a hole. *)
LEMMA ArmKeeps ==
  ASSUME ReceiverConstants, NEW s, Sequenced(s), NEW n \in Requesters, NEW hole \in M!Numbers,
         NEW missing, missing[hole] \in SUBSET SUBSET (1 .. K)
  PROVE  TickKept(M!Arm(s, n, hole, missing, 1 .. K), s)
<1>0. s \in Sequencers
      BY DEF Sequenced
<1>1. PICK known \in SUBSET SUBSET (1 .. K) : known = missing[hole]
      OBVIOUS
<1>2. PICK left \in Nat :
        left = LET lefts == {r.left : r \in {q \in s.reserved : q.id = hole}}
               IN IF lefts = {} THEN Grace ELSE CHOOSE l \in lefts : TRUE
  <2>1. {r.left : r \in {q \in s.reserved : q.id = hole}} \in SUBSET Nat
    <3>1. s.reserved \in SUBSET Timed
          BY <1>0 DEF Sequencers
    <3> QED BY <3>1 DEF Timed
  <2>2. Grace \in Nat
        BY DEF ReceiverConstants
  <2> QED BY <2>1, <2>2
<1>3. PICK b \in BOOLEAN : b = (known = {})
      OBVIOUS
<1>4. PICK tried : tried = [n EXCEPT !.attempted = {hole}, !.probe = b]
      OBVIOUS
<1>5. PICK armed : armed = [tried EXCEPT !.armed = {[id |-> hole, left |-> left]}]
      OBVIOUS
<1>6. PICK none : none = [n EXCEPT !.attempted = {}]
      OBVIOUS
<1>7. tried \in Requesters /\ armed \in Requesters /\ none \in Requesters
  <2>1. {hole} \in SUBSET M!Numbers /\ {[id |-> hole, left |-> left]} \in SUBSET Timed
        /\ {} \in SUBSET M!Numbers
        BY DEF Timed
  <2>2. tried \in Requesters
        BY <1>4, <2>1 DEF Requesters
  <2>3. PICK a \in SUBSET Timed : a = {[id |-> hole, left |-> left]}
        BY <2>1
  <2>4. armed \in Requesters
        BY <1>5, <2>2, <2>3 DEF Requesters
  <2>5. none \in Requesters
        BY <1>6, <2>1 DEF Requesters
  <2> QED BY <2>2, <2>4, <2>5
<1>8. PICK quiet : quiet = [s EXCEPT !.hold = {}]
      OBVIOUS
<1>9. PICK held : held = [s EXCEPT !.hold = {left}]
      OBVIOUS
<1>10. /\ Sequenced(quiet) /\ quiet.last = s.last
       /\ Sequenced(held) /\ held.last = s.last
  <2>1. {} \in SUBSET Nat /\ {left} \in SUBSET Nat
        OBVIOUS
  <2>2. Sequenced(quiet) /\ Sequenced(held)
        BY <1>8, <1>9, <2>1, HoldingKeeps
  <2> QED BY <1>0, <1>8, <1>9, <2>2 DEF Sequencers
<1>11. PICK u : u = IF known = {} THEN 1 .. K ELSE UNION known
      OBVIOUS
<1>12. known # {{}} => u \in SUBSET (1 .. K) /\ u # {}
  <2> SUFFICES ASSUME known # {{}} PROVE u \in SUBSET (1 .. K) /\ u # {}
      OBVIOUS
  <2>1. CASE known = {}
    <3>1. 1 \in 1 .. K
          BY DEF ReceiverConstants
    <3> QED BY <1>11, <2>1, <3>1
  <2>2. CASE known # {}
    <3>1. PICK m \in known : m # {}
          BY <2>2
    <3> QED BY <1>11, <2>2, <3>1
  <2> QED BY <2>1, <2>2
<1>13. PICK r : r = M!Arm(s, n, hole, missing, 1 .. K)
      OBVIOUS
<1>14. \/ r = [seq |-> quiet, nack |-> none, asks |-> {}]
       \/ r = [seq |-> quiet, nack |-> tried, asks |-> {}]
       \/ known # {{}} /\ r = [seq |-> held, nack |-> armed, asks |-> M!Ask(hole, u)]
      BY <1>1, <1>2, <1>3, <1>4, <1>5, <1>6, <1>8, <1>9, <1>11, <1>13 DEF M!Arm
<1>15. CASE r = [seq |-> quiet, nack |-> none, asks |-> {}]
  <2>1. r.seq = quiet /\ r.nack = none /\ r.asks = {}
        BY <1>15
  <2> QED BY <1>7, <1>10, <1>13, <2>1 DEF TickKept
<1>16. CASE r = [seq |-> quiet, nack |-> tried, asks |-> {}]
  <2>1. r.seq = quiet /\ r.nack = tried /\ r.asks = {}
        BY <1>16
  <2> QED BY <1>7, <1>10, <1>13, <2>1 DEF TickKept
<1>17. CASE known # {{}} /\ r = [seq |-> held, nack |-> armed, asks |-> M!Ask(hole, u)]
  <2>1. r.seq = held /\ r.nack = armed /\ r.asks = M!Ask(hole, u)
        BY <1>17
  <2>2. M!Ask(hole, u) \subseteq Nacks
        BY <1>12, <1>17, AsksAreNacks
  <2> QED BY <1>7, <1>10, <1>13, <2>1, <2>2 DEF TickKept
<1> QED BY <1>14, <1>15, <1>16, <1>17

(* A tick of the requester. *)
LEMMA NackTickKeeps ==
  ASSUME ReceiverConstants, NEW s, Sequenced(s), NEW requester \in Requesters,
         NEW missing, \A h \in M!Numbers : missing[h] \in SUBSET SUBSET (1 .. K), NEW recent, NEW b \in BOOLEAN
  PROVE  TickKept(M!NackTick(s, requester, missing, recent, b, 1 .. K), s)
<1>0. s \in Sequencers /\ s.last \in SUBSET M!Numbers
      BY DEF Sequenced, Sequencers
<1>1. PICK n : n = M!Settled(requester, recent)
      OBVIOUS
<1>2. n \in Requesters
  <2>1. PICK a \in SUBSET Timed : a = {x \in requester.armed : ~M!Contains(recent, x.id) /\ x.left > 0}
        BY DEF Requesters
  <2> QED BY <1>1, <2>1 DEF Requesters, M!Settled
<1>3. PICK holes \in SUBSET M!Numbers : holes = M!BlockedHole(s)
  <2>1. M!BlockedHole(s) \in SUBSET M!Numbers
        BY <1>0, NumbersComeRound DEF M!BlockedHole
  <2> QED BY <2>1
<1>4. PICK hole : hole = CHOOSE h \in holes : TRUE
      OBVIOUS
<1>5. PICK quiet : quiet = [s EXCEPT !.hold = {}]
      OBVIOUS
<1>6. Sequenced(quiet) /\ quiet.last = s.last
  <2>1. {} \in SUBSET Nat
        OBVIOUS
  <2>2. Sequenced(quiet)
        BY <1>5, <2>1, HoldingKeeps
  <2> QED BY <1>0, <1>5, <2>2 DEF Sequencers
<1>7. PICK none : none = [attempted |-> {}, armed |-> {}, probe |-> n.probe]
      OBVIOUS
<1>8. none \in Requesters
      BY <1>2, <1>7 DEF Requesters
<1>9. PICK r : r = M!NackTick(s, requester, missing, recent, b, 1 .. K)
      OBVIOUS
<1>10. \/ r = [seq |-> quiet, nack |-> none, asks |-> {}]
       \/ holes # {} /\ (\E a \in n.armed : a.id = hole)
          /\ r = M!FollowUp(s, n, hole, (CHOOSE a \in n.armed : TRUE).left, missing)
       \/ r = [seq |-> quiet, nack |-> n, asks |-> {}]
       \/ holes # {} /\ r = M!Arm(s, n, hole, missing, 1 .. K)
  <2>1. M!Quiet(s, n, n.probe) = [seq |-> quiet, nack |-> none, asks |-> {}]
    <3>2. PICK i : i = [attempted |-> {}, armed |-> {}, probe |-> FALSE]
          OBVIOUS
    <3>3. M!NoRequest = i
          BY <3>2 DEF M!NoRequest
    <3>4. [i EXCEPT !.probe = n.probe] = none
          BY ONLY <1>7, <3>2
    <3>1. [M!NoRequest EXCEPT !.probe = n.probe] = none
          BY <3>3, <3>4
    <3> QED BY <1>5, <3>1 DEF M!Quiet
  <2> QED BY <1>1, <1>3, <1>4, <1>5, <1>9, <2>1 DEF M!NackTick
<1>11. holes # {} => hole \in M!Numbers
      BY <1>3, <1>4
<1>12. CASE r = [seq |-> quiet, nack |-> none, asks |-> {}]
  <2>1. r.seq = quiet /\ r.nack = none /\ r.asks = {}
        BY <1>12
  <2> QED BY <1>6, <1>8, <1>9, <2>1 DEF TickKept
<1>13. CASE r = [seq |-> quiet, nack |-> n, asks |-> {}]
  <2>1. r.seq = quiet /\ r.nack = n /\ r.asks = {}
        BY <1>13
  <2> QED BY <1>2, <1>6, <1>9, <2>1 DEF TickKept
<1>14. CASE holes # {} /\ (\E a \in n.armed : a.id = hole)
            /\ r = M!FollowUp(s, n, hole, (CHOOSE a \in n.armed : TRUE).left, missing)
  <2>1. PICK left \in Nat : left = (CHOOSE a \in n.armed : TRUE).left
    <3>1. n.armed \in SUBSET Timed /\ n.armed # {}
          BY <1>2, <1>14 DEF Requesters
    <3> QED BY <3>1 DEF Timed
  <2>2. r = M!FollowUp(s, n, hole, left, missing)
        BY <1>14, <2>1
  <2>3. missing[hole] \in SUBSET SUBSET (1 .. K)
        BY <1>11, <1>14
  <2> QED BY <1>2, <1>9, <1>11, <1>14, <2>2, <2>3, FollowUpKeeps
<1>15. CASE holes # {} /\ r = M!Arm(s, n, hole, missing, 1 .. K)
  <2>1. missing[hole] \in SUBSET SUBSET (1 .. K)
        BY <1>11, <1>15
  <2> QED BY <1>2, <1>9, <1>11, <1>15, <2>1, ArmKeeps
<1> QED BY <1>10, <1>12, <1>13, <1>14, <1>15

(* A list within its limit with the entries of another one, and new ones. *)
Opening(o, list, max) ==
  /\ o \in Seq(Entries) /\ Len(o) <= max
  /\ \A i \in 1 .. Len(o) : o[i].got = {} \/ \E j \in 1 .. Len(list) : o[i] = list[j]

(* Opening an entry, in the place of the oldest when the list is full. *)
LEMMA OpenedKeeps ==
  ASSUME NEW list \in Seq(Entries), NEW max \in Nat \ {0}, Len(list) <= max, NEW id \in M!Numbers, NEW b \in BOOLEAN
  PROVE  Opening(M!Opened(list, max, id, b), list, max)
<1>1. PICK e \in Entries : e = [id |-> id, key |-> b, got |-> {}] /\ e.got = {}
  <2>1. [id |-> id, key |-> b, got |-> {}] \in Entries
        BY DEF Entries
  <2> QED BY <2>1
<1>2. PICK p : p = IF Len(list) >= max THEN Tail(list) ELSE list
      OBVIOUS
<1>3. p \in Seq(Entries) /\ Len(p) \in Nat /\ Len(p) + 1 <= max
      /\ \A i \in 1 .. Len(p) : \E j \in 1 .. Len(list) : p[i] = list[j]
  <2>1. CASE Len(list) >= max
    <3>1. list # <<>> /\ p = Tail(list)
          BY <1>2, <2>1
    <3>2. p \in Seq(Entries) /\ Len(p) = Len(list) - 1 /\ Len(list) \in Nat
          /\ \A i \in 1 .. Len(list) - 1 : p[i] = list[i + 1]
          BY <3>1, HeadAndTail
    <3>3. Len(p) \in Nat /\ Len(p) + 1 <= max
          BY <3>2
    <3>4. \A i \in 1 .. Len(p) : i + 1 \in 1 .. Len(list) /\ p[i] = list[i + 1]
          BY <3>2
    <3> QED BY <3>2, <3>3, <3>4
  <2>2. CASE ~(Len(list) >= max)
    <3>1. p = list /\ Len(list) \in Nat
          BY <1>2, <2>2
    <3>2. Len(p) + 1 <= max
          BY <2>2, <3>1
    <3> QED BY <3>1, <3>2
  <2> QED BY <2>1, <2>2
<1>4. Append(p, e) \in Seq(Entries) /\ Len(Append(p, e)) = Len(p) + 1
      /\ (\A i \in 1 .. Len(p) : Append(p, e)[i] = p[i]) /\ Append(p, e)[Len(p) + 1] = e
      BY <1>1, <1>3
<1>5. PICK q : q = Append(p, e)
      OBVIOUS
<1>6. \A i \in 1 .. Len(q) : q[i].got = {} \/ \E j \in 1 .. Len(list) : q[i] = list[j]
  <2> SUFFICES ASSUME NEW i \in 1 .. Len(q) PROVE q[i].got = {} \/ \E j \in 1 .. Len(list) : q[i] = list[j]
      OBVIOUS
  <2>1. i \in 1 .. Len(p) \/ i = Len(p) + 1
        BY <1>3, <1>4, <1>5
  <2> QED BY <1>1, <1>3, <1>4, <1>5, <2>1
<1>7. PICK r : r = M!Opened(list, max, id, b)
      OBVIOUS
<1>8. r = list \/ r = q
      BY <1>1, <1>2, <1>5, <1>7 DEF M!Opened
<1>9. CASE r = list
      BY <1>7, <1>9 DEF Opening
<1>10. CASE r = q
      BY <1>3, <1>4, <1>5, <1>6, <1>7, <1>10 DEF Opening
<1> QED BY <1>8, <1>9, <1>10

(* Marking what an entry has got. *)
LEMMA MarkedKeeps ==
  ASSUME NEW list \in Seq(Entries), NEW id, NEW shards \in SUBSET (1 .. K + 1)
  PROVE  /\ M!Marked(list, id, shards) \in Seq(Entries) /\ Len(M!Marked(list, id, shards)) = Len(list)
         /\ \A i \in 1 .. Len(list) :
              \/ M!Marked(list, id, shards)[i] = list[i]
              \/ /\ M!Marked(list, id, shards)[i].id = id
                 /\ M!Marked(list, id, shards)[i].got = list[i].got \cup shards
<1>1. Len(list) \in Nat /\ DOMAIN list = 1 .. Len(list) /\ \A i \in 1 .. Len(list) : list[i] \in Entries
      OBVIOUS
<1> DEFINE m(i) == IF list[i].id = id THEN [list[i] EXCEPT !.got = @ \cup shards] ELSE list[i]
<1>2. ASSUME NEW i \in 1 .. Len(list)
      PROVE  m(i) \in Entries /\ (m(i) = list[i] \/ (m(i).id = id /\ m(i).got = list[i].got \cup shards))
  <2>1. PICK e \in Entries : e = list[i]
        BY <1>1
  <2>2. PICK g \in SUBSET (1 .. K + 1) : g = e.got \cup shards
        BY DEF Entries
  <2>3. [e EXCEPT !.got = g] \in Entries /\ [e EXCEPT !.got = g].id = e.id /\ [e EXCEPT !.got = g].got = g
        BY <2>1 DEF Entries
  <2> QED BY <2>1, <2>2, <2>3
<1>3. M!Marked(list, id, shards) = [i \in 1 .. Len(list) |-> m(i)]
      BY <1>1 DEF M!Marked
<1> HIDE DEF m
<1>4. [i \in 1 .. Len(list) |-> m(i)] \in Seq(Entries) /\ Len([i \in 1 .. Len(list) |-> m(i)]) = Len(list)
      BY <1>1, <1>2
<1> QED BY <1>2, <1>3, <1>4

(* What a list without a number keeps. *)
LEMMA WithoutKeeps ==
  ASSUME NEW list \in Seq(Entries), NEW id
  PROVE  /\ M!Without(list, id) \in Seq(Entries) /\ Len(M!Without(list, id)) <= Len(list)
         /\ \A i \in 1 .. Len(M!Without(list, id)) : \E j \in 1 .. Len(list) :
              M!Without(list, id)[i] = list[j] /\ list[j].id # id
<1> DEFINE I == {i \in 1 .. Len(list) : list[i].id # id}
<1>1. M!Without(list, id) = AtIndexes(list, I)
      BY ReceiverSelects DEF M!Without, M!Selected
<1>2. I \in SUBSET (1 .. Len(list)) /\ \A i \in I : list[i].id # id
      OBVIOUS
<1> HIDE DEF I
<1>3. /\ AtIndexes(list, I) \in Seq(Entries) /\ Len(AtIndexes(list, I)) = Cardinality(I)
      /\ \A m \in 1 .. Cardinality(I) : \E i \in I : AtIndexes(list, I)[m] = list[i] /\ Rank(I, i) = m
      BY <1>2, PartOfSeq
<1>4. Cardinality(I) <= Len(list)
  <2>1. PICK n \in Nat : n = Len(list) /\ I \in SUBSET (1 .. n)
        BY <1>2
  <2> QED BY <2>1, IndexesAreFinite
<1> QED BY <1>1, <1>2, <1>3, <1>4

(* A window of the numbers completed last. *)
LEMMA NewestKeeps ==
  ASSUME NEW A, NEW list \in Seq(A), NEW max \in Nat, Len(list) <= max, NEW e \in A
  PROVE  M!Newest(Append(list, e), max) \in Seq(A) /\ Len(M!Newest(Append(list, e), max)) <= max
<1>1. PICK q : q = Append(list, e)
      OBVIOUS
<1>2. q \in Seq(A) /\ Len(q) = Len(list) + 1 /\ Len(list) \in Nat
      BY <1>1
<1>3. CASE Len(q) > max
  <2>1. q # <<>>
        BY <1>2, <1>3
  <2>2. Tail(q) \in Seq(A) /\ Len(Tail(q)) = Len(q) - 1
        BY <1>2, <2>1, HeadAndTail
  <2>3. Len(Tail(q)) <= max
        BY <1>2, <2>2
  <2> QED BY <1>1, <1>3, <2>2, <2>3 DEF M!Newest
<1>4. CASE ~(Len(q) > max)
      BY <1>1, <1>2, <1>4 DEF M!Newest
<1> QED BY <1>3, <1>4

(* What has arrived of an access unit. *)
LEMMA GotIsUnion ==
  ASSUME NEW list \in Seq(Entries), NEW id
  PROVE  /\ M!Got(list, id) \in SUBSET (1 .. K + 1)
         /\ \A i \in 1 .. Len(list) : list[i].id = id => list[i].got \subseteq M!Got(list, id)
         /\ (\A i \in 1 .. Len(list) : list[i].id = id => list[i].got \subseteq 1 .. K) => M!Got(list, id) \subseteq 1 .. K
<1>1. DOMAIN list = 1 .. Len(list) /\ \A i \in 1 .. Len(list) : list[i] \in Entries
      OBVIOUS
<1>2. PICK U : U = {e.got : e \in {f \in {list[i] : i \in 1 .. Len(list)} : f.id = id}}
      OBVIOUS
<1>3. M!Got(list, id) = UNION U
      BY <1>1, <1>2 DEF M!Got, M!ToSet
<1>4. \A u \in U : \E i \in 1 .. Len(list) : list[i].id = id /\ u = list[i].got
      BY <1>2
<1>5. \A i \in 1 .. Len(list) : list[i].id = id => list[i].got \in U
      BY <1>2
<1>6. \A i \in 1 .. Len(list) : list[i].got \in SUBSET (1 .. K + 1)
      BY <1>1 DEF Entries
<1>7. UNION U \in SUBSET (1 .. K + 1)
      BY <1>4, <1>6
<1>8. \A i \in 1 .. Len(list) : list[i].id = id => list[i].got \subseteq UNION U
      BY <1>5
<1>9. (\A i \in 1 .. Len(list) : list[i].id = id => list[i].got \subseteq 1 .. K) => UNION U \subseteq 1 .. K
      BY <1>4
<1> QED BY <1>3, <1>7, <1>8, <1>9

(* An incomplete access unit lacks shards that have numbers. *)
LEMMA MissingIsData ==
  ASSUME NEW a, NEW id
  PROVE  M!Missing(a, id) \in SUBSET SUBSET (1 .. K)
BY DEF M!Missing, M!Data

(* A datagram's shard completes its access unit or not. *)
LEMMA PushKeeps ==
  ASSUME ReceiverConstants, NEW a, Assembled(a), NEW d \in Datagram, d.kind = "media", NEW shard \in 1 .. K
  PROVE  /\ Assembled(M!Push(a, d, shard).asm)
         /\ \/ M!Push(a, d, shard).frames = <<>>
            \/ M!Push(a, d, shard).frames # <<>> /\ M!Push(a, d, shard).frames[1] \in Frames
<1>0. a \in Assemblies /\ a.partial \in Seq(Entries) /\ a.recent \in Seq(M!Numbers) /\ Len(a.partial) <= MaxInFlight
      /\ Len(a.recent) <= MaxRecent /\ MaxInFlight \in Nat \ {0} /\ MaxRecent \in Nat /\ K \in Nat \ {0}
      BY DEF Assembled, Assemblies, ReceiverConstants
<1>1. d.id \in M!Numbers /\ d.key \in BOOLEAN
      BY DEF Datagram
<1>2. PICK o : o = M!Opened(a.partial, MaxInFlight, d.id, d.key)
      OBVIOUS
<1>3. o \in Seq(Entries) /\ Len(o) <= MaxInFlight
      /\ \A i \in 1 .. Len(o) : o[i].got = {} \/ \E j \in 1 .. Len(a.partial) : o[i] = a.partial[j]
  <2>1. Opening(o, a.partial, MaxInFlight)
        BY <1>0, <1>1, <1>2, OpenedKeeps
  <2> QED BY <2>1 DEF Opening
<1>4. PICK s \in SUBSET (1 .. K + 1) : s = {shard} /\ s \subseteq 1 .. K
  <2>1. {shard} \subseteq 1 .. K /\ {shard} \subseteq 1 .. K + 1
        BY <1>0
  <2> QED BY <2>1
<1>5. PICK p : p = M!Marked(o, d.id, s)
      OBVIOUS
<1>6. p \in Seq(Entries) /\ Len(p) = Len(o)
      /\ \A i \in 1 .. Len(o) : p[i] = o[i] \/ (p[i].id = d.id /\ p[i].got = o[i].got \cup s)
      BY <1>3, <1>5, MarkedKeeps
<1>7. \A i \in 1 .. Len(o) : o[i].got \subseteq 1 .. K /\ o[i].got # 1 .. K
  <2>1. 1 \in 1 .. K
        BY <1>0
  <2>2. \A j \in 1 .. Len(a.partial) : a.partial[j].got \subseteq 1 .. K /\ a.partial[j].got # 1 .. K
        BY DEF Assembled
  <2> QED BY <1>3, <2>1, <2>2
<1>8. \A i \in 1 .. Len(p) : p[i].got \subseteq 1 .. K /\ (p[i].id # d.id => p[i].got # 1 .. K)
      BY <1>4, <1>6, <1>7
<1>9. PICK got : got = M!Got(p, d.id)
      OBVIOUS
<1>10. got \subseteq 1 .. K /\ \A i \in 1 .. Len(p) : p[i].id = d.id => p[i].got \subseteq got
  <2>1. \A i \in 1 .. Len(p) : p[i].id = d.id => p[i].got \subseteq 1 .. K
        BY <1>8
  <2> QED BY <1>6, <1>9, <2>1, GotIsUnion
<1>11. PICK w : w = M!Without(p, d.id)
      OBVIOUS
<1>12. PICK n : n = M!Newest(Append(a.recent, d.id), MaxRecent)
      OBVIOUS
<1>13. n \in Seq(M!Numbers) /\ Len(n) <= MaxRecent
      BY <1>0, <1>1, <1>12, NewestKeeps
<1>14. PICK whole : whole = [a EXCEPT !.partial = w, !.recent = n]
      OBVIOUS
<1>15. PICK part1 : part1 = [a EXCEPT !.partial = p]
      OBVIOUS
<1>16. PICK f \in Frames : f = [id |-> d.id, key |-> d.key]
      BY <1>1 DEF Frames
<1>17. PICK r : r = M!Push(a, d, shard)
      OBVIOUS
<1>18. \/ r = [asm |-> a, frames |-> <<>>]
       \/ got = 1 .. K /\ r = [asm |-> whole, frames |-> <<f>>]
       \/ got # 1 .. K /\ r = [asm |-> part1, frames |-> <<>>]
      BY <1>2, <1>4, <1>5, <1>9, <1>11, <1>12, <1>14, <1>15, <1>16, <1>17 DEF M!Push, M!Data
<1>19. CASE r = [asm |-> a, frames |-> <<>>]
  <2>1. r.asm = a /\ r.frames = <<>>
        BY <1>19
  <2> QED BY <1>17, <2>1
<1>20. CASE got = 1 .. K /\ r = [asm |-> whole, frames |-> <<f>>]
  <2>1. w \in Seq(Entries) /\ Len(w) <= Len(p)
        /\ \A i \in 1 .. Len(w) : \E j \in 1 .. Len(p) : w[i] = p[j] /\ p[j].id # d.id
        BY <1>6, <1>11, WithoutKeeps
  <2>2. Len(w) <= MaxInFlight
    <3>1. Len(w) \in Nat /\ Len(p) \in Nat
          BY <1>6, <2>1
    <3> QED BY <1>0, <1>3, <1>6, <2>1, <3>1
  <2>3. \A i \in 1 .. Len(w) : w[i].got \subseteq 1 .. K /\ w[i].got # 1 .. K
        BY <1>8, <2>1
  <2>4. whole \in Assemblies /\ whole.partial = w /\ whole.recent = n /\ whole.groups = a.groups /\ whole.done = a.done
        BY <1>0, <1>13, <1>14, <2>1 DEF Assemblies
  <2>5. Assembled(whole)
        BY <1>13, <2>2, <2>3, <2>4 DEF Assembled
  <2>6. r.asm = whole /\ r.frames = <<f>>
        BY <1>20
  <2>7. <<f>> # <<>> /\ <<f>>[1] = f
        OBVIOUS
  <2> QED BY <1>17, <2>5, <2>6, <2>7
<1>21. CASE got # 1 .. K /\ r = [asm |-> part1, frames |-> <<>>]
  <2>1. \A i \in 1 .. Len(p) : p[i].got \subseteq 1 .. K /\ p[i].got # 1 .. K
        BY <1>8, <1>10, <1>21
  <2>2. part1 \in Assemblies /\ part1.partial = p /\ part1.recent = a.recent /\ part1.groups = a.groups
        /\ part1.done = a.done
        BY <1>0, <1>6, <1>15 DEF Assemblies
  <2>3. Assembled(part1)
        BY <1>3, <1>6, <2>1, <2>2 DEF Assembled
  <2>4. r.asm = part1 /\ r.frames = <<>>
        BY <1>21
  <2> QED BY <1>17, <2>3, <2>4
<1> QED BY <1>18, <1>19, <1>20, <1>21

(* A shard reaches its group of the error correction. *)
LEMMA InGroupKeeps ==
  ASSUME ReceiverConstants, NEW a, Assembled(a), NEW d \in Datagram, d.kind = "media"
  PROVE  Assembled(M!InGroup(a, d).asm) /\ M!InGroup(a, d).restored \in SUBSET (1 .. K)
<1>0. a \in Assemblies /\ a.groups \in Seq(Entries) /\ a.done \in Seq(M!Numbers) /\ Len(a.groups) <= MaxGroups
      /\ Len(a.done) <= MaxDone /\ MaxGroups \in Nat \ {0} /\ MaxDone \in Nat /\ K \in Nat \ {0}
      BY DEF Assembled, Assemblies, ReceiverConstants
<1>1. d.id \in M!Numbers /\ d.key \in BOOLEAN /\ d.shard \in 1 .. K + 1
      BY DEF Datagram
<1>2. PICK o : o = M!Opened(a.groups, MaxGroups, d.id, d.key)
      OBVIOUS
<1>3. o \in Seq(Entries) /\ Len(o) <= MaxGroups
      BY <1>0, <1>1, <1>2, OpenedKeeps DEF Opening
<1>4. PICK s \in SUBSET (1 .. K + 1) : s = {d.shard}
      BY <1>1
<1>5. PICK p : p = M!Marked(o, d.id, s)
      OBVIOUS
<1>6. p \in Seq(Entries) /\ Len(p) = Len(o)
      BY <1>3, <1>5, MarkedKeeps
<1>7. PICK restored \in SUBSET (1 .. K) : restored = M!Restorable(p, d.id)
  <2>1. M!Restorable(p, d.id) \in SUBSET (1 .. K)
        BY DEF M!Restorable, M!Data
  <2> QED BY <2>1
<1>8. PICK closed : closed = (M!Data \subseteq M!Got(p, d.id) \cup restored)
      OBVIOUS
<1>9. PICK groups : groups = IF closed THEN M!Without(p, d.id) ELSE p
      OBVIOUS
<1>10. groups \in Seq(Entries) /\ Len(groups) <= MaxGroups
  <2>1. M!Without(p, d.id) \in Seq(Entries) /\ Len(M!Without(p, d.id)) <= Len(p)
        BY <1>6, WithoutKeeps
  <2>2. Len(M!Without(p, d.id)) \in Nat /\ Len(p) \in Nat /\ Len(p) <= MaxGroups
        BY <1>3, <1>6, <2>1
  <2> QED BY <1>0, <1>6, <1>9, <2>1, <2>2
<1>11. PICK done : done = IF closed THEN M!Newest(Append(a.done, d.id), MaxDone) ELSE a.done
      OBVIOUS
<1>12. done \in Seq(M!Numbers) /\ Len(done) <= MaxDone
      BY <1>0, <1>1, <1>11, NewestKeeps
<1>13. PICK g : g = [a EXCEPT !.groups = groups, !.done = done]
      OBVIOUS
<1>14. g \in Assemblies /\ g.groups = groups /\ g.done = done /\ g.partial = a.partial /\ g.recent = a.recent
      BY <1>0, <1>10, <1>12, <1>13 DEF Assemblies
<1>15. Assembled(g)
      BY <1>10, <1>12, <1>14 DEF Assembled
<1>16. PICK r : r = M!InGroup(a, d)
      OBVIOUS
<1>17. r = [asm |-> a, restored |-> {}] \/ r = [restored |-> restored, asm |-> g]
      BY <1>2, <1>4, <1>5, <1>7, <1>8, <1>9, <1>11, <1>13, <1>16 DEF M!InGroup
<1>18. (r.asm = a /\ r.restored = {}) \/ (r.asm = g /\ r.restored = restored)
      BY <1>17
<1> QED BY <1>15, <1>16, <1>18

(* The last index of a part of a sequence. *)
LEMMA LastIndex ==
  ASSUME NEW n \in Nat, NEW s \in SUBSET (1 .. n), s # {}
  PROVE  M!Max(s) \in s /\ \A y \in s : y <= M!Max(s)
<1>1. \E x \in s : \A y \in s : x >= y
      BY FirstAndLast
<1>2. M!Max(s) \in s /\ \A y \in s : M!Max(s) >= y
      BY <1>1 DEF M!Max
<1>3. \A y \in s : y \in Nat
      OBVIOUS
<1> QED BY <1>2, <1>3

(* The equation of a fold over the first n elements of a sequence. *)
Folding(it, n, seq, base, F) ==
  \A s \in SUBSET (1 .. n) :
    it[s] = IF s = {} THEN base ELSE F[<<it[s \ {M!Max(s)}], seq[M!Max(s)]>>]

(* Every fold has a result. *)
LEMMA FoldExists ==
  ASSUME NEW X, NEW D, NEW F \in [X \X D -> X], NEW base \in X, NEW seq \in Seq(D)
  PROVE  \E it \in [SUBSET (1 .. Len(seq)) -> X] : Folding(it, Len(seq), seq, base, F)
<1> DEFINE Has(n) == \E it \in [SUBSET (1 .. n) -> X] : Folding(it, n, seq, base, F)
           T == {n \in 0 .. Len(seq) : ~Has(n)}
<1>1. Len(seq) \in Nat /\ \A i \in 1 .. Len(seq) : seq[i] \in D
      OBVIOUS
<1>2. SUFFICES T = {}
  <2>1. Len(seq) \in 0 .. Len(seq)
        BY <1>1
  <2> QED BY <2>1
<1>3. Has(0)
  <2>1. PICK it : it = [s \in SUBSET (1 .. 0) |-> base]
        OBVIOUS
  <2>2. \A s \in SUBSET (1 .. 0) : s = {}
        OBVIOUS
  <2>3. it \in [SUBSET (1 .. 0) -> X] /\ \A s \in SUBSET (1 .. 0) : it[s] = base
        BY <2>1
  <2> QED BY <2>2, <2>3 DEF Folding
<1>4. ASSUME NEW n \in Nat, n + 1 <= Len(seq), Has(n)
      PROVE  Has(n + 1)
  <2>1. PICK it \in [SUBSET (1 .. n) -> X] : Folding(it, n, seq, base, F)
        BY <1>4
  <2>2. PICK m \in Nat : m = n + 1 /\ m \in 1 .. Len(seq) /\ m \notin 1 .. n /\ 1 .. n \subseteq 1 .. m
                         /\ (\A i \in 1 .. m : i # m => i \in 1 .. n) /\ \A i \in 1 .. m : i <= m
        BY <1>1, <1>4
  <2>3. seq[m] \in D
        BY <1>1, <2>2
  <2> DEFINE g == [s \in SUBSET (1 .. m) |-> IF m \in s THEN F[<<it[s \ {m}], seq[m]>>] ELSE it[s]]
  <2>4. \A s \in SUBSET (1 .. m) : /\ m \in s => s \ {m} \in SUBSET (1 .. n)
                                   /\ m \notin s => s \in SUBSET (1 .. n)
        BY <2>2
  <2>5. \A x \in X : F[<<x, seq[m]>>] \in X
        BY <2>3
  <2>6. g \in [SUBSET (1 .. m) -> X]
        BY <2>4, <2>5
  <2>7. \A s \in SUBSET (1 .. m) : m \in s => M!Max(s) = m
    <3> SUFFICES ASSUME NEW s \in SUBSET (1 .. m), m \in s PROVE M!Max(s) = m
        OBVIOUS
    <3>1. M!Max(s) \in s /\ m <= M!Max(s)
          BY LastIndex
    <3>3. PICK x \in 1 .. m : x = M!Max(s)
          BY <3>1
    <3>2. M!Max(s) <= m /\ M!Max(s) \in Nat
          BY <3>3
    <3> QED BY <3>1, <3>2
  <2>8. ASSUME NEW s \in SUBSET (1 .. m)
        PROVE  g[s] = IF s = {} THEN base ELSE F[<<g[s \ {M!Max(s)}], seq[M!Max(s)]>>]
    <3>1. CASE m \in s
      <4>1. M!Max(s) = m /\ s # {} /\ m \notin s \ {m} /\ s \ {m} \in SUBSET (1 .. m)
            BY <2>7, <3>1
      <4>2. g[s] = F[<<it[s \ {m}], seq[m]>>] /\ g[s \ {m}] = it[s \ {m}]
            BY <3>1, <4>1
      <4> HIDE DEF g
      <4> QED BY <4>1, <4>2
    <3>2. CASE m \notin s
      <4>1. s \in SUBSET (1 .. n) /\ s \ {M!Max(s)} \in SUBSET (1 .. m) /\ m \notin s \ {M!Max(s)}
            BY <2>4, <3>2
      <4>2. g[s] = it[s] /\ g[s \ {M!Max(s)}] = it[s \ {M!Max(s)}]
            BY <3>2, <4>1
      <4>3. it[s] = IF s = {} THEN base ELSE F[<<it[s \ {M!Max(s)}], seq[M!Max(s)]>>]
            BY <2>1, <4>1 DEF Folding
      <4> HIDE DEF g
      <4> QED BY <4>2, <4>3
    <3> QED BY <3>1, <3>2
  <2> HIDE DEF g
  <2>9. Folding(g, m, seq, base, F)
        BY <2>8 DEF Folding
  <2> QED BY <2>2, <2>6, <2>9
<1> HIDE DEF Has
<1>5. ASSUME T # {} PROVE FALSE
  <2>1. T \in SUBSET Nat
        OBVIOUS
  <2>2. PICK m \in T : \A y \in T : m <= y
        BY <1>5, <2>1, LeastNumber
  <2>3. m # 0
        BY <1>3, <2>2
  <2>4. PICK n \in Nat : m = n + 1 /\ n \in 0 .. Len(seq) /\ n + 1 <= Len(seq)
        BY <1>1, <2>2, <2>3
  <2>5. ~(m <= n)
        BY <2>4
  <2>6. Has(n)
        BY <2>2, <2>4, <2>5
  <2> QED BY <1>4, <2>2, <2>4, <2>6
<1> QED BY <1>5

(* What every step of a fold keeps, its result has. *)
LEMMA FoldStays ==
  ASSUME NEW X, NEW n \in Nat, NEW it, it[{}] \in X,
         \A s \in SUBSET (1 .. n) : s # {} /\ it[s \ {M!Max(s)}] \in X => it[s] \in X
  PROVE  it[1 .. n] \in X
<1> DEFINE T == {m \in 0 .. n : it[1 .. m] \notin X}
<1>1. SUFFICES T = {}
  <2>1. n \in 0 .. n
        OBVIOUS
  <2> QED BY <2>1
<1>2. ASSUME T # {} PROVE FALSE
  <2>1. T \in SUBSET Nat
        OBVIOUS
  <2>2. PICK m \in T : \A y \in T : m <= y
        BY <1>2, <2>1, LeastNumber
  <2>3. m # 0
    <3>1. 1 .. 0 = {}
          OBVIOUS
    <3> QED BY <2>2, <3>1
  <2>4. PICK k \in Nat : m = k + 1 /\ k \in 0 .. n
        BY <2>2, <2>3
  <2>5. it[1 .. k] \in X
    <3>1. ~(m <= k)
          BY <2>4
    <3> QED BY <2>2, <2>4, <3>1
  <2>6. 1 .. m \in SUBSET (1 .. n) /\ 1 .. m # {} /\ m \in 1 .. m
        BY <2>2, <2>3
  <2>7. M!Max(1 .. m) = m
    <3>1. M!Max(1 .. m) \in 1 .. m /\ m <= M!Max(1 .. m)
          BY <2>6, LastIndex
    <3> QED BY <3>1
  <2>8. (1 .. m) \ {m} = 1 .. k
        BY <2>4
  <2>9. it[(1 .. m) \ {M!Max(1 .. m)}] \in X
        BY <2>5, <2>7, <2>8
  <2>10. it[1 .. m] \in X
        BY <2>6, <2>9
  <2> QED BY <2>2, <2>10
<1> QED BY <1>2

(* The viewer while datagrams are queued: only its transport state changes. *)
Like(w, v) ==
  /\ Viewing(w)
  /\ \A f \in {"nack", "dec", "last", "awaiting", "gate", "incident", "shown", "hidden"} : w[f] = v[f]

(* Another transport state for the one there is. *)
LEMMA TransportIsLike ==
  ASSUME NEW v, NEW w, Like(w, v), NEW a, Assembled(a), NEW s, Sequenced(s), NEW q \in Seq(Frames), Len(q) <= BatchSize
  PROVE  Like([w EXCEPT !.asm = a, !.seq = s, !.queue = q], v)
<1>0. w \in Viewers /\ a \in Assemblies /\ s \in Sequencers
      BY DEF Like, Viewing, Assembled, Sequenced
<1>1. PICK g : g = [w EXCEPT !.asm = a, !.seq = s, !.queue = q]
      OBVIOUS
<1>2. g \in Viewers
      BY <1>0, <1>1 DEF Viewers
<1>3. g.asm = a /\ g.seq = s /\ g.queue = q
      BY <1>0, <1>1 DEF Viewers
<1>4. \A f \in {"nack", "dec", "last", "awaiting", "gate", "incident", "shown", "hidden"} : g[f] = w[f]
      BY <1>0, <1>1 DEF Viewers
<1>5. Like(g, v)
      BY <1>2, <1>3, <1>4 DEF Like, Viewing
<1> QED BY <1>1, <1>5

(* An element of a sequence over a set. *)
LEMMA ElementIsIn ==
  ASSUME NEW A, NEW q \in Seq(A), NEW i \in 1 .. Len(q)
  PROVE  q[i] \in A
OBVIOUS

(* What finds no slot in the batch is dropped. *)
LEMMA QueuedKeeps ==
  ASSUME ReceiverConstants, NEW v, Viewing(v), NEW frames \in Seq(Frames)
  PROVE  M!Queued(v, frames) \in Seq(Frames) /\ Len(M!Queued(v, frames)) <= BatchSize
<1>1. PICK q \in Seq(Frames) : q = v.queue \o frames
  <2>1. v.queue \in Seq(Frames)
        BY DEF Viewing, Viewers
  <2>2. v.queue \o frames \in Seq(Frames)
        BY <2>1
  <2> QED BY <2>2
<1>2. PICK n \in 0 .. Len(q) : n = (IF Len(q) > BatchSize THEN BatchSize ELSE Len(q)) /\ n <= BatchSize
  <2>1. Len(q) \in Nat /\ BatchSize \in Nat
        BY DEF ReceiverConstants
  <2> QED BY <2>1
<1>3. SubSeq(q, 1, n) \in Seq(Frames) /\ Len(SubSeq(q, 1, n)) = n
  <2>1. n \in Nat /\ \A i \in 1 .. n : q[i] \in Frames
        OBVIOUS
  <2> QED BY <2>1
<1>4. M!Queued(v, frames) = SubSeq(q, 1, n)
      BY <1>1, <1>2 DEF M!Queued
<1> QED BY <1>2, <1>3, <1>4

(* A completed access unit. *)
LEMMA QueueFrameKeeps ==
  ASSUME ReceiverConstants, NEW v, NEW w, Like(w, v), NEW f \in Frames
  PROVE  Like(M!QueueFrame(w, f), v)
<1>0. Viewing(w) /\ w \in Viewers /\ Sequenced(w.seq) /\ Assembled(w.asm)
      BY DEF Like, Viewing
<1>1. PICK p : p = M!PushReassembled(w.seq, f, M!MissingOf(w))
      OBVIOUS
<1>2. Sequenced(p.seq) /\ p.frames \in Seq(Frames)
      BY <1>0, <1>1, PushReassembledKeeps
<1>3. PICK q : q = M!Queued(w, p.frames)
      OBVIOUS
<1>4. q \in Seq(Frames) /\ Len(q) <= BatchSize
      BY <1>0, <1>2, <1>3, QueuedKeeps
<1>5. M!QueueFrame(w, f) = [w EXCEPT !.seq = p.seq, !.queue = q]
      BY <1>1, <1>3 DEF M!QueueFrame
<1>6. PICK a, s : a = w.asm /\ s = p.seq
      OBVIOUS
<1>7. [w EXCEPT !.seq = s, !.queue = q] = [w EXCEPT !.asm = a, !.seq = s, !.queue = q]
      BY <1>0, <1>6 DEF Viewers
<1>8. Assembled(a) /\ Sequenced(s)
      BY <1>0, <1>2, <1>6
<1>9. Like([w EXCEPT !.asm = a, !.seq = s, !.queue = q], v)
      BY <1>4, <1>8, TransportIsLike
<1>10. M!QueueFrame(w, f) = [w EXCEPT !.seq = s, !.queue = q]
      BY <1>5, <1>6
<1> QED BY <1>7, <1>9, <1>10

(* A data fragment. *)
LEMMA QueueDataKeeps ==
  ASSUME ReceiverConstants, NEW v, NEW w, Like(w, v), NEW d \in Datagram, d.kind = "media", NEW shard \in 1 .. K
  PROVE  Like(M!QueueData(w, d, shard), v)
<1>0. Viewing(w) /\ w \in Viewers /\ Sequenced(w.seq) /\ Assembled(w.asm) /\ w.queue \in Seq(Frames)
      /\ Len(w.queue) <= BatchSize
      BY DEF Like, Viewing, Viewers
<1>1. PICK p : p = M!Push(w.asm, d, shard)
      OBVIOUS
<1>2. Assembled(p.asm) /\ (p.frames = <<>> \/ (p.frames # <<>> /\ p.frames[1] \in Frames))
      BY <1>0, <1>1, PushKeeps
<1>3. PICK u : u = [w EXCEPT !.asm = p.asm]
      OBVIOUS
<1>4. Like(u, v)
  <2>1. u = [w EXCEPT !.asm = p.asm, !.seq = w.seq, !.queue = w.queue]
        BY <1>0, <1>3 DEF Viewers
  <2> QED BY <1>0, <1>2, <2>1, TransportIsLike
<1>5. M!QueueData(w, d, shard) = IF p.frames = <<>> THEN u ELSE M!QueueFrame(u, p.frames[1])
      BY <1>1, <1>3 DEF M!QueueData
<1>6. CASE p.frames = <<>>
      BY <1>4, <1>5, <1>6
<1>7. CASE p.frames # <<>>
      BY <1>2, <1>4, <1>5, <1>7, QueueFrameKeeps
<1> QED BY <1>6, <1>7

(* The equation of the fold over the shards. *)
ShardsFolded(it, v, d, q) ==
  it = [s \in SUBSET DOMAIN q |-> IF s = {} THEN v
                                  ELSE M!QueueData(it[s \ {M!Max(s)}], d, q[M!Max(s)])]
ShardsFold(v, d, q) == CHOOSE it : ShardsFolded(it, v, d, q)

(* Queueing shards is that fold. *)
LEMMA QueueAllIsFold ==
  ASSUME NEW v, NEW d, NEW shards
  PROVE  M!QueueAll(v, d, shards) =
           ShardsFold(v, d, M!AtIndexes([i \in M!Data |-> i], shards))
             [DOMAIN M!AtIndexes([i \in M!Data |-> i], shards)]
BY DEF M!QueueAll, M!FoldLeft, M!MapThenFoldSet, ShardsFold, ShardsFolded

(* The data fragments that were restored. *)
LEMMA QueueAllKeeps ==
  ASSUME ReceiverConstants, NEW v, NEW w, Like(w, v), NEW d \in Datagram, d.kind = "media",
         NEW shards \in SUBSET (1 .. K)
  PROVE  Like(M!QueueAll(w, d, shards), v)
<1>1. PICK q \in Seq(1 .. K) : q = M!AtIndexes([i \in M!Data |-> i], shards) /\ Len(q) \in Nat /\ DOMAIN q = 1 .. Len(q)
  <2>1. PICK all : all = [i \in 1 .. K |-> i]
        OBVIOUS
  <2>2. all \in Seq(1 .. K) /\ Len(all) = K
        BY <2>1 DEF ReceiverConstants
  <2>3. AtIndexes(all, shards) \in Seq(1 .. K)
        BY <2>2, PartOfSeq
  <2>4. M!AtIndexes([i \in M!Data |-> i], shards) = AtIndexes(all, shards)
        BY <2>1, ReceiverSelects DEF M!Data
  <2>5. PICK r \in Seq(1 .. K) : r = AtIndexes(all, shards)
        BY <2>3
  <2>6. Len(r) \in Nat /\ DOMAIN r = 1 .. Len(r)
        BY <2>5
  <2> QED BY <2>4, <2>5, <2>6
<1>2. PICK n \in Nat : n = Len(q)
      BY <1>1
<1> DEFINE X == {x \in Viewers : Like(x, v)}
           F == [p \in X \X (1 .. K) |-> M!QueueData(p[1], d, p[2])]
<1>3. ASSUME NEW x \in X, NEW i \in 1 .. K PROVE M!QueueData(x, d, i) \in X
  <2>1. Like(M!QueueData(x, d, i), v)
        BY QueueDataKeeps
  <2> QED BY <2>1 DEF Like, Viewing
<1>4. F \in [X \X (1 .. K) -> X] /\ \A x \in X, i \in 1 .. K : F[<<x, i>>] = M!QueueData(x, d, i)
      BY <1>3
<1>5. w \in X
      BY DEF Like, Viewing
<1> HIDE DEF X, F
<1>6. PICK it \in [SUBSET (1 .. n) -> X] : Folding(it, n, q, w, F)
      BY <1>1, <1>2, <1>4, <1>5, FoldExists
<1>7. \A s \in SUBSET (1 .. n) : s # {} => M!Max(s) \in 1 .. n /\ q[M!Max(s)] \in 1 .. K
                                            /\ s \ {M!Max(s)} \in SUBSET (1 .. n)
  <2> SUFFICES ASSUME NEW s \in SUBSET (1 .. n), s # {}
               PROVE  M!Max(s) \in 1 .. n /\ q[M!Max(s)] \in 1 .. K
      OBVIOUS
  <2>1. M!Max(s) \in s
        BY LastIndex
  <2>2. PICK x \in 1 .. n : x = M!Max(s)
        BY <2>1
  <2>4. q \in Seq(1 .. K) /\ x \in 1 .. Len(q)
        BY <1>1, <1>2, <2>2
  <2>3. q[x] \in 1 .. K
        BY <2>4, Zenon, ElementIsIn
  <2> QED BY <2>2, <2>3
<1>8. it = [s \in SUBSET DOMAIN q |-> IF s = {} THEN w ELSE M!QueueData(it[s \ {M!Max(s)}], d, q[M!Max(s)])]
  <2>1. ASSUME NEW s \in SUBSET (1 .. n)
        PROVE  it[s] = IF s = {} THEN w ELSE M!QueueData(it[s \ {M!Max(s)}], d, q[M!Max(s)])
    <3>1. it[s] = IF s = {} THEN w ELSE F[<<it[s \ {M!Max(s)}], q[M!Max(s)]>>]
          BY <1>6 DEF Folding
    <3>2. s # {} => it[s \ {M!Max(s)}] \in X /\ q[M!Max(s)] \in 1 .. K
          BY <1>6, <1>7
    <3> QED BY <1>4, <3>1, <3>2
  <2>2. DOMAIN q = 1 .. n
        BY <1>1, <1>2
  <2>3. it = [s \in SUBSET (1 .. n) |-> it[s]]
        BY <1>6
  <2> QED BY <2>1, <2>2, <2>3
<1>9. PICK g : g = ShardsFold(w, d, q)
      OBVIOUS
<1>10. ShardsFolded(g, w, d, q)
  <2>1. ShardsFolded(it, w, d, q)
        BY <1>8 DEF ShardsFolded
  <2> QED BY <1>9, <2>1, Zenon DEF ShardsFold
<1>11. \A s \in SUBSET (1 .. n) :
         g[s] = IF s = {} THEN w ELSE M!QueueData(g[s \ {M!Max(s)}], d, q[M!Max(s)])
  <2>1. g = [s \in SUBSET DOMAIN q |-> IF s = {} THEN w ELSE M!QueueData(g[s \ {M!Max(s)}], d, q[M!Max(s)])]
        BY <1>10 DEF ShardsFolded
  <2>2. DOMAIN q = 1 .. n
        BY <1>1, <1>2
  <2> QED BY <2>1, <2>2
<1>12. g[{}] \in X
      BY <1>5, <1>11
<1>13. \A s \in SUBSET (1 .. n) : s # {} /\ g[s \ {M!Max(s)}] \in X => g[s] \in X
  <2> SUFFICES ASSUME NEW s \in SUBSET (1 .. n), s # {}, g[s \ {M!Max(s)}] \in X PROVE g[s] \in X
      OBVIOUS
  <2>1. q[M!Max(s)] \in 1 .. K
        BY <1>7
  <2>2. M!QueueData(g[s \ {M!Max(s)}], d, q[M!Max(s)]) \in X
        BY <1>3, <2>1
  <2> QED BY <1>11, <2>2
<1>14. g[1 .. n] \in X
      BY <1>12, <1>13, FoldStays
<1>15. M!QueueAll(w, d, shards) = g[1 .. n]
      BY <1>1, <1>2, <1>9, QueueAllIsFold
<1> QED BY <1>14, <1>15 DEF X

(* A media datagram. *)
LEMMA QueueMediaKeeps ==
  ASSUME ReceiverConstants, NEW v, Viewing(v), NEW d \in Datagram, d.kind = "media"
  PROVE  Like(M!QueueMedia(v, d), v)
<1>0. v \in Viewers /\ Assembled(v.asm) /\ Sequenced(v.seq) /\ v.queue \in Seq(Frames) /\ Len(v.queue) <= BatchSize
      /\ Like(v, v)
      BY DEF Viewing, Viewers, Like
<1>1. PICK r : r = IF K = 1 THEN [asm |-> v.asm, restored |-> {}] ELSE M!InGroup(v.asm, d)
      OBVIOUS
<1>2. Assembled(r.asm) /\ r.restored \in SUBSET (1 .. K)
  <2>1. Assembled(M!InGroup(v.asm, d).asm) /\ M!InGroup(v.asm, d).restored \in SUBSET (1 .. K)
        BY <1>0, InGroupKeeps
  <2> QED BY <1>0, <1>1, <2>1
<1>3. PICK w : w = [v EXCEPT !.asm = r.asm]
      OBVIOUS
<1>4. Like(w, v)
  <2>1. w = [v EXCEPT !.asm = r.asm, !.seq = v.seq, !.queue = v.queue]
        BY <1>0, <1>3 DEF Viewers
  <2> QED BY <1>0, <1>2, <2>1, TransportIsLike
<1>5. PICK restored : restored = M!QueueAll(w, d, r.restored)
      OBVIOUS
<1>6. Like(restored, v)
      BY <1>2, <1>4, <1>5, QueueAllKeeps
<1>7. M!QueueMedia(v, d) = IF d.shard = K + 1 THEN restored ELSE M!QueueData(restored, d, d.shard)
      BY <1>1, <1>3, <1>5 DEF M!QueueMedia, M!ParityShard
<1>8. CASE d.shard = K + 1
      BY <1>6, <1>7, <1>8
<1>9. CASE d.shard # K + 1
  <2>2. d.shard \in 1 .. K + 1
        BY DEF Datagram
  <2>3. K \in Nat
        BY DEF ReceiverConstants
  <2>1. d.shard \in 1 .. K
        BY <1>9, <2>2, <2>3
  <2> QED BY <1>6, <1>7, <1>9, <2>1, QueueDataKeeps
<1> QED BY <1>8, <1>9

(* What a step of the worker computes, and what holds of it at the step's ends. *)
Upward == Nacks \cup {M!Idr}
Shown == {{}} \cup {{f} : f \in Frames}
Works == [v : Viewers, up : SUBSET Upward, fed : Shown]
Working(s) == s \in Works /\ Viewing(s.v)
Good(s, shown) == Working(s) /\ Chained(s.v, s.fed) /\ (s.fed = shown \/ s.fed = {})
(* One that differs in the requests and their timing only. *)
Same(r, s) ==
  /\ r.fed = s.fed
  /\ \A f \in {"asm", "seq", "nack", "dec", "last", "awaiting", "incident", "queue", "shown", "hidden"} :
       r.v[f] = s.v[f]

(* The record of a step. *)
LEMMA WorkIs ==
  ASSUME NEW v, Viewing(v), NEW u \in SUBSET Upward, NEW f \in Shown
  PROVE  LET r == [v |-> v, up |-> u, fed |-> f]
         IN Working(r) /\ r.v = v /\ r.up = u /\ r.fed = f
BY DEF Working, Works, Viewing

(* What differs in the requests only is as good. *)
LEMMA SameIsGood ==
  ASSUME NEW s, NEW r, NEW shown, Good(s, shown), Working(r), Same(r, s)
  PROVE  Good(r, shown)
<1>1. r.v.dec = s.v.dec /\ r.v.awaiting = s.v.awaiting /\ r.v.last = s.v.last /\ r.fed = s.fed
      BY DEF Same
<1>2. Chained(s.v, s.fed) => Chained(r.v, r.fed)
      BY <1>1 DEF Chained
<1> QED BY <1>1, <1>2 DEF Good

(* A keyframe that is awaited leaves nothing to be chained. *)
LEMMA AwaitingIsGood ==
  ASSUME NEW r, NEW shown, Working(r), r.v.awaiting = TRUE \/ r.v.dec = FALSE, r.fed = shown \/ r.fed = {}
  PROVE  Good(r, shown)
BY DEF Good, Chained

(* Another time until the next request of a keyframe. *)
LEMMA GateKeeps ==
  ASSUME ReceiverConstants, NEW v, Viewing(v),
         NEW g \in 0 .. Cooldown
  PROVE  LET w == [v EXCEPT !.gate = g]
         IN /\ Viewing(w)
            /\ w.gate = g
            /\ \A f \in {"asm", "seq", "nack", "dec", "last", "awaiting", "incident", "queue", "shown", "hidden"} :
                 w[f] = v[f]
<1>0. v \in Viewers /\ Assembled(v.asm) /\ Sequenced(v.seq) /\ Len(v.queue) <= BatchSize
      BY DEF Viewing
<1>1. PICK w : w = [v EXCEPT !.gate = g]
      OBVIOUS
<1>2. w \in Viewers
      BY <1>0, <1>1 DEF Viewers
<1>3. w.gate = g
      BY <1>0, <1>1 DEF Viewers
<1>4. \A f \in {"asm", "seq", "nack", "dec", "last", "awaiting", "incident", "queue", "shown", "hidden"} : w[f] = v[f]
      BY <1>0, <1>1 DEF Viewers
<1>5. w.asm = v.asm /\ w.seq = v.seq /\ w.queue = v.queue
      BY <1>4
<1>6. Viewing(w)
      BY <1>0, <1>2, <1>3, <1>5 DEF Viewing
<1> QED BY <1>1, <1>3, <1>4, <1>6

(* A keyframe is awaited, or not. *)
LEMMA AwaitKeeps ==
  ASSUME ReceiverConstants, NEW v, Viewing(v),
         NEW b \in BOOLEAN
  PROVE  LET w == [v EXCEPT !.awaiting = b]
         IN /\ Viewing(w)
            /\ w.awaiting = b
            /\ \A f \in {"asm", "seq", "nack", "dec", "last", "gate", "incident", "queue", "shown", "hidden"} :
                 w[f] = v[f]
<1>0. v \in Viewers /\ Assembled(v.asm) /\ Sequenced(v.seq) /\ Len(v.queue) <= BatchSize
      BY DEF Viewing
<1>1. PICK w : w = [v EXCEPT !.awaiting = b]
      OBVIOUS
<1>2. w \in Viewers
      BY <1>0, <1>1 DEF Viewers
<1>3. w.awaiting = b
      BY <1>0, <1>1 DEF Viewers
<1>4. \A f \in {"asm", "seq", "nack", "dec", "last", "gate", "incident", "queue", "shown", "hidden"} : w[f] = v[f]
      BY <1>0, <1>1 DEF Viewers
<1>5. w.asm = v.asm /\ w.seq = v.seq /\ w.queue = v.queue
      BY <1>4
<1>6. Viewing(w)
      BY <1>0, <1>2, <1>3, <1>5 DEF Viewing
<1> QED BY <1>1, <1>3, <1>4, <1>6

(* A decoder, or none, and a keyframe awaited. *)
LEMMA DecoderKeeps ==
  ASSUME ReceiverConstants, NEW v, Viewing(v),
         NEW b \in BOOLEAN
  PROVE  LET w == [v EXCEPT !.dec = b, !.awaiting = TRUE]
         IN /\ Viewing(w)
            /\ w.dec = b
            /\ w.awaiting = TRUE
            /\ \A f \in {"asm", "seq", "nack", "last", "gate", "incident", "queue", "shown", "hidden"} :
                 w[f] = v[f]
<1>0. v \in Viewers /\ Assembled(v.asm) /\ Sequenced(v.seq) /\ Len(v.queue) <= BatchSize
      BY DEF Viewing
<1>1. PICK w : w = [v EXCEPT !.dec = b, !.awaiting = TRUE]
      OBVIOUS
<1>2. w \in Viewers
      BY <1>0, <1>1 DEF Viewers
<1>3. w.dec = b /\ w.awaiting = TRUE
      BY <1>0, <1>1 DEF Viewers
<1>4. \A f \in {"asm", "seq", "nack", "last", "gate", "incident", "queue", "shown", "hidden"} : w[f] = v[f]
      BY <1>0, <1>1 DEF Viewers
<1>5. w.asm = v.asm /\ w.seq = v.seq /\ w.queue = v.queue
      BY <1>4
<1>6. Viewing(w)
      BY <1>0, <1>2, <1>3, <1>5 DEF Viewing
<1> QED BY <1>1, <1>3, <1>4, <1>6

(* Another number presented last. *)
LEMMA LastKeeps ==
  ASSUME ReceiverConstants, NEW v, Viewing(v),
         NEW l \in SUBSET M!Numbers
  PROVE  LET w == [v EXCEPT !.last = l]
         IN /\ Viewing(w)
            /\ w.last = l
            /\ \A f \in {"asm", "seq", "nack", "dec", "awaiting", "gate", "incident", "queue", "shown", "hidden"} :
                 w[f] = v[f]
<1>0. v \in Viewers /\ Assembled(v.asm) /\ Sequenced(v.seq) /\ Len(v.queue) <= BatchSize
      BY DEF Viewing
<1>1. PICK w : w = [v EXCEPT !.last = l]
      OBVIOUS
<1>2. w \in Viewers
      BY <1>0, <1>1 DEF Viewers
<1>3. w.last = l
      BY <1>0, <1>1 DEF Viewers
<1>4. \A f \in {"asm", "seq", "nack", "dec", "awaiting", "gate", "incident", "queue", "shown", "hidden"} : w[f] = v[f]
      BY <1>0, <1>1 DEF Viewers
<1>5. w.asm = v.asm /\ w.seq = v.seq /\ w.queue = v.queue
      BY <1>4
<1>6. Viewing(w)
      BY <1>0, <1>2, <1>3, <1>5 DEF Viewing
<1> QED BY <1>1, <1>3, <1>4, <1>6

(* Another incident. *)
LEMMA IncidentKeeps ==
  ASSUME ReceiverConstants, NEW v, Viewing(v),
         NEW i \in SUBSET Incidents
  PROVE  LET w == [v EXCEPT !.incident = i]
         IN /\ Viewing(w)
            /\ w.incident = i
            /\ \A f \in {"asm", "seq", "nack", "dec", "last", "awaiting", "gate", "queue", "shown", "hidden"} :
                 w[f] = v[f]
<1>0. v \in Viewers /\ Assembled(v.asm) /\ Sequenced(v.seq) /\ Len(v.queue) <= BatchSize
      BY DEF Viewing
<1>1. PICK w : w = [v EXCEPT !.incident = i]
      OBVIOUS
<1>2. w \in Viewers
      BY <1>0, <1>1 DEF Viewers
<1>3. w.incident = i
      BY <1>0, <1>1 DEF Viewers
<1>4. \A f \in {"asm", "seq", "nack", "dec", "last", "awaiting", "gate", "queue", "shown", "hidden"} : w[f] = v[f]
      BY <1>0, <1>1 DEF Viewers
<1>5. w.asm = v.asm /\ w.seq = v.seq /\ w.queue = v.queue
      BY <1>4
<1>6. Viewing(w)
      BY <1>0, <1>2, <1>3, <1>5 DEF Viewing
<1> QED BY <1>1, <1>3, <1>4, <1>6

(* No wait and no incident. *)
LEMMA CalmedKeeps ==
  ASSUME ReceiverConstants, NEW v, Viewing(v),
         0 \in 0 .. Cooldown
  PROVE  LET w == [v EXCEPT !.gate = 0, !.incident = {}]
         IN /\ Viewing(w)
            /\ w.gate = 0
            /\ w.incident = {}
            /\ \A f \in {"asm", "seq", "nack", "dec", "last", "awaiting", "queue", "shown", "hidden"} :
                 w[f] = v[f]
<1>0. v \in Viewers /\ Assembled(v.asm) /\ Sequenced(v.seq) /\ Len(v.queue) <= BatchSize
      BY DEF Viewing
<1>1. PICK w : w = [v EXCEPT !.gate = 0, !.incident = {}]
      OBVIOUS
<1>2. w \in Viewers
      BY <1>0, <1>1 DEF Viewers
<1>3. w.gate = 0 /\ w.incident = {}
      BY <1>0, <1>1 DEF Viewers
<1>4. \A f \in {"asm", "seq", "nack", "dec", "last", "awaiting", "queue", "shown", "hidden"} : w[f] = v[f]
      BY <1>0, <1>1 DEF Viewers
<1>5. w.asm = v.asm /\ w.seq = v.seq /\ w.queue = v.queue
      BY <1>4
<1>6. Viewing(w)
      BY <1>0, <1>2, <1>3, <1>5 DEF Viewing
<1> QED BY <1>1, <1>3, <1>4, <1>6

(* Whether the batch showed anything. *)
LEMMA ShownKeeps ==
  ASSUME ReceiverConstants, NEW v, Viewing(v),
         NEW b \in BOOLEAN
  PROVE  LET w == [v EXCEPT !.shown = b]
         IN /\ Viewing(w)
            /\ w.shown = b
            /\ \A f \in {"asm", "seq", "nack", "dec", "last", "awaiting", "gate", "incident", "queue", "hidden"} :
                 w[f] = v[f]
<1>0. v \in Viewers /\ Assembled(v.asm) /\ Sequenced(v.seq) /\ Len(v.queue) <= BatchSize
      BY DEF Viewing
<1>1. PICK w : w = [v EXCEPT !.shown = b]
      OBVIOUS
<1>2. w \in Viewers
      BY <1>0, <1>1 DEF Viewers
<1>3. w.shown = b
      BY <1>0, <1>1 DEF Viewers
<1>4. \A f \in {"asm", "seq", "nack", "dec", "last", "awaiting", "gate", "incident", "queue", "hidden"} : w[f] = v[f]
      BY <1>0, <1>1 DEF Viewers
<1>5. w.asm = v.asm /\ w.seq = v.seq /\ w.queue = v.queue
      BY <1>4
<1>6. Viewing(w)
      BY <1>0, <1>2, <1>3, <1>5 DEF Viewing
<1> QED BY <1>1, <1>3, <1>4, <1>6

(* A picture. *)
LEMMA PictureKeeps ==
  ASSUME ReceiverConstants, NEW v, Viewing(v)
  PROVE  LET w == [v EXCEPT !.awaiting = FALSE, !.shown = TRUE]
         IN /\ Viewing(w)
            /\ w.awaiting = FALSE
            /\ w.shown = TRUE
            /\ \A f \in {"asm", "seq", "nack", "dec", "last", "gate", "incident", "queue", "hidden"} :
                 w[f] = v[f]
<1>0. v \in Viewers /\ Assembled(v.asm) /\ Sequenced(v.seq) /\ Len(v.queue) <= BatchSize
      BY DEF Viewing
<1>1. PICK w : w = [v EXCEPT !.awaiting = FALSE, !.shown = TRUE]
      OBVIOUS
<1>2. w \in Viewers
      BY <1>0, <1>1 DEF Viewers
<1>3. w.awaiting = FALSE /\ w.shown = TRUE
      BY <1>0, <1>1 DEF Viewers
<1>4. \A f \in {"asm", "seq", "nack", "dec", "last", "gate", "incident", "queue", "hidden"} : w[f] = v[f]
      BY <1>0, <1>1 DEF Viewers
<1>5. w.asm = v.asm /\ w.seq = v.seq /\ w.queue = v.queue
      BY <1>4
<1>6. Viewing(w)
      BY <1>0, <1>2, <1>3, <1>5 DEF Viewing
<1> QED BY <1>1, <1>3, <1>4, <1>6

(* The Surface goes. *)
LEMMA HiddenKeeps ==
  ASSUME ReceiverConstants, NEW v, Viewing(v)
  PROVE  LET w == [v EXCEPT !.hidden = TRUE, !.incident = {}]
         IN /\ Viewing(w)
            /\ w.hidden = TRUE
            /\ w.incident = {}
            /\ \A f \in {"asm", "seq", "nack", "dec", "last", "awaiting", "gate", "queue", "shown"} :
                 w[f] = v[f]
<1>0. v \in Viewers /\ Assembled(v.asm) /\ Sequenced(v.seq) /\ Len(v.queue) <= BatchSize
      BY DEF Viewing
<1>1. PICK w : w = [v EXCEPT !.hidden = TRUE, !.incident = {}]
      OBVIOUS
<1>2. w \in Viewers
      BY <1>0, <1>1 DEF Viewers
<1>3. w.hidden = TRUE /\ w.incident = {}
      BY <1>0, <1>1 DEF Viewers
<1>4. \A f \in {"asm", "seq", "nack", "dec", "last", "awaiting", "gate", "queue", "shown"} : w[f] = v[f]
      BY <1>0, <1>1 DEF Viewers
<1>5. w.asm = v.asm /\ w.seq = v.seq /\ w.queue = v.queue
      BY <1>4
<1>6. Viewing(w)
      BY <1>0, <1>2, <1>3, <1>5 DEF Viewing
<1> QED BY <1>1, <1>3, <1>4, <1>6

(* The Surface comes back. *)
LEMMA SurfaceKeeps ==
  ASSUME ReceiverConstants, NEW v, Viewing(v),
         Cooldown \in 0 .. Cooldown
  PROVE  LET w == [v EXCEPT !.hidden = FALSE, !.gate = Cooldown]
         IN /\ Viewing(w)
            /\ w.hidden = FALSE
            /\ w.gate = Cooldown
            /\ \A f \in {"asm", "seq", "nack", "dec", "last", "awaiting", "incident", "queue", "shown"} :
                 w[f] = v[f]
<1>0. v \in Viewers /\ Assembled(v.asm) /\ Sequenced(v.seq) /\ Len(v.queue) <= BatchSize
      BY DEF Viewing
<1>1. PICK w : w = [v EXCEPT !.hidden = FALSE, !.gate = Cooldown]
      OBVIOUS
<1>2. w \in Viewers
      BY <1>0, <1>1 DEF Viewers
<1>3. w.hidden = FALSE /\ w.gate = Cooldown
      BY <1>0, <1>1 DEF Viewers
<1>4. \A f \in {"asm", "seq", "nack", "dec", "last", "awaiting", "incident", "queue", "shown"} : w[f] = v[f]
      BY <1>0, <1>1 DEF Viewers
<1>5. w.asm = v.asm /\ w.seq = v.seq /\ w.queue = v.queue
      BY <1>4
<1>6. Viewing(w)
      BY <1>0, <1>2, <1>3, <1>5 DEF Viewing
<1> QED BY <1>1, <1>3, <1>4, <1>6

(* Another sequencer. *)
LEMMA SeqKeeps ==
  ASSUME ReceiverConstants, NEW v, Viewing(v),
         NEW s,
         Sequenced(s)
  PROVE  LET w == [v EXCEPT !.seq = s]
         IN /\ Viewing(w)
            /\ w.seq = s
            /\ \A f \in {"asm", "nack", "dec", "last", "awaiting", "gate", "incident", "queue", "shown", "hidden"} :
                 w[f] = v[f]
<1>0. v \in Viewers /\ Assembled(v.asm) /\ Sequenced(v.seq) /\ Len(v.queue) <= BatchSize
      BY DEF Viewing
<1>1. PICK w : w = [v EXCEPT !.seq = s]
      OBVIOUS
<1>2. w \in Viewers
      BY <1>0, <1>1 DEF Viewers, Sequenced
<1>3. w.seq = s
      BY <1>0, <1>1 DEF Viewers
<1>4. \A f \in {"asm", "nack", "dec", "last", "awaiting", "gate", "incident", "queue", "shown", "hidden"} : w[f] = v[f]
      BY <1>0, <1>1 DEF Viewers
<1>5. w.asm = v.asm /\ w.queue = v.queue
      BY <1>4
<1>6. Viewing(w)
      BY <1>0, <1>2, <1>3, <1>5 DEF Viewing
<1> QED BY <1>1, <1>3, <1>4, <1>6

(* Another assembly and sequencer, and nothing presented. *)
LEMMA TransportKeeps ==
  ASSUME ReceiverConstants, NEW v, Viewing(v),
         NEW a,
         Assembled(a),
         NEW s,
         Sequenced(s)
  PROVE  LET w == [v EXCEPT !.asm = a, !.seq = s, !.last = {}]
         IN /\ Viewing(w)
            /\ w.asm = a
            /\ w.seq = s
            /\ w.last = {}
            /\ \A f \in {"nack", "dec", "awaiting", "gate", "incident", "queue", "shown", "hidden"} :
                 w[f] = v[f]
<1>0. v \in Viewers /\ Assembled(v.asm) /\ Sequenced(v.seq) /\ Len(v.queue) <= BatchSize
      BY DEF Viewing
<1>1. PICK w : w = [v EXCEPT !.asm = a, !.seq = s, !.last = {}]
      OBVIOUS
<1>2. w \in Viewers
      BY <1>0, <1>1 DEF Viewers, Assembled, Sequenced
<1>3. w.asm = a /\ w.seq = s /\ w.last = {}
      BY <1>0, <1>1 DEF Viewers
<1>4. \A f \in {"nack", "dec", "awaiting", "gate", "incident", "queue", "shown", "hidden"} : w[f] = v[f]
      BY <1>0, <1>1 DEF Viewers
<1>5. w.queue = v.queue
      BY <1>4
<1>6. Viewing(w)
      BY <1>0, <1>2, <1>3, <1>5 DEF Viewing
<1> QED BY <1>1, <1>3, <1>4, <1>6

(* The result of a step by its parts. *)
Becoming(r, w, u, f) == Working(r) /\ r.v = w /\ r.up = u /\ r.fed = f

(* Only the viewer is another. *)
LEMMA ViewerIs ==
  ASSUME NEW s, Working(s), NEW w, Viewing(w)
  PROVE  Becoming([s EXCEPT !.v = w], w, s.up, s.fed)
<1>0. s \in Works /\ w \in Viewers
      BY DEF Working, Viewing
<1>1. PICK r : r = [s EXCEPT !.v = w]
      OBVIOUS
<1>2. r \in Works /\ r.v = w /\ r.up = s.up /\ r.fed = s.fed
      BY <1>0, <1>1 DEF Works
<1>3. Becoming(r, w, s.up, s.fed)
      BY <1>2 DEF Becoming, Working
<1> QED BY <1>1, <1>3

(* So are its requests. *)
LEMMA RequestsAre ==
  ASSUME NEW s, Working(s), NEW w, Viewing(w), NEW u \in SUBSET Upward
  PROVE  Becoming([s EXCEPT !.v = w, !.up = u], w, u, s.fed)
<1>0. s \in Works /\ w \in Viewers
      BY DEF Working, Viewing
<1>1. PICK r : r = [s EXCEPT !.v = w, !.up = u]
      OBVIOUS
<1>2. r \in Works /\ r.v = w /\ r.up = u /\ r.fed = s.fed
      BY <1>0, <1>1 DEF Works
<1>3. Becoming(r, w, u, s.fed)
      BY <1>2 DEF Becoming, Working
<1> QED BY <1>1, <1>3

(* So is the chain. *)
LEMMA ChainIs ==
  ASSUME NEW s, Working(s), NEW w, Viewing(w), NEW f \in Shown
  PROVE  Becoming([s EXCEPT !.v = w, !.fed = f], w, s.up, f)
<1>0. s \in Works /\ w \in Viewers
      BY DEF Working, Viewing
<1>1. PICK r : r = [s EXCEPT !.v = w, !.fed = f]
      OBVIOUS
<1>2. r \in Works /\ r.v = w /\ r.up = s.up /\ r.fed = f
      BY <1>0, <1>1 DEF Works
<1>3. Becoming(r, w, s.up, f)
      BY <1>2 DEF Becoming, Working
<1> QED BY <1>1, <1>3

(* A keyframe request. *)
LEMMA RequestIdrKeeps ==
  ASSUME ReceiverConstants, NEW s, Working(s)
  PROVE  Working(M!RequestIdr(s)) /\ Same(M!RequestIdr(s), s)
<1>0. Viewing(s.v) /\ s.up \in SUBSET Upward /\ Cooldown \in 0 .. Cooldown
      BY DEF Working, Works, ReceiverConstants
<1>1. PICK w : w = [s.v EXCEPT !.gate = Cooldown]
      OBVIOUS
<1>2. /\ Viewing(w)
      /\ \A f \in {"asm", "seq", "nack", "dec", "last", "awaiting", "incident", "queue", "shown", "hidden"} :
           w[f] = s.v[f]
      BY <1>0, <1>1, GateKeeps
<1>3. PICK u \in SUBSET Upward : u = s.up \cup {M!Idr}
      BY <1>0 DEF Upward
<1>4. PICK r : r = [s EXCEPT !.v = w, !.up = u]
      OBVIOUS
<1>5. Working(r) /\ r.v = w /\ r.fed = s.fed
  <2>1. Becoming(r, w, u, s.fed)
        BY <1>2, <1>3, <1>4, RequestsAre
  <2> QED BY <2>1 DEF Becoming
<1>6. Same(r, s)
      BY <1>2, <1>5 DEF Same
<1>7. [s EXCEPT !.v.gate = Cooldown, !.up = @ \cup {M!Idr}] = r
      BY <1>1, <1>3, <1>4
<1>8. M!RequestIdr(s) = s \/ M!RequestIdr(s) = r
      BY <1>7 DEF M!RequestIdr
<1>9. Same(s, s)
      BY DEF Same
<1> QED BY <1>5, <1>6, <1>8, <1>9

(* The decoder is replaced. *)
LEMMA ResetKeeps ==
  ASSUME ReceiverConstants, NEW s, Working(s)
  PROVE  LET r == M!ResetDecoder(s) IN Working(r) /\ r.fed = {} /\ r.v.dec = FALSE /\ r.up = s.up
<1>1. PICK w : w = [s.v EXCEPT !.dec = FALSE, !.awaiting = TRUE]
      OBVIOUS
<1>2. Viewing(w) /\ w.dec = FALSE
      BY <1>1, DecoderKeeps DEF Working
<1>3. PICK r : r = [s EXCEPT !.v = w, !.fed = {}]
      OBVIOUS
<1>4. Working(r) /\ r.v = w /\ r.fed = {} /\ r.up = s.up
  <2>1. {} \in Shown
        BY DEF Shown
  <2>2. Becoming(r, w, s.up, {})
        BY <1>2, <1>3, <2>1, ChainIs
  <2> QED BY <2>2 DEF Becoming
<1>5. M!ResetDecoder(s) = r
      BY <1>1, <1>3 DEF M!ResetDecoder
<1> QED BY <1>2, <1>4, <1>5

(* The decoder is flushed. *)
LEMMA ResyncKeeps ==
  ASSUME ReceiverConstants, NEW s, Working(s)
  PROVE  LET r == M!Resync(s) IN Working(r) /\ r.fed = {} /\ r.v.awaiting = TRUE /\ r.up = s.up
<1>1. PICK w : w = [s.v EXCEPT !.awaiting = TRUE]
      OBVIOUS
<1>2. Viewing(w) /\ w.awaiting = TRUE
      BY <1>1, AwaitKeeps DEF Working
<1>3. PICK r : r = [s EXCEPT !.v = w, !.fed = {}]
      OBVIOUS
<1>4. Working(r) /\ r.v = w /\ r.fed = {} /\ r.up = s.up
  <2>1. {} \in Shown
        BY DEF Shown
  <2>2. Becoming(r, w, s.up, {})
        BY <1>2, <1>3, <2>1, ChainIs
  <2> QED BY <2>2 DEF Becoming
<1>5. M!Resync(s) = r
      BY <1>1, <1>3 DEF M!Resync
<1> QED BY <1>2, <1>4, <1>5

(* Nothing is left of an assembly. *)
LEMMA EmptyIsAssembled ==
  ASSUME ReceiverConstants
  PROVE  Assembled(M!Empty)
<1>1. PICK e : e = <<>>
      OBVIOUS
<1>2. e \in Seq(Entries) /\ e \in Seq(M!Numbers) /\ Len(e) = 0
      BY <1>1
<1>3. PICK a : a = [partial |-> e, recent |-> e, groups |-> e, done |-> e]
      OBVIOUS
<1>4. a \in Assemblies /\ a.partial = e /\ a.recent = e /\ a.groups = e /\ a.done = e
      BY <1>2, <1>3 DEF Assemblies
<1>5. Assembled(a)
      BY <1>2, <1>4 DEF Assembled, ReceiverConstants
<1>6. M!Empty = a
      BY <1>1, <1>3 DEF M!Empty
<1> QED BY <1>5, <1>6

(* The transport begins anew. *)
LEMMA ClearKeeps ==
  ASSUME ReceiverConstants, NEW s, Working(s)
  PROVE  Working(M!Clear(s)) /\ M!Clear(s).fed = s.fed
<1>0. Viewing(s.v) /\ Sequenced(s.v.seq)
      BY DEF Working, Viewing
<1>1. PICK a, q : a = M!Empty /\ q = M!Cleared(s.v.seq)
      OBVIOUS
<1>2. Assembled(a) /\ Sequenced(q)
      BY <1>0, <1>1, EmptyIsAssembled, HoldingKeeps
<1>3. PICK w : w = [s.v EXCEPT !.asm = a, !.seq = q, !.last = {}]
      OBVIOUS
<1>4. Viewing(w)
      BY <1>0, <1>2, <1>3, TransportKeeps
<1>5. PICK r : r = [s EXCEPT !.v = w]
      OBVIOUS
<1>6. Working(r) /\ r.fed = s.fed
  <2>1. Becoming(r, w, s.up, s.fed)
        BY <1>4, <1>5, ViewerIs
  <2> QED BY <2>1 DEF Becoming
<1>7. M!Clear(s) = r
      BY <1>1, <1>3, <1>5 DEF M!Clear
<1> QED BY <1>6, <1>7

(* A viewer that differs in neither the decoder nor what was presented last is as good. *)
LEMMA UnchainedIsGood ==
  ASSUME NEW s, NEW r, NEW shown, Good(s, shown), Working(r), r.fed = s.fed, r.v.dec = s.v.dec,
         r.v.awaiting = s.v.awaiting, r.v.last = s.v.last
  PROVE  Good(r, shown)
<1>1. Chained(s.v, s.fed) => Chained(r.v, r.fed)
      BY DEF Chained
<1> QED BY <1>1 DEF Good

(* The requester ticks. *)
LEMMA TickedKeeps ==
  ASSUME ReceiverConstants, NEW s, NEW shown, Good(s, shown), NEW q, Sequenced(q), NEW n \in Requesters,
         NEW nacks \in SUBSET Nacks
  PROVE  Good([s EXCEPT !.v.seq = q, !.v.nack = n, !.up = @ \cup nacks], shown)
<1>1. Working(s) /\ Viewing(s.v) /\ s.up \in SUBSET Upward
      BY DEF Good, Working, Works
<1>2. PICK w : w = [s.v EXCEPT !.seq = q, !.nack = n]
      OBVIOUS
<1>3. Viewing(w) /\ w.dec = s.v.dec /\ w.awaiting = s.v.awaiting /\ w.last = s.v.last
  <2>0. s.v \in Viewers /\ Assembled(s.v.asm) /\ Len(s.v.queue) <= BatchSize /\ q \in Sequencers
        BY <1>1 DEF Viewing, Sequenced
  <2>1. w \in Viewers
        BY <1>2, <2>0 DEF Viewers
  <2>2. w.asm = s.v.asm /\ w.queue = s.v.queue /\ w.seq = q
        BY <1>2, <2>0 DEF Viewers
  <2>3. w.dec = s.v.dec /\ w.awaiting = s.v.awaiting /\ w.last = s.v.last
        BY <1>2, <2>0 DEF Viewers
  <2> QED BY <2>0, <2>1, <2>2, <2>3 DEF Viewing
<1>4. PICK u \in SUBSET Upward : u = s.up \cup nacks
      BY <1>1 DEF Upward
<1>5. PICK r : r = [s EXCEPT !.v = w, !.up = u]
      OBVIOUS
<1>6. Becoming(r, w, u, s.fed)
      BY <1>1, <1>3, <1>4, <1>5, RequestsAre
<1>7. Good(r, shown)
      BY <1>3, <1>6, UnchainedIsGood DEF Becoming
<1>8. [s EXCEPT !.v.seq = q, !.v.nack = n, !.up = @ \cup nacks] = r
      BY <1>2, <1>4, <1>5
<1> QED BY <1>7, <1>8

(* What the requester does at the top of an iteration. *)
LEMMA TopKeeps ==
  ASSUME ReceiverConstants, NEW s, NEW shown, Good(s, shown)
  PROVE  Good(M!Top(s), shown)
<1>1. PICK a : a = IF s.v.awaiting THEN M!RequestIdr(s) ELSE s
      OBVIOUS
<1>2. Good(a, shown)
  <2>1. Working(s)
        BY DEF Good
  <2>2. Working(M!RequestIdr(s)) /\ Same(M!RequestIdr(s), s)
        BY <2>1, RequestIdrKeeps
  <2>3. Good(M!RequestIdr(s), shown)
        BY <2>2, SameIsGood
  <2> QED BY <1>1, <2>3
<1>3. Working(a) /\ Viewing(a.v) /\ a.up \in SUBSET Upward /\ Sequenced(a.v.seq)
      /\ a.v.nack \in Requesters /\ a.v.awaiting \in BOOLEAN
  <2>1. Working(a) /\ Viewing(a.v) /\ a.up \in SUBSET Upward
        BY <1>2 DEF Good, Working, Works
  <2>2. a.v \in Viewers /\ Sequenced(a.v.seq)
        BY <2>1 DEF Viewing
  <2> QED BY <2>1, <2>2 DEF Viewers
<1>4. PICK m : m = M!MissingOf(a.v)
      OBVIOUS
<1>5. \A h \in M!Numbers : m[h] \in SUBSET SUBSET (1 .. K)
  <2> SUFFICES ASSUME NEW h \in M!Numbers PROVE m[h] \in SUBSET SUBSET (1 .. K)
      OBVIOUS
  <2>1. m[h] = M!Missing(a.v.asm, h)
        BY <1>4 DEF M!MissingOf
  <2> QED BY <2>1, MissingIsData
<1>6. PICK tick : tick = M!NackTick(a.v.seq, a.v.nack, m, a.v.asm.recent, a.v.awaiting, 1 .. K)
      OBVIOUS
<1>7. Sequenced(tick.seq) /\ tick.nack \in Requesters /\ tick.asks \subseteq Nacks
  <2>1. PICK b \in BOOLEAN : b = a.v.awaiting
        BY <1>3
  <2>2. TickKept(M!NackTick(a.v.seq, a.v.nack, m, a.v.asm.recent, b, 1 .. K), a.v.seq)
        BY <1>3, <1>5, NackTickKeeps
  <2> QED BY <1>6, <2>1, <2>2 DEF TickKept
<1>8. PICK q, n, asked : q = tick.seq /\ n = tick.nack /\ asked = tick.asks
      OBVIOUS
<1>9. Sequenced(q) /\ n \in Requesters /\ asked \in SUBSET Nacks
      BY <1>7, <1>8
<1>10. Good([a EXCEPT !.v.seq = q, !.v.nack = n, !.up = @ \cup asked], shown)
       BY <1>2, <1>9, TickedKeeps
<1>11. M!Top(s) = [a EXCEPT !.v.seq = tick.seq, !.v.nack = tick.nack, !.up = @ \cup tick.asks]
       BY <1>1, <1>4, <1>6 DEF M!Top, M!Data
<1> QED BY <1>8, <1>10, <1>11

(* The grace is configured before a packet is taken. *)
LEMMA GraceKeeps ==
  ASSUME ReceiverConstants, NEW s, NEW shown, Good(s, shown)
  PROVE  Good([s EXCEPT !.v.seq = M!ConfigureGrace(@, ~s.v.awaiting)], shown)
<1>1. Working(s) /\ Viewing(s.v) /\ Sequenced(s.v.seq) /\ s.v.awaiting \in BOOLEAN
      BY DEF Good, Working, Viewing, Viewers
<1>2. PICK b \in BOOLEAN : b = ~s.v.awaiting
      BY <1>1
<1>3. PICK q : q = M!ConfigureGrace(s.v.seq, b)
      OBVIOUS
<1>4. Sequenced(q)
      BY <1>1, <1>3, HoldingKeeps
<1>5. PICK w : w = [s.v EXCEPT !.seq = q]
      OBVIOUS
<1>6. Viewing(w) /\ w.dec = s.v.dec /\ w.awaiting = s.v.awaiting /\ w.last = s.v.last
      BY <1>1, <1>4, <1>5, SeqKeeps
<1>7. PICK r : r = [s EXCEPT !.v = w]
      OBVIOUS
<1>8. Becoming(r, w, s.up, s.fed)
      BY <1>1, <1>6, <1>7, ViewerIs
<1>9. Good(r, shown)
      BY <1>6, <1>8, UnchainedIsGood DEF Becoming
<1>10. [s EXCEPT !.v.seq = M!ConfigureGrace(@, ~s.v.awaiting)] = r
       BY <1>2, <1>3, <1>5, <1>7
<1> QED BY <1>9, <1>10

(* A configuration: there is a decoder, and a keyframe is awaited. *)
LEMMA ConfigureKeeps ==
  ASSUME ReceiverConstants, NEW s, NEW shown, Good(s, shown)
  PROVE  Good(M!Configure(s), shown)
<1>1. Working(s) /\ Viewing(s.v) /\ (s.fed = shown \/ s.fed = {})
      BY DEF Good, Working
<1>2. PICK w : w = [s.v EXCEPT !.dec = TRUE, !.awaiting = TRUE]
      OBVIOUS
<1>3. Viewing(w) /\ w.awaiting = TRUE
      BY <1>1, <1>2, DecoderKeeps
<1>4. PICK r : r = [s EXCEPT !.v = w]
      OBVIOUS
<1>5. Becoming(r, w, s.up, s.fed)
      BY <1>1, <1>3, <1>4, ViewerIs
<1>6. Good(r, shown)
      BY <1>1, <1>3, <1>5, AwaitingIsGood DEF Becoming
<1>7. M!Configure(s) = r
      BY <1>2, <1>4 DEF M!Configure
<1> QED BY <1>6, <1>7

(* A fragment of an access unit. *)
LEMMA MediaKeeps ==
  ASSUME ReceiverConstants, NEW s, NEW shown, Good(s, shown), NEW d \in Datagram, d.kind = "media"
  PROVE  Good([s EXCEPT !.v = M!QueueMedia(@, d)], shown)
<1>1. Working(s) /\ Viewing(s.v)
      BY DEF Good, Working
<1>2. PICK w : w = M!QueueMedia(s.v, d)
      OBVIOUS
<1>3. Like(w, s.v)
      BY <1>1, <1>2, QueueMediaKeeps
<1>4. Viewing(w) /\ w.dec = s.v.dec /\ w.awaiting = s.v.awaiting /\ w.last = s.v.last
      BY <1>3 DEF Like
<1>5. PICK r : r = [s EXCEPT !.v = w]
      OBVIOUS
<1>6. Becoming(r, w, s.up, s.fed)
      BY <1>1, <1>4, <1>5, ViewerIs
<1>7. Good(r, shown)
      BY <1>4, <1>6, UnchainedIsGood DEF Becoming
<1> QED BY <1>2, <1>5, <1>7

(* The host sends from another port. *)
LEMMA MovedKeeps ==
  ASSUME ReceiverConstants, NEW s, NEW shown, Good(s, shown)
  PROVE  Good(M!RequestIdr([M!ResetDecoder(M!Clear(s)) EXCEPT !.v.gate = 0, !.v.incident = {}]), shown)
<1>1. PICK c : c = M!ResetDecoder(M!Clear(s))
      OBVIOUS
<1>2. Working(c) /\ c.fed = {} /\ c.v.dec = FALSE /\ Viewing(c.v)
  <2>1. Working(M!Clear(s))
        BY ClearKeeps DEF Good
  <2> QED BY <1>1, <2>1, ResetKeeps DEF Working
<1>3. PICK w : w = [c.v EXCEPT !.gate = 0, !.incident = {}]
      OBVIOUS
<1>4. Viewing(w) /\ w.dec = c.v.dec
  <2>1. 0 \in 0 .. Cooldown
        BY DEF ReceiverConstants
  <2> QED BY <1>2, <1>3, <2>1, CalmedKeeps
<1>5. PICK r : r = [c EXCEPT !.v = w]
      OBVIOUS
<1>6. Becoming(r, w, c.up, c.fed)
      BY <1>2, <1>4, <1>5, ViewerIs
<1>7. Good(r, shown)
      BY <1>2, <1>4, <1>6, AwaitingIsGood DEF Becoming
<1>8. [c EXCEPT !.v.gate = 0, !.v.incident = {}] = r
      BY <1>3, <1>5
<1>9. Good(M!RequestIdr(r), shown)
  <2>1. Working(r)
        BY <1>7 DEF Good
  <2>2. Working(M!RequestIdr(r)) /\ Same(M!RequestIdr(r), r)
        BY <2>1, RequestIdrKeeps
  <2> QED BY <1>7, <2>2, SameIsGood
<1> QED BY <1>1, <1>8, <1>9

(* A challenge, and a Surface: a keyframe is asked for whatever the cooldown says. *)
LEMMA ChallengeKeeps ==
  ASSUME ReceiverConstants, NEW s, NEW shown, Good(s, shown)
  PROVE  Good([s EXCEPT !.v.gate = Cooldown, !.up = @ \cup {M!Idr}], shown)
<1>0. Working(s) /\ Viewing(s.v) /\ s.up \in SUBSET Upward /\ Cooldown \in 0 .. Cooldown
      BY DEF Good, Working, Works, ReceiverConstants
<1>1. PICK w : w = [s.v EXCEPT !.gate = Cooldown]
      OBVIOUS
<1>2. Viewing(w) /\ w.dec = s.v.dec /\ w.awaiting = s.v.awaiting /\ w.last = s.v.last
      BY <1>0, <1>1, GateKeeps
<1>3. PICK u \in SUBSET Upward : u = s.up \cup {M!Idr}
      BY <1>0 DEF Upward
<1>4. PICK r : r = [s EXCEPT !.v = w, !.up = u]
      OBVIOUS
<1>5. Becoming(r, w, u, s.fed)
      BY <1>0, <1>2, <1>3, <1>4, RequestsAre
<1>6. Good(r, shown)
      BY <1>2, <1>5, UnchainedIsGood DEF Becoming
<1>7. [s EXCEPT !.v.gate = Cooldown, !.up = @ \cup {M!Idr}] = r
      BY <1>1, <1>3, <1>4
<1> QED BY <1>6, <1>7

(* A datagram. *)
LEMMA AcceptKeeps ==
  ASSUME ReceiverConstants, NEW s, NEW shown, Good(s, shown), NEW d \in Datagram
  PROVE  Good(M!Accept(s, d), shown)
<1>0. d.kind \in {"media", "config", "moved", "challenge"}
      BY DEF Datagram
<1>1. CASE d.kind = "moved"
  <2>1. M!Accept(s, d) = M!RequestIdr([M!ResetDecoder(M!Clear(s)) EXCEPT !.v.gate = 0, !.v.incident = {}])
        BY <1>1 DEF M!Accept
  <2>2. Good(M!RequestIdr([M!ResetDecoder(M!Clear(s)) EXCEPT !.v.gate = 0, !.v.incident = {}]), shown)
        BY MovedKeeps
  <2> QED BY <2>1, <2>2
<1>2. CASE d.kind = "challenge"
  <2>1. M!Accept(s, d) = [s EXCEPT !.v.gate = Cooldown, !.up = @ \cup {M!Idr}]
        BY <1>2 DEF M!Accept
  <2> QED BY <2>1, ChallengeKeeps
<1>3. ASSUME d.kind = "config" \/ d.kind = "media" PROVE Good(M!Accept(s, d), shown)
  <2>1. PICK g : g = [s EXCEPT !.v.seq = M!ConfigureGrace(@, ~s.v.awaiting)]
        OBVIOUS
  <2>2. Good(g, shown)
        BY <2>1, GraceKeeps
  <2>3. M!Accept(s, d) = IF d.kind = "config" THEN M!Configure(g) ELSE [g EXCEPT !.v = M!QueueMedia(@, d)]
        BY <1>3, <2>1 DEF M!Accept
  <2>4. CASE d.kind = "config"
        BY <2>2, <2>3, <2>4, ConfigureKeeps
  <2>5. CASE d.kind = "media"
    <3>1. M!Accept(s, d) = [g EXCEPT !.v = M!QueueMedia(@, d)]
          BY <2>3, <2>5
    <3> QED BY <2>2, <2>5, <3>1, MediaKeeps
  <2> QED BY <1>3, <2>4, <2>5
<1> QED BY <1>0, <1>1, <1>2, <1>3

(* The equation of the fold over a batch. *)
BatchFolded(it, s, q) ==
  it = [p \in SUBSET DOMAIN q |-> IF p = {} THEN s
                                  ELSE M!Accept(it[p \ {M!Max(p)}], q[M!Max(p)])]
BatchFold(s, q) == CHOOSE it : BatchFolded(it, s, q)

(* Taking a batch is that fold. *)
LEMMA BatchIsFold ==
  ASSUME NEW s, NEW q
  PROVE  M!FoldLeft(LAMBDA t, d : M!Accept(t, d), s, q) = BatchFold(s, q)[DOMAIN q]
BY DEF M!FoldLeft, M!MapThenFoldSet, BatchFold, BatchFolded

(* A batch of datagrams. *)
LEMMA BatchKeeps ==
  ASSUME ReceiverConstants, NEW s, NEW shown, Good(s, shown), NEW q \in Seq(Datagram)
  PROVE  Good(M!FoldLeft(LAMBDA t, d : M!Accept(t, d), s, q), shown)
<1>1. PICK n \in Nat : n = Len(q) /\ DOMAIN q = 1 .. n
      OBVIOUS
<1> DEFINE X == {x \in Works : Good(x, shown)}
           F == [p \in X \X Datagram |-> M!Accept(p[1], p[2])]
<1>2. ASSUME NEW x \in X, NEW d \in Datagram PROVE M!Accept(x, d) \in X
  <2>1. Good(M!Accept(x, d), shown)
        BY AcceptKeeps
  <2> QED BY <2>1 DEF Good, Working
<1>3. F \in [X \X Datagram -> X] /\ \A x \in X, d \in Datagram : F[<<x, d>>] = M!Accept(x, d)
      BY <1>2
<1>4. s \in X
      BY DEF Good, Working
<1> HIDE DEF X, F
<1>5. PICK it \in [SUBSET (1 .. n) -> X] : Folding(it, n, q, s, F)
      BY <1>1, <1>3, <1>4, FoldExists
<1>6. \A p \in SUBSET (1 .. n) : p # {} => M!Max(p) \in 1 .. n /\ q[M!Max(p)] \in Datagram
                                            /\ p \ {M!Max(p)} \in SUBSET (1 .. n)
  <2> SUFFICES ASSUME NEW p \in SUBSET (1 .. n), p # {}
               PROVE  M!Max(p) \in 1 .. n /\ q[M!Max(p)] \in Datagram
      OBVIOUS
  <2>1. M!Max(p) \in p
        BY LastIndex
  <2>2. PICK x \in 1 .. n : x = M!Max(p)
        BY <2>1
  <2>3. q[x] \in Datagram
        BY <1>1, <2>2, Zenon, ElementIsIn
  <2> QED BY <2>2, <2>3
<1>7. it = [p \in SUBSET DOMAIN q |-> IF p = {} THEN s ELSE M!Accept(it[p \ {M!Max(p)}], q[M!Max(p)])]
  <2>1. ASSUME NEW p \in SUBSET (1 .. n)
        PROVE  it[p] = IF p = {} THEN s ELSE M!Accept(it[p \ {M!Max(p)}], q[M!Max(p)])
    <3>1. it[p] = IF p = {} THEN s ELSE F[<<it[p \ {M!Max(p)}], q[M!Max(p)]>>]
          BY <1>5 DEF Folding
    <3>2. p # {} => it[p \ {M!Max(p)}] \in X /\ q[M!Max(p)] \in Datagram
          BY <1>5, <1>6
    <3> QED BY <1>3, <3>1, <3>2
  <2>2. it = [p \in SUBSET (1 .. n) |-> it[p]]
        BY <1>5
  <2> QED BY <1>1, <2>1, <2>2
<1>8. PICK g : g = BatchFold(s, q)
      OBVIOUS
<1>9. BatchFolded(g, s, q)
  <2>1. BatchFolded(it, s, q)
        BY <1>7 DEF BatchFolded
  <2> QED BY <1>8, <2>1, Zenon DEF BatchFold
<1>10. \A p \in SUBSET (1 .. n) :
         g[p] = IF p = {} THEN s ELSE M!Accept(g[p \ {M!Max(p)}], q[M!Max(p)])
  <2>1. g = [p \in SUBSET DOMAIN q |-> IF p = {} THEN s ELSE M!Accept(g[p \ {M!Max(p)}], q[M!Max(p)])]
        BY <1>9 DEF BatchFolded
  <2> QED BY <1>1, <2>1
<1>11. g[{}] \in X
       BY <1>4, <1>10
<1>12. \A p \in SUBSET (1 .. n) : p # {} /\ g[p \ {M!Max(p)}] \in X => g[p] \in X
  <2> SUFFICES ASSUME NEW p \in SUBSET (1 .. n), p # {}, g[p \ {M!Max(p)}] \in X PROVE g[p] \in X
      OBVIOUS
  <2>1. q[M!Max(p)] \in Datagram
        BY <1>6
  <2>2. M!Accept(g[p \ {M!Max(p)}], q[M!Max(p)]) \in X
        BY <1>2, <2>1
  <2> QED BY <1>10, <2>2
<1>13. g[1 .. n] \in X
       BY <1>11, <1>12, FoldStays
<1>14. M!FoldLeft(LAMBDA t, d : M!Accept(t, d), s, q) = g[1 .. n]
       BY <1>1, <1>8, BatchIsFold
<1> QED BY <1>13, <1>14 DEF X

(* What is overdue, when no datagram came. *)
LEMMA OverdueKeeps ==
  ASSUME ReceiverConstants, NEW s, NEW shown, Good(s, shown)
  PROVE  LET drained == M!DrainExpired(s.v.seq)
         IN Good([s EXCEPT !.v.seq = drained.seq, !.v.queue = M!Queued(s.v, drained.frames)], shown)
<1>1. Working(s) /\ Viewing(s.v) /\ Sequenced(s.v.seq)
      BY DEF Good, Working, Viewing
<1>2. PICK p, frames : p = M!DrainExpired(s.v.seq).seq /\ frames = M!DrainExpired(s.v.seq).frames
      OBVIOUS
<1>3. Sequenced(p) /\ frames \in Seq(Frames)
      BY <1>1, <1>2, DrainExpiredKeeps
<1>4. PICK q : q = M!Queued(s.v, frames)
      OBVIOUS
<1>5. q \in Seq(Frames) /\ Len(q) <= BatchSize
      BY <1>1, <1>3, <1>4, QueuedKeeps
<1>6. PICK w : w = [s.v EXCEPT !.seq = p, !.queue = q]
      OBVIOUS
<1>7. Viewing(w) /\ w.dec = s.v.dec /\ w.awaiting = s.v.awaiting /\ w.last = s.v.last
  <2>0. s.v \in Viewers /\ Assembled(s.v.asm) /\ p \in Sequencers
        BY <1>1, <1>3 DEF Viewing, Sequenced
  <2>1. w \in Viewers
        BY <1>5, <1>6, <2>0 DEF Viewers
  <2>2. w.asm = s.v.asm /\ w.queue = q /\ w.seq = p
        BY <1>6, <2>0 DEF Viewers
  <2>3. w.dec = s.v.dec /\ w.awaiting = s.v.awaiting /\ w.last = s.v.last
        BY <1>6, <2>0 DEF Viewers
  <2> QED BY <1>3, <1>5, <2>0, <2>1, <2>2, <2>3 DEF Viewing
<1>8. PICK r : r = [s EXCEPT !.v = w]
      OBVIOUS
<1>9. Becoming(r, w, s.up, s.fed)
      BY <1>1, <1>7, <1>8, ViewerIs
<1>10. Good(r, shown)
       BY <1>7, <1>9, UnchainedIsGood DEF Becoming
<1>11. [s EXCEPT !.v.seq = p, !.v.queue = q] = r
       BY <1>6, <1>8
<1> QED BY <1>2, <1>4, <1>10, <1>11

(* A request of a keyframe disturbs nothing. *)
LEMMA RequestIsGood ==
  ASSUME ReceiverConstants, NEW s, NEW shown, Good(s, shown)
  PROVE  Good(M!RequestIdr(s), shown)
<1>1. Working(s)
      BY DEF Good
<1>2. Working(M!RequestIdr(s)) /\ Same(M!RequestIdr(s), s)
      BY <1>1, RequestIdrKeeps
<1> QED BY <1>2, SameIsGood

(* Another incident. *)
LEMMA IncidentIsGood ==
  ASSUME ReceiverConstants, NEW s, NEW shown, Good(s, shown), NEW i \in SUBSET Incidents
  PROVE  Good([s EXCEPT !.v.incident = i], shown)
<1>1. Working(s) /\ Viewing(s.v)
      BY DEF Good, Working
<1>2. PICK w : w = [s.v EXCEPT !.incident = i]
      OBVIOUS
<1>3. Viewing(w) /\ w.dec = s.v.dec /\ w.awaiting = s.v.awaiting /\ w.last = s.v.last
      BY <1>1, <1>2, IncidentKeeps
<1>4. PICK r : r = [s EXCEPT !.v = w]
      OBVIOUS
<1>5. Becoming(r, w, s.up, s.fed)
      BY <1>1, <1>3, <1>4, ViewerIs
<1>6. Good(r, shown)
      BY <1>3, <1>5, UnchainedIsGood DEF Becoming
<1>7. [s EXCEPT !.v.incident = i] = r
      BY <1>2, <1>4
<1> QED BY <1>6, <1>7

(* A transport and a decoder that begin anew. *)
LEMMA RenewedIsGood ==
  ASSUME ReceiverConstants, NEW s, Working(s), NEW shown
  PROVE  Good(M!ResetDecoder(M!Clear(s)), shown)
<1>1. PICK c : c = M!Clear(s)
      OBVIOUS
<1>2. Working(c)
      BY <1>1, ClearKeeps
<1>3. PICK r : r = M!ResetDecoder(c)
      OBVIOUS
<1>4. Working(r) /\ r.fed = {} /\ r.v.dec = FALSE
      BY <1>2, <1>3, ResetKeeps
<1> QED BY <1>1, <1>3, <1>4, AwaitingIsGood

(* The health of the picture is observed. *)
LEMMA ObserveKeeps ==
  ASSUME ReceiverConstants, NEW s, NEW shown, Good(s, shown)
  PROVE  Good(M!Observe(s), shown)
<1>0. Working(s) /\ s.v.incident \in SUBSET Incidents
      BY DEF Good, Working, Viewing, Viewers
<1>1. PICK i \in Incidents : i = IF s.v.incident = {} THEN [age |-> 0, idr |-> FALSE, rebuilt |-> FALSE]
                                 ELSE CHOOSE x \in s.v.incident : TRUE
  <2>1. [age |-> 0, idr |-> FALSE, rebuilt |-> FALSE] \in Incidents
        BY DEF Incidents
  <2>2. s.v.incident # {} => (CHOOSE x \in s.v.incident : TRUE) \in s.v.incident
        OBVIOUS
  <2> QED BY <1>0, <2>1, <2>2
<1>2. PICK built : built = [i EXCEPT !.rebuilt = TRUE]
      OBVIOUS
<1>3. PICK asked : asked = [i EXCEPT !.idr = TRUE]
      OBVIOUS
<1>4. built \in Incidents /\ asked \in Incidents
      BY <1>1, <1>2, <1>3 DEF Incidents
<1>5. PICK n : n = M!ResetDecoder(M!Clear(s))
      OBVIOUS
<1>6. Good(n, shown)
      BY <1>0, <1>5, RenewedIsGood
<1>7. {i} \in SUBSET Incidents /\ {built} \in SUBSET Incidents /\ {asked} \in SUBSET Incidents
      /\ {} \in SUBSET Incidents
      BY <1>1, <1>4
<1>8. Good([s EXCEPT !.v.incident = {}], shown)
      BY <1>7, IncidentIsGood
<1>9. Good([s EXCEPT !.v.incident = {i}], shown)
      BY <1>7, IncidentIsGood
<1>10. Good(M!RequestIdr([n EXCEPT !.v.incident = {built}]), shown)
  <2>1. Good([n EXCEPT !.v.incident = {built}], shown)
        BY <1>6, <1>7, IncidentIsGood
  <2> QED BY <2>1, RequestIsGood
<1>11. Good(M!RequestIdr([s EXCEPT !.v.incident = {asked}]), shown)
  <2>1. Good([s EXCEPT !.v.incident = {asked}], shown)
        BY <1>7, IncidentIsGood
  <2> QED BY <2>1, RequestIsGood
<1>12. \/ M!Observe(s) = [s EXCEPT !.v.incident = {}]
       \/ M!Observe(s) = M!RequestIdr([n EXCEPT !.v.incident = {built}])
       \/ M!Observe(s) = M!RequestIdr([s EXCEPT !.v.incident = {asked}])
       \/ M!Observe(s) = [s EXCEPT !.v.incident = {i}]
       BY <1>1, <1>2, <1>3, <1>5 DEF M!Observe
<1> QED BY <1>8, <1>9, <1>10, <1>11, <1>12

(* The batch may end. *)
LEMMA EndedKeeps ==
  ASSUME ReceiverConstants, NEW s, NEW shown, Good(s, shown)
  PROVE  Good(M!Ended(s), shown)
<1>1. PICK o : o = M!Observe(s)
      OBVIOUS
<1>2. Good(o, shown) /\ Working(o) /\ Viewing(o.v)
  <2>1. Good(o, shown)
        BY <1>1, ObserveKeeps
  <2> QED BY <2>1 DEF Good, Working
<1>3. PICK w : w = [o.v EXCEPT !.shown = FALSE]
      OBVIOUS
<1>4. Viewing(w) /\ w.dec = o.v.dec /\ w.awaiting = o.v.awaiting /\ w.last = o.v.last
      BY <1>2, <1>3, ShownKeeps
<1>5. PICK r : r = [o EXCEPT !.v = w]
      OBVIOUS
<1>6. Becoming(r, w, o.up, o.fed)
      BY <1>2, <1>4, <1>5, ViewerIs
<1>7. Good(r, shown)
      BY <1>2, <1>4, <1>6, UnchainedIsGood DEF Becoming
<1>8. M!Ended(s) = s \/ M!Ended(s) = [o EXCEPT !.v.shown = FALSE]
      BY <1>1 DEF M!Ended
<1>9. [o EXCEPT !.v.shown = FALSE] = r
      BY <1>3, <1>5
<1> QED BY <1>7, <1>8, <1>9

(* What an access unit is met with: the decoder's chain is as it was. *)
Met(c, s, f) ==
  /\ Working(c) /\ c.fed = s.fed /\ c.v.last = {f.id} /\ c.v.dec = s.v.dec
  /\ ~M!Gap(s.v, f) => c.v.awaiting = s.v.awaiting
  /\ M!Gap(s.v, f) /\ ~f.key => c.v.awaiting = TRUE

(* A gap in front of an access unit is classified. *)
LEMMA ClassifiedKeeps ==
  ASSUME ReceiverConstants, NEW s, Working(s), s.v.queue # <<>>, NEW f \in Frames
  PROVE  Met(M!Classified(s, f), s, f)
<1>0. Viewing(s.v) /\ s.v.queue \in Seq(Frames) /\ Len(s.v.queue) <= BatchSize /\ s.v.awaiting \in BOOLEAN
      /\ f.id \in M!Numbers /\ f.key \in BOOLEAN
      BY DEF Working, Viewing, Viewers, Frames
<1>1. PICK q \in Seq(Frames) : q = Tail(s.v.queue) /\ Len(q) <= BatchSize
  <2>1. PICK p \in Seq(Frames) : p = s.v.queue /\ p # <<>> /\ Len(p) <= BatchSize
        BY <1>0
  <2>2. PICK t : t = Tail(p)
        OBVIOUS
  <2>3. t \in Seq(Frames) /\ Len(t) = Len(p) - 1 /\ Len(p) \in Nat
        BY <2>1, <2>2
  <2>4. BatchSize \in Nat
        BY DEF ReceiverConstants
  <2>5. Len(t) <= BatchSize
        BY <2>1, <2>3, <2>4
  <2> QED BY <2>1, <2>2, <2>3, <2>5
<1>2. PICK l \in SUBSET M!Numbers : l = {f.id}
      BY <1>0
<1>3. PICK w : w = [s.v EXCEPT !.queue = q, !.last = l]
      OBVIOUS
<1>4. Viewing(w) /\ w.dec = s.v.dec /\ w.awaiting = s.v.awaiting /\ w.last = l
  <2>0. s.v \in Viewers /\ Assembled(s.v.asm) /\ Sequenced(s.v.seq)
        BY <1>0 DEF Viewing
  <2>1. w \in Viewers
        BY <1>1, <1>2, <1>3, <2>0 DEF Viewers
  <2>2. w.asm = s.v.asm /\ w.seq = s.v.seq /\ w.queue = q
        BY <1>3, <2>0 DEF Viewers
  <2>3. w.dec = s.v.dec /\ w.awaiting = s.v.awaiting /\ w.last = l
        BY <1>3, <2>0 DEF Viewers
  <2> QED BY <1>1, <2>0, <2>1, <2>2, <2>3 DEF Viewing
<1>5. PICK met : met = [s EXCEPT !.v = w]
      OBVIOUS
<1>6. Becoming(met, w, s.up, s.fed)
      BY <1>4, <1>5, ViewerIs
<1>7. Working(met) /\ met.v = w /\ met.fed = s.fed
      BY <1>6 DEF Becoming
<1>8. [s EXCEPT !.v.queue = Tail(@), !.v.last = {f.id}] = met
      BY <1>1, <1>2, <1>3, <1>5
<1>9. PICK begun : begun = [w EXCEPT !.awaiting = FALSE]
      OBVIOUS
<1>10. Viewing(begun) /\ begun.dec = w.dec /\ begun.last = w.last
       BY <1>4, <1>9, AwaitKeeps
<1>11. PICK x : x = [met EXCEPT !.v = begun]
       OBVIOUS
<1>12. Working(x) /\ x.v = begun /\ x.fed = met.fed
  <2>1. Becoming(x, begun, met.up, met.fed)
        BY <1>7, <1>10, <1>11, ViewerIs
  <2> QED BY <2>1 DEF Becoming
<1>13. [met EXCEPT !.v.awaiting = FALSE] = x
       BY <1>7, <1>9, <1>11
<1>14. PICK wanted : wanted = [w EXCEPT !.awaiting = TRUE]
       OBVIOUS
<1>15. Viewing(wanted) /\ wanted.dec = w.dec /\ wanted.last = w.last /\ wanted.awaiting = TRUE
       BY <1>4, <1>14, AwaitKeeps
<1>16. PICK y : y = [met EXCEPT !.v = wanted]
       OBVIOUS
<1>17. Working(y) /\ y.v = wanted /\ y.fed = met.fed
  <2>1. Becoming(y, wanted, met.up, met.fed)
        BY <1>7, <1>15, <1>16, ViewerIs
  <2> QED BY <2>1 DEF Becoming
<1>18. [met EXCEPT !.v.awaiting = TRUE] = y
       BY <1>7, <1>14, <1>16
<1>19. PICK z : z = M!RequestIdr(y)
       OBVIOUS
<1>20. Working(z) /\ z.fed = y.fed /\ z.v.dec = y.v.dec /\ z.v.last = y.v.last /\ z.v.awaiting = y.v.awaiting
  <2>1. Working(z) /\ Same(z, y)
        BY <1>17, <1>19, RequestIdrKeeps
  <2> QED BY <2>1 DEF Same
<1>21. PICK c : c = M!Classified(s, f)
       OBVIOUS
<1>22. c = IF ~M!Gap(s.v, f) THEN met ELSE IF f.key THEN x ELSE IF s.v.awaiting THEN met ELSE z
  <2>0. PICK m : m = [s EXCEPT !.v.queue = Tail(@), !.v.last = {f.id}]
        OBVIOUS
  <2>1. /\ ~M!Gap(s.v, f) => c = m
        /\ M!Gap(s.v, f) /\ f.key => c = [m EXCEPT !.v.awaiting = FALSE]
        /\ M!Gap(s.v, f) /\ ~f.key /\ s.v.awaiting => c = m
        /\ M!Gap(s.v, f) /\ ~f.key /\ ~s.v.awaiting => c = M!RequestIdr([m EXCEPT !.v.awaiting = TRUE])
    <3>1. ~M!Gap(s.v, f) => c = m
          BY <1>21, <2>0 DEF M!Classified
    <3>2. M!Gap(s.v, f) /\ f.key => c = [m EXCEPT !.v.awaiting = FALSE]
          BY <1>21, <2>0 DEF M!Classified
    <3>3. M!Gap(s.v, f) /\ ~f.key /\ s.v.awaiting => c = m
          BY <1>21, <2>0 DEF M!Classified
    <3>4. M!Gap(s.v, f) /\ ~f.key /\ ~s.v.awaiting => c = M!RequestIdr([m EXCEPT !.v.awaiting = TRUE])
          BY <1>21, <2>0 DEF M!Classified
    <3> QED BY <3>1, <3>2, <3>3, <3>4
  <2>2. m = met
        BY <1>8, <2>0
  <2> QED BY <1>13, <1>18, <1>19, <2>1, <2>2, Zenon
<1>23. Working(c) /\ c.fed = s.fed /\ c.v.last = {f.id} /\ c.v.dec = s.v.dec
       BY <1>2, <1>4, <1>7, <1>10, <1>12, <1>15, <1>17, <1>20, <1>22
<1>24. ~M!Gap(s.v, f) => c.v.awaiting = s.v.awaiting
       BY <1>4, <1>7, <1>22
<1>25. M!Gap(s.v, f) /\ ~f.key => c.v.awaiting = TRUE
       BY <1>0, <1>4, <1>7, <1>15, <1>17, <1>20, <1>22
<1> QED BY <1>21, <1>23, <1>24, <1>25 DEF Met

(* What the decoder may be fed after what it was fed last. *)
Feeding(fed1, fed2) ==
  \/ fed2 = fed1 \/ fed2 = {}
  \/ \E id \in M!Numbers : fed2 = {[id |-> id, key |-> TRUE]}
  \/ \E f \in fed1 : fed2 = {[id |-> (f.id + 1) % IdSpace, key |-> FALSE]}

(* An access unit that is fed is a keyframe or follows the one fed last. *)
LEMMA FedFollows ==
  ASSUME ReceiverConstants, NEW s, Working(s), Chained(s.v, s.fed), NEW f \in Frames, M!Feeds(s, f)
  PROVE  Feeding(s.fed, {f})
<1>0. f.id \in M!Numbers /\ f.key \in BOOLEAN /\ f = [id |-> f.id, key |-> f.key]
      BY DEF Frames
<1>1. CASE f.key = TRUE
      BY <1>0, <1>1 DEF Feeding
<1>2. CASE f.key = FALSE
  <2>1. s.v.dec /\ ~s.v.awaiting /\ ~M!Gap(s.v, f)
        BY <1>2 DEF M!Feeds
  <2>2. PICK g \in Frames : s.fed = {g} /\ s.v.last = {g.id}
        BY <2>1 DEF Chained
  <2>3. f.id = (g.id + 1) % IdSpace
        BY <2>1, <2>2 DEF M!Gap, M!After
  <2> QED BY <1>0, <1>2, <2>2, <2>3 DEF Feeding
<1> QED BY <1>0, <1>1, <1>2

(* What is presented without a decoder, or without the pictures it refers to, is not fed. *)
LEMMA UnfedIsGood ==
  ASSUME ReceiverConstants, NEW s, Working(s), s.v.queue # <<>>, NEW f \in Frames, ~M!Feeds(s, f)
  PROVE  Good(M!Classified(s, f), s.fed)
<1>1. PICK c : c = M!Classified(s, f)
      OBVIOUS
<1>2. Met(c, s, f)
      BY <1>1, ClassifiedKeeps
<1>3. s.v.dec \in BOOLEAN /\ s.v.awaiting \in BOOLEAN /\ f.key \in BOOLEAN
      BY DEF Working, Viewing, Viewers, Frames
<1>4. s.v.dec = FALSE \/ (~f.key /\ (M!Gap(s.v, f) \/ s.v.awaiting = TRUE))
      BY <1>3 DEF M!Feeds
<1>5. c.v.awaiting = TRUE \/ c.v.dec = FALSE
      BY <1>2, <1>4 DEF Met
<1>6. Working(c) /\ c.fed = s.fed
      BY <1>2 DEF Met
<1> QED BY <1>1, <1>5, <1>6, AwaitingIsGood

(* The access unit is fed. *)
LEMMA FedIsGood ==
  ASSUME ReceiverConstants, NEW c, Working(c), NEW f \in Frames, c.v.last = {f.id}
  PROVE  Good([c EXCEPT !.v.awaiting = FALSE, !.v.shown = TRUE, !.fed = {f}], {f})
<1>1. Viewing(c.v)
      BY DEF Working
<1>2. PICK w : w = [c.v EXCEPT !.awaiting = FALSE, !.shown = TRUE]
      OBVIOUS
<1>3. Viewing(w) /\ w.last = c.v.last
      BY <1>1, <1>2, PictureKeeps
<1>4. PICK n \in Shown : n = {f}
      BY DEF Shown
<1>5. PICK r : r = [c EXCEPT !.v = w, !.fed = n]
      OBVIOUS
<1>6. Becoming(r, w, c.up, n)
      BY <1>3, <1>4, <1>5, ChainIs
<1>7. Working(r) /\ r.fed = {f} /\ r.v.last = {f.id}
      BY <1>3, <1>4, <1>6 DEF Becoming
<1>8. Chained(r.v, r.fed)
      BY <1>7 DEF Chained
<1>9. Good(r, {f})
      BY <1>7, <1>8 DEF Good
<1>10. [c EXCEPT !.v.awaiting = FALSE, !.v.shown = TRUE, !.fed = {f}] = r
       BY <1>2, <1>4, <1>5
<1> QED BY <1>9, <1>10

(* The decoder has no room, or fails. *)
LEMMA FailedIsGood ==
  ASSUME ReceiverConstants, NEW c, Working(c), NEW shown
  PROVE  /\ Good(M!RequestIdr([M!Resync(c) EXCEPT !.v.last = {}]), shown)
         /\ Good(M!RequestIdr(M!ResetDecoder(c)), shown)
<1>1. PICK y : y = M!Resync(c)
      OBVIOUS
<1>2. Working(y) /\ y.fed = {} /\ y.v.awaiting = TRUE /\ Viewing(y.v)
      BY <1>1, ResyncKeeps DEF Working
<1>3. PICK l \in SUBSET M!Numbers : l = {}
      OBVIOUS
<1>4. PICK w : w = [y.v EXCEPT !.last = l]
      OBVIOUS
<1>5. Viewing(w) /\ w.awaiting = y.v.awaiting
      BY <1>2, <1>3, <1>4, LastKeeps
<1>6. PICK r : r = [y EXCEPT !.v = w]
      OBVIOUS
<1>7. Becoming(r, w, y.up, y.fed)
      BY <1>2, <1>5, <1>6, ViewerIs
<1>8. Good(r, shown)
      BY <1>2, <1>5, <1>7, AwaitingIsGood DEF Becoming
<1>9. [y EXCEPT !.v.last = {}] = r
      BY <1>3, <1>4, <1>6
<1>10. Good(M!RequestIdr([M!Resync(c) EXCEPT !.v.last = {}]), shown)
       BY <1>1, <1>8, <1>9, RequestIsGood
<1>11. Good(M!ResetDecoder(c), shown)
  <2>1. PICK x : x = M!ResetDecoder(c)
        OBVIOUS
  <2>2. Working(x) /\ x.fed = {} /\ x.v.dec = FALSE
        BY <2>1, ResetKeeps
  <2> QED BY <2>1, <2>2, AwaitingIsGood
<1> QED BY <1>10, <1>11, RequestIsGood

(* What a step leaves. *)
Stepped == Link(sender', air', upsets') /\ Seen(viewer', up', fed') /\ Feeding(fed, fed')

(* Some of the datagrams. *)
LEMMA PartIsSent ==
  ASSUME NEW q \in Seq(Datagram), NEW I \in SUBSET (1 .. Len(q))
  PROVE  M!AtIndexes(q, I) \in Seq(Datagram)
<1>1. AtIndexes(q, I) \in Seq(Datagram)
      BY PartOfSeq
<1> QED BY <1>1, ReceiverSelects

(* The datagrams of an access unit. *)
LEMMA DatagramsAre ==
  ASSUME ReceiverConstants, NEW id \in M!Numbers, NEW b \in BOOLEAN, NEW c \in BOOLEAN
  PROVE  M!Datagrams(id, b, c) \in Seq(Datagram)
<1>0. K \in Nat
      BY DEF ReceiverConstants
<1>1. \A i \in 1 .. K + 1 : M!Media(id, b, i) \in Datagram
      BY DEF M!Media, Datagram
<1>2. M!Mark("config") \in Datagram
      BY DEF M!Mark, Datagram
<1>3. PICK x : x = IF c THEN <<M!Mark("config")>> ELSE <<>>
      OBVIOUS
<1>4. x \in Seq(Datagram)
      BY <1>2, <1>3
<1>5. PICK y : y = [i \in 1 .. K |-> M!Media(id, b, i)]
      OBVIOUS
<1>6. y \in Seq(Datagram)
  <2>1. \A i \in 1 .. K : M!Media(id, b, i) \in Datagram
        BY <1>0, <1>1
  <2> QED BY <1>0, <1>5, <2>1
<1>7. PICK z : z = IF b /\ K > 1 THEN <<M!Media(id, b, M!ParityShard)>> ELSE <<>>
      OBVIOUS
<1>8. z \in Seq(Datagram)
  <2>1. M!Media(id, b, M!ParityShard) \in Datagram
        BY <1>0, <1>1 DEF M!ParityShard
  <2> QED BY <1>7, <2>1
<1>9. (x \o y) \o z \in Seq(Datagram)
      BY <1>4, <1>6, <1>8
<1> QED BY <1>3, <1>5, <1>7, <1>9 DEF M!Datagrams

(* The ring with one more access unit. *)
LEMMA StoredKeeps ==
  ASSUME ReceiverConstants, NEW ring \in Seq(Entries), Len(ring) <= RingSize, NEW id \in M!Numbers, NEW b \in BOOLEAN
  PROVE  M!Stored(ring, id, b) \in Seq(Entries) /\ Len(M!Stored(ring, id, b)) <= RingSize
<1>1. PICK e : e = [id |-> id, key |-> b, got |-> {}]
      OBVIOUS
<1>2. e \in Entries
      BY <1>1 DEF Entries
<1>3. PICK q : q = M!Without(ring, id)
      OBVIOUS
<1>4. q \in Seq(Entries) /\ Len(q) <= RingSize
  <2>1. q \in Seq(Entries) /\ Len(q) <= Len(ring)
        BY <1>3, WithoutKeeps
  <2>2. Len(q) \in Nat /\ Len(ring) \in Nat /\ RingSize \in Nat
        BY <2>1 DEF ReceiverConstants
  <2> QED BY <2>1, <2>2
<1>5. RingSize \in Nat
      BY DEF ReceiverConstants
<1>6. M!Newest(Append(q, e), RingSize) \in Seq(Entries) /\ Len(M!Newest(Append(q, e), RingSize)) <= RingSize
      BY <1>2, <1>4, <1>5, NewestKeeps
<1> QED BY <1>1, <1>3, <1>6 DEF M!Stored

(* The numbers but one. *)
But(list, id) == M!AtIndexes(list, {i \in 1 .. Len(list) : list[i] # id})

(* They are of the same kind, and not more of them. *)
LEMMA ButKeeps ==
  ASSUME NEW list \in Seq(M!Numbers), NEW id
  PROVE  But(list, id) \in Seq(M!Numbers) /\ Len(But(list, id)) <= Len(list)
<1> DEFINE I == {i \in 1 .. Len(list) : list[i] # id}
<1>1. But(list, id) = AtIndexes(list, I)
      BY ReceiverSelects DEF But
<1>2. I \in SUBSET (1 .. Len(list))
      OBVIOUS
<1> HIDE DEF I
<1>3. AtIndexes(list, I) \in Seq(M!Numbers) /\ Len(AtIndexes(list, I)) = Cardinality(I)
      BY <1>2, PartOfSeq
<1>4. Cardinality(I) <= Len(list)
  <2>1. PICK n \in Nat : n = Len(list) /\ I \in SUBSET (1 .. n)
        BY <1>2
  <2> QED BY <2>1, IndexesAreFinite
<1> QED BY <1>1, <1>3, <1>4

(* What the viewer has of the unit that had a number before is forgotten. *)
LEMMA RenumberedKeeps ==
  ASSUME ReceiverConstants, NEW v, Viewing(v), NEW id
  PROVE  LET w == M!Renumbered(v, id)
         IN Viewing(w) /\ w.dec = v.dec /\ w.awaiting = v.awaiting /\ w.last = v.last
<1>0. v \in Viewers /\ Assembled(v.asm) /\ Sequenced(v.seq) /\ Len(v.queue) <= BatchSize /\ v.asm \in Assemblies
      BY DEF Viewing, Assembled
<1>1. v.asm.partial \in Seq(Entries) /\ v.asm.groups \in Seq(Entries) /\ v.asm.recent \in Seq(M!Numbers)
      /\ v.asm.done \in Seq(M!Numbers) /\ Len(v.asm.partial) <= MaxInFlight /\ Len(v.asm.groups) <= MaxGroups
      /\ Len(v.asm.recent) <= MaxRecent /\ Len(v.asm.done) <= MaxDone
      /\ \A i \in 1 .. Len(v.asm.partial) : v.asm.partial[i].got \subseteq 1 .. K /\ v.asm.partial[i].got # 1 .. K
      BY <1>0 DEF Assembled, Assemblies
<1>2. PICK pa, gr : pa = M!Without(v.asm.partial, id) /\ gr = M!Without(v.asm.groups, id)
      OBVIOUS
<1>3. PICK re, dn : re = But(v.asm.recent, id) /\ dn = But(v.asm.done, id)
      OBVIOUS
<1>4. /\ pa \in Seq(Entries) /\ Len(pa) <= MaxInFlight
      /\ \A i \in 1 .. Len(pa) : pa[i].got \subseteq 1 .. K /\ pa[i].got # 1 .. K
  <2>1. PICK l \in Seq(Entries) : l = v.asm.partial
        BY <1>1
  <2>2. /\ pa \in Seq(Entries) /\ Len(pa) <= Len(l)
        /\ \A i \in 1 .. Len(pa) : \E j \in 1 .. Len(l) : pa[i] = l[j]
        BY <1>2, <2>1, WithoutKeeps
  <2>3. Len(pa) \in Nat /\ Len(l) \in Nat /\ MaxInFlight \in Nat
        BY <2>2 DEF ReceiverConstants
  <2>4. Len(l) <= MaxInFlight /\ \A j \in 1 .. Len(l) : l[j].got \subseteq 1 .. K /\ l[j].got # 1 .. K
        BY <1>1, <2>1
  <2>5. Len(pa) <= MaxInFlight
        BY <2>2, <2>3, <2>4
  <2> QED BY <2>2, <2>4, <2>5
<1>5. gr \in Seq(Entries) /\ Len(gr) <= MaxGroups
  <2>1. PICK l \in Seq(Entries) : l = v.asm.groups
        BY <1>1
  <2>2. gr \in Seq(Entries) /\ Len(gr) <= Len(l)
        BY <1>2, <2>1, WithoutKeeps
  <2>3. Len(gr) \in Nat /\ Len(l) \in Nat /\ MaxGroups \in Nat
        BY <2>2 DEF ReceiverConstants
  <2> QED BY <1>1, <2>1, <2>2, <2>3
<1>6. re \in Seq(M!Numbers) /\ Len(re) <= MaxRecent
  <2>1. PICK l \in Seq(M!Numbers) : l = v.asm.recent
        BY <1>1
  <2>2. re \in Seq(M!Numbers) /\ Len(re) <= Len(l)
        BY <1>3, <2>1, ButKeeps
  <2>3. Len(re) \in Nat /\ Len(l) \in Nat /\ MaxRecent \in Nat
        BY <2>2 DEF ReceiverConstants
  <2> QED BY <1>1, <2>1, <2>2, <2>3
<1>7. dn \in Seq(M!Numbers) /\ Len(dn) <= MaxDone
  <2>1. PICK l \in Seq(M!Numbers) : l = v.asm.done
        BY <1>1
  <2>2. dn \in Seq(M!Numbers) /\ Len(dn) <= Len(l)
        BY <1>3, <2>1, ButKeeps
  <2>3. Len(dn) \in Nat /\ Len(l) \in Nat /\ MaxDone \in Nat
        BY <2>2 DEF ReceiverConstants
  <2> QED BY <1>1, <2>1, <2>2, <2>3
<1>8. PICK a : a = [partial |-> pa, groups |-> gr, recent |-> re, done |-> dn]
      OBVIOUS
<1>9. a \in Assemblies /\ a.partial = pa /\ a.groups = gr /\ a.recent = re /\ a.done = dn
      BY <1>4, <1>5, <1>6, <1>7, <1>8 DEF Assemblies
<1>10. Assembled(a)
      BY <1>4, <1>5, <1>6, <1>7, <1>9 DEF Assembled
<1>11. PICK w : w = [v EXCEPT !.asm = a]
       OBVIOUS
<1>12. w \in Viewers
       BY <1>0, <1>9, <1>11 DEF Viewers
<1>13. w.asm = a /\ w.seq = v.seq /\ w.queue = v.queue
       BY <1>0, <1>11 DEF Viewers
<1>14. w.dec = v.dec /\ w.awaiting = v.awaiting /\ w.last = v.last
       BY <1>0, <1>11 DEF Viewers
<1>15. M!Renumbered(v, id) = w
       BY <1>2, <1>3, <1>8, <1>11 DEF M!Renumbered, M!Selected, But
<1>16. Viewing(w)
       BY <1>0, <1>10, <1>12, <1>13 DEF Viewing
<1> QED BY <1>14, <1>15, <1>16

(* The viewer's part of the state is as good as before when only its transport differs. *)
LEMMA SeenKeeps ==
  ASSUME NEW v, NEW u, NEW f, Seen(v, u, f), NEW w, Viewing(w), w.dec = v.dec, w.awaiting = v.awaiting, w.last = v.last
  PROVE  Seen(w, u, f)
<1>1. Chained(v, f) => Chained(w, f)
      BY DEF Chained
<1> QED BY <1>1 DEF Seen

(* Fewer requests are under way. *)
LEMMA FewerRequests ==
  ASSUME NEW v, NEW u, NEW f, Seen(v, u, f), NEW x
  PROVE  Seen(v, u \ {x}, f)
BY DEF Seen

(* Upsets are counted. *)
LEMMA UpsetsKeep ==
  ASSUME ReceiverConstants, ReceiverInv, M!Calm \/ M!Upset
  PROVE  upsets' \in 0 .. MaxUpsets
<1>1. upsets \in 0 .. MaxUpsets /\ MaxUpsets \in Nat
      BY DEF ReceiverInv, Link, ReceiverConstants
<1> QED BY <1>1 DEF M!Calm, M!Upset

(* The host sends an access unit. *)
LEMMA SendKeeps ==
  ASSUME ReceiverConstants, ReceiverInv, NEW skipped \in 0 .. 1, NEW b \in BOOLEAN, NEW lost,
         M!SendUnit(skipped, b, lost), upsets' \in 0 .. MaxUpsets
  PROVE  Stepped
<1>1. /\ sender.next \in M!Numbers /\ sender.sent \in Nat /\ sender.asked \in BOOLEAN /\ sender.ring \in Seq(Entries)
      /\ Len(sender.ring) <= RingSize /\ air \in Seq(Datagram) /\ Seen(viewer, up, fed) /\ Viewing(viewer)
      BY DEF ReceiverInv, Link, Seen
<1>2. PICK id \in M!Numbers : id = (sender.next + skipped) % IdSpace
  <2>1. sender.next \in Nat
        BY <1>1, NumbersComeRound
  <2>2. sender.next + skipped \in Nat
        BY <2>1
  <2> QED BY <2>2, NumbersComeRound
<1>3. PICK q \in Seq(Datagram) : q = M!Datagrams(id, b, sender.asked)
      BY <1>1, DatagramsAre
<1>4. PICK p \in Seq(Datagram) : p = M!AtIndexes(q, DOMAIN q \ lost)
  <2>1. DOMAIN q \ lost \in SUBSET (1 .. Len(q))
        BY <1>3
  <2> QED BY <1>3, <2>1, PartIsSent
<1>5. PICK st : st = M!Stored(sender.ring, id, b)
      OBVIOUS
<1>6. st \in Seq(Entries) /\ Len(st) <= RingSize
      BY <1>1, <1>2, <1>5, StoredKeeps
<1>7. PICK n \in M!Numbers : n = M!After(id)
      BY <1>2, NumbersComeRound
<1>8. PICK c \in Nat : c = IF Endless THEN 0 ELSE sender.sent + 1
      BY <1>1
<1>9. /\ air' = air \o p /\ viewer' = M!Renumbered(viewer, id) /\ up' = up /\ fed' = fed
      /\ sender' = [next |-> n, sent |-> c, asked |-> FALSE, ring |-> st]
      BY <1>2, <1>3, <1>4, <1>5, <1>7, <1>8 DEF M!SendUnit
<1>10. Link(sender', air', upsets')
  <2>1. sender' \in [next : M!Numbers, sent : Nat, asked : BOOLEAN, ring : Seq(Entries)] /\ sender'.ring = st
        BY <1>6, <1>7, <1>8, <1>9
  <2>2. air \o p \in Seq(Datagram)
        BY <1>1, <1>4
  <2> QED BY <1>6, <1>9, <2>1, <2>2 DEF Link
<1>11. Seen(viewer', up', fed')
  <2>1. PICK w : w = M!Renumbered(viewer, id)
        OBVIOUS
  <2>2. Viewing(w) /\ w.dec = viewer.dec /\ w.awaiting = viewer.awaiting /\ w.last = viewer.last
        BY <1>1, <2>1, RenumberedKeeps
  <2>3. Seen(w, up, fed)
        BY <1>1, <2>2, SeenKeeps
  <2> QED BY <1>9, <2>1, <2>3
<1> QED BY <1>9, <1>10, <1>11 DEF Stepped, Feeding

(* What the ring still has is sent again. *)
LEMMA HandleUpKeeps ==
  ASSUME ReceiverConstants, ReceiverInv, NEW m \in up, M!HandleUp(m)
  PROVE  Stepped
<1>1. /\ sender \in [next : M!Numbers, sent : Nat, asked : BOOLEAN, ring : Seq(Entries)]
      /\ Len(sender.ring) <= RingSize /\ air \in Seq(Datagram) /\ Seen(viewer, up, fed)
      BY DEF ReceiverInv, Link
<1>2. m = M!Idr \/ m \in Nacks
      BY <1>1 DEF Seen
<1>3. upsets' \in 0 .. MaxUpsets
      BY UpsetsKeep DEF M!HandleUp
<1>4. viewer' = viewer /\ fed' = fed /\ up' = up \ {m}
      BY DEF M!HandleUp
<1>5. Seen(viewer', up', fed')
      BY <1>1, <1>4, FewerRequests
<1>6. CASE m.kind = "idr"
  <2>1. PICK h : h = [sender EXCEPT !.asked = TRUE]
        OBVIOUS
  <2>2. h \in [next : M!Numbers, sent : Nat, asked : BOOLEAN, ring : Seq(Entries)] /\ h.ring = sender.ring
        BY <1>1, <2>1
  <2>3. sender' = h /\ air' = air
        BY <1>6, <2>1 DEF M!HandleUp
  <2>4. Link(sender', air', upsets')
        BY <1>1, <1>3, <2>2, <2>3 DEF Link
  <2> QED BY <1>4, <1>5, <2>4 DEF Stepped, Feeding
<1>7. CASE m.kind # "idr"
  <2>1. m \in Nacks
        BY <1>2, <1>7 DEF M!Idr
  <2>2. m.id \in M!Numbers /\ m.shards \in SUBSET (1 .. K) /\ K \in Nat
        BY <2>1 DEF Nacks, ReceiverConstants
  <2>3. PICK served \in SUBSET (1 .. K) : served = IF M!Has(sender.ring, m.id) THEN m.shards ELSE {}
        BY <2>2
  <2>4. PICK b \in BOOLEAN : b = \E x \in M!ToSet(sender.ring) : x.id = m.id /\ x.key
        OBVIOUS
  <2>5. PICK q : q = [i \in 1 .. K |-> M!Media(m.id, b, i)]
        OBVIOUS
  <2>6. q \in Seq(Datagram) /\ Len(q) = K
    <3>1. \A i \in 1 .. K : M!Media(m.id, b, i) \in Datagram
          BY <2>2, <2>4 DEF M!Media, Datagram
    <3> QED BY <2>2, <2>5, <3>1
  <2>7. PICK p \in Seq(Datagram) : p = M!AtIndexes(q, served)
        BY <2>3, <2>6, PartIsSent
  <2>8. air' = air \o p /\ sender' = sender
        BY <1>7, <2>3, <2>4, <2>5, <2>7 DEF M!HandleUp, M!Data
  <2>9. air \o p \in Seq(Datagram)
        BY <1>1, <2>7
  <2>10. Link(sender', air', upsets')
        BY <1>1, <1>3, <2>8, <2>9 DEF Link
  <2> QED BY <1>4, <1>5, <2>10 DEF Stepped, Feeding
<1> QED BY <1>6, <1>7

(* A request is lost, datagrams change places, the host sends from elsewhere. *)
LEMMA LinkKeeps ==
  ASSUME ReceiverConstants, ReceiverInv, M!Upset,
         \/ \E m \in up : M!LoseUp(m)
         \/ M!Reorder
         \/ \E kind \in {"moved", "challenge"} : M!Rebind(kind)
  PROVE  Stepped
<1>1. /\ sender \in [next : M!Numbers, sent : Nat, asked : BOOLEAN, ring : Seq(Entries)]
      /\ Len(sender.ring) <= RingSize /\ air \in Seq(Datagram) /\ Seen(viewer, up, fed)
      BY DEF ReceiverInv, Link
<1>2. upsets' \in 0 .. MaxUpsets
      BY UpsetsKeep
<1>3. ASSUME sender' = sender, air' \in Seq(Datagram), viewer' = viewer, fed' = fed, Seen(viewer, up', fed)
      PROVE  Stepped
  <2>1. Link(sender', air', upsets')
        BY <1>1, <1>2, <1>3 DEF Link
  <2> QED BY <1>3, <2>1 DEF Stepped, Feeding
<1>4. ASSUME NEW m \in up, M!LoseUp(m) PROVE Stepped
  <2>1. up' = up \ {m} /\ sender' = sender /\ air' = air /\ viewer' = viewer /\ fed' = fed
        BY <1>4 DEF M!LoseUp
  <2>2. Seen(viewer, up', fed)
        BY <1>1, <2>1, FewerRequests
  <2> QED BY <1>1, <1>3, <2>1, <2>2
<1>5. CASE M!Reorder
  <2>1. /\ sender' = sender /\ viewer' = viewer /\ fed' = fed /\ up' = up /\ Len(air) >= 2
        /\ air' = <<air[2], air[1]>> \o SubSeq(air, 3, Len(air))
        BY <1>5 DEF M!Reorder
  <2>2. PICK n \in Nat : n = Len(air) /\ n >= 2
        BY <1>1, <2>1
  <2>3. \A i \in 1 .. n : air[i] \in Datagram
        BY <1>1, <2>2
  <2>4. <<air[2], air[1]>> \in Seq(Datagram)
        BY <2>2, <2>3
  <2>5. SubSeq(air, 3, n) \in Seq(Datagram)
        BY <2>2, <2>3
  <2>6. air' \in Seq(Datagram)
        BY <2>1, <2>2, <2>4, <2>5
  <2> QED BY <1>1, <1>3, <2>1, <2>6
<1>6. ASSUME NEW kind \in {"moved", "challenge"}, M!Rebind(kind) PROVE Stepped
  <2>1. /\ sender' = sender /\ viewer' = viewer /\ fed' = fed /\ up' = up
        /\ air' = Append(air, M!Mark(kind))
        BY <1>6 DEF M!Rebind
  <2>2. M!Mark(kind) \in Datagram
        BY DEF M!Mark, Datagram
  <2>3. air' \in Seq(Datagram)
        BY <1>1, <2>1, <2>2
  <2> QED BY <1>1, <1>3, <2>1, <2>3
<1> QED BY <1>4, <1>5, <1>6

(* The worker begins a step. *)
LEMMA StIsGood ==
  ASSUME ReceiverInv
  PROVE  Good(M!St, fed) /\ M!St.v = viewer /\ M!St.fed = fed /\ M!St.up = up
<1>1. Viewing(viewer) /\ up \in SUBSET Upward /\ fed \in Shown /\ Chained(viewer, fed)
      BY DEF ReceiverInv, Seen, Upward, Shown
<1>2. PICK r : r = [v |-> viewer, up |-> up, fed |-> fed]
      OBVIOUS
<1>3. Working(r) /\ r.v = viewer /\ r.up = up /\ r.fed = fed
      BY <1>1, <1>2, WorkIs
<1>4. Good(r, fed)
      BY <1>1, <1>3 DEF Good
<1> QED BY <1>2, <1>3, <1>4 DEF M!St

(* The worker ends a step. *)
LEMMA BecomesKeeps ==
  ASSUME ReceiverConstants, ReceiverInv, NEW r, NEW shown, Good(r, shown), M!Becomes(r), Feeding(fed, shown),
         sender' = sender, air' \in Seq(Datagram), M!Calm \/ M!Upset
  PROVE  Stepped
<1>1. viewer' = r.v /\ up' = r.up /\ fed' = r.fed
      BY DEF M!Becomes
<1>2. Viewing(r.v) /\ r.up \in SUBSET Upward /\ r.fed \in Shown /\ Chained(r.v, r.fed) /\ (r.fed = shown \/ r.fed = {})
      BY DEF Good, Working, Works
<1>3. Seen(viewer', up', fed')
      BY <1>1, <1>2 DEF Seen, Upward, Shown
<1>4. Link(sender', air', upsets')
  <2>1. upsets' \in 0 .. MaxUpsets
        BY UpsetsKeep
  <2> QED BY <2>1 DEF ReceiverInv, Link
<1>5. Feeding(fed, fed')
      BY <1>1, <1>2 DEF Feeding
<1> QED BY <1>3, <1>4, <1>5 DEF Stepped

(* An iteration up to its presentation. *)
LEMMA IterateKeeps ==
  ASSUME ReceiverConstants, ReceiverInv, NEW n \in Nat, M!Iterate(n)
  PROVE  Stepped
<1>0. air \in Seq(Datagram) /\ n <= Len(air) /\ Len(air) \in Nat
  <2>1. n <= Len(air)
        BY Zenon DEF M!Iterate
  <2> QED BY <2>1 DEF ReceiverInv, Link
<1>1. Good(M!St, fed)
      BY StIsGood
<1>2. PICK top : top = M!Top(M!St)
      OBVIOUS
<1>3. Good(top, fed)
      BY <1>1, <1>2, TopKeeps
<1>4. PICK q \in Seq(Datagram) : q = SubSeq(air, 1, n)
  <2>1. \A i \in 1 .. n : air[i] \in Datagram
        BY <1>0
  <2>2. SubSeq(air, 1, n) \in Seq(Datagram)
        BY <1>0, <2>1
  <2> QED BY <2>2
<1>5. PICK received : received = M!FoldLeft(LAMBDA s, d : M!Accept(s, d), top, q)
      OBVIOUS
<1>6. Good(received, fed)
      BY <1>3, <1>5, BatchKeeps
<1>7. PICK overdue : overdue = [top EXCEPT !.v.seq = M!DrainExpired(top.v.seq).seq,
                                           !.v.queue = M!Queued(top.v, M!DrainExpired(top.v.seq).frames)]
      OBVIOUS
<1>8. Good(overdue, fed)
      BY <1>3, <1>7, OverdueKeeps
<1>9. PICK r : r = IF n > 0 THEN received ELSE overdue
      OBVIOUS
<1>10. Good(r, fed)
       BY <1>6, <1>8, <1>9
<1>11. M!Becomes(r)
       BY <1>2, <1>4, <1>5, <1>7, <1>9 DEF M!Iterate
<1>12. sender' = sender /\ M!Calm /\ air' \in Seq(Datagram)
  <2>1. air' = SubSeq(air, n + 1, Len(air)) /\ sender' = sender /\ M!Calm
        BY DEF M!Iterate
  <2>2. \A i \in n + 1 .. Len(air) : air[i] \in Datagram
        BY <1>0
  <2> QED BY <1>0, <2>1, <2>2
<1> QED BY <1>10, <1>11, <1>12, BecomesKeeps DEF Feeding

(* The decoder's output cannot be polled. *)
LEMMA PollFailsKeeps ==
  ASSUME ReceiverConstants, ReceiverInv, M!PollFails
  PROVE  Stepped
<1>1. Working(M!St)
      BY StIsGood DEF Good
<1>2. PICK r : r = M!Resync(M!St)
      OBVIOUS
<1>3. Working(r) /\ r.fed = {} /\ r.v.awaiting = TRUE
      BY <1>1, <1>2, ResyncKeeps
<1>4. Good(r, {})
      BY <1>3, AwaitingIsGood
<1>5. M!Becomes(r) /\ sender' = sender /\ air' = air /\ M!Upset
      BY <1>2 DEF M!PollFails
<1>6. air' \in Seq(Datagram)
      BY <1>5 DEF ReceiverInv, Link
<1> QED BY <1>4, <1>5, <1>6, BecomesKeeps DEF Feeding

(* An access unit is presented. *)
LEMMA PresentKeeps ==
  ASSUME ReceiverConstants, ReceiverInv, NEW outcome \in {"queued", "unavailable", "fatal"}, M!Present(outcome),
         M!Calm \/ M!Upset
  PROVE  Stepped
<1>0. PICK st : st = M!St
      OBVIOUS
<1>1. Good(st, fed) /\ st.v = viewer /\ st.fed = fed /\ Working(st) /\ Chained(st.v, st.fed)
  <2>1. Good(st, fed) /\ st.v = viewer /\ st.fed = fed
        BY <1>0, StIsGood
  <2> QED BY <2>1 DEF Good
<1>2. viewer.queue # <<>> /\ sender' = sender /\ air' = air
      BY DEF M!Present
<1>3. PICK f \in Frames : f = viewer.queue[1]
  <2>1. PICK q \in Seq(Frames) : q = viewer.queue /\ q # <<>>
        BY <1>1, <1>2 DEF Working, Viewing, Viewers
  <2>2. q[1] \in Frames
        BY <2>1
  <2> QED BY <2>1, <2>2
<1>4. PICK c : c = M!Classified(st, f)
      OBVIOUS
<1>5. Met(c, st, f)
      BY <1>1, <1>2, <1>4, ClassifiedKeeps
<1>6. Working(c) /\ c.v.last = {f.id}
      BY <1>5 DEF Met
<1>7. air' \in Seq(Datagram)
      BY <1>2 DEF ReceiverInv, Link
<1>8. ASSUME NEW r, NEW shown, Good(r, shown), Feeding(fed, shown), M!Becomes(M!Ended(r))
      PROVE  Stepped
  <2>1. Good(M!Ended(r), shown)
        BY <1>8, EndedKeeps
  <2> QED BY <1>2, <1>7, <1>8, <2>1, BecomesKeeps
<1>9. CASE ~M!Feeds(st, f)
  <2>1. Good(c, fed)
        BY <1>1, <1>2, <1>4, <1>9, UnfedIsGood
  <2>2. M!Becomes(M!Ended(c))
        BY <1>0, <1>3, <1>4, <1>9 DEF M!Present
  <2> QED BY <1>8, <2>1, <2>2 DEF Feeding
<1>10. CASE M!Feeds(st, f) /\ outcome = "queued"
  <2>1. PICK r : r = [c EXCEPT !.v.awaiting = FALSE, !.v.shown = TRUE, !.fed = {f}]
        OBVIOUS
  <2>2. Good(r, {f})
        BY <1>6, <2>1, FedIsGood
  <2>3. Feeding(fed, {f})
        BY <1>1, <1>10, FedFollows
  <2>4. M!Becomes(M!Ended(r))
        BY <1>0, <1>3, <1>4, <1>10, <2>1 DEF M!Present
  <2> QED BY <1>8, <2>2, <2>3, <2>4
<1>11. CASE M!Feeds(st, f) /\ outcome = "unavailable"
  <2>1. PICK r : r = M!RequestIdr([M!Resync(c) EXCEPT !.v.last = {}])
        OBVIOUS
  <2>2. Good(r, fed)
        BY <1>6, <2>1, FailedIsGood
  <2>3. M!Becomes(M!Ended(r))
        BY <1>0, <1>3, <1>4, <1>11, <2>1 DEF M!Present
  <2> QED BY <1>8, <2>2, <2>3 DEF Feeding
<1>12. CASE M!Feeds(st, f) /\ outcome = "fatal"
  <2>1. PICK r : r = M!RequestIdr(M!ResetDecoder(c))
        OBVIOUS
  <2>2. Good(r, fed)
        BY <1>6, <2>1, FailedIsGood
  <2>3. M!Becomes(M!Ended(r))
        BY <1>0, <1>3, <1>4, <1>12, <2>1 DEF M!Present
  <2> QED BY <1>8, <2>2, <2>3 DEF Feeding
<1> QED BY <1>9, <1>10, <1>11, <1>12

(* The Surface goes. *)
LEMMA SuspendKeeps ==
  ASSUME ReceiverConstants, ReceiverInv, M!Suspend
  PROVE  Stepped
<1>1. Working(M!St)
      BY StIsGood DEF Good
<1>2. PICK c : c = M!ResetDecoder(M!Clear(M!St))
      OBVIOUS
<1>3. Working(c) /\ c.fed = {} /\ c.v.dec = FALSE /\ Viewing(c.v)
  <2>1. Working(M!Clear(M!St))
        BY <1>1, ClearKeeps
  <2> QED BY <1>2, <2>1, ResetKeeps DEF Working
<1>4. PICK w : w = [c.v EXCEPT !.hidden = TRUE, !.incident = {}]
      OBVIOUS
<1>5. Viewing(w) /\ w.dec = c.v.dec
      BY <1>3, <1>4, HiddenKeeps
<1>6. PICK r : r = [c EXCEPT !.v = w]
      OBVIOUS
<1>7. Becoming(r, w, c.up, c.fed)
      BY <1>3, <1>5, <1>6, ViewerIs
<1>8. Good(r, {})
      BY <1>3, <1>5, <1>7, AwaitingIsGood DEF Becoming
<1>9. [c EXCEPT !.v.hidden = TRUE, !.v.incident = {}] = r
      BY <1>4, <1>6
<1>10. M!Becomes(r) /\ sender' = sender /\ air' = air /\ M!Upset
       BY <1>2, <1>9 DEF M!Suspend
<1>11. air' \in Seq(Datagram)
       BY <1>10 DEF ReceiverInv, Link
<1> QED BY <1>8, <1>10, <1>11, BecomesKeeps DEF Feeding

(* The Surface comes back. *)
LEMMA ResumeKeeps ==
  ASSUME ReceiverConstants, ReceiverInv, M!Resume
  PROVE  Stepped
<1>0. PICK st : st = M!St
      OBVIOUS
<1>1. Good(st, fed) /\ Working(st) /\ Viewing(st.v) /\ st.up \in SUBSET Upward
  <2>1. Good(st, fed)
        BY <1>0, StIsGood
  <2> QED BY <2>1 DEF Good, Working, Works
<1>2. PICK w : w = [st.v EXCEPT !.hidden = FALSE, !.gate = Cooldown]
      OBVIOUS
<1>3. Viewing(w) /\ w.dec = st.v.dec /\ w.awaiting = st.v.awaiting /\ w.last = st.v.last
  <2>1. Cooldown \in 0 .. Cooldown
        BY DEF ReceiverConstants
  <2> QED BY <1>1, <1>2, <2>1, SurfaceKeeps
<1>4. PICK u \in SUBSET Upward : u = st.up \cup {M!Idr}
      BY <1>1 DEF Upward
<1>5. PICK r : r = [st EXCEPT !.v = w, !.up = u]
      OBVIOUS
<1>6. Becoming(r, w, u, st.fed)
      BY <1>1, <1>3, <1>4, <1>5, RequestsAre
<1>7. Good(r, fed)
      BY <1>1, <1>3, <1>6, UnchainedIsGood DEF Becoming
<1>8. [st EXCEPT !.v.hidden = FALSE, !.v.gate = Cooldown, !.up = @ \cup {M!Idr}] = r
      BY <1>2, <1>4, <1>5
<1>9. M!Becomes(r) /\ sender' = sender /\ air' = air /\ M!Calm
      BY <1>0, <1>8 DEF M!Resume
<1>10. air' \in Seq(Datagram)
       BY <1>9 DEF ReceiverInv, Link
<1> QED BY <1>7, <1>9, <1>10, BecomesKeeps DEF Feeding

(* What comes while there is no Surface is thrown away. *)
LEMMA DiscardKeeps ==
  ASSUME ReceiverConstants, ReceiverInv, M!DiscardHidden
  PROVE  Stepped
<1>1. air' = <<>> /\ sender' = sender /\ up' = up /\ viewer' = viewer /\ fed' = fed /\ M!Calm
      BY DEF M!DiscardHidden
<1>2. upsets' \in 0 .. MaxUpsets
      BY <1>1, UpsetsKeep
<1>3. air' \in Seq(Datagram)
      BY <1>1
<1>4. Link(sender', air', upsets')
      BY <1>1, <1>2, <1>3 DEF ReceiverInv, Link
<1>5. Seen(viewer', up', fed')
      BY <1>1 DEF ReceiverInv
<1> QED BY <1>1, <1>4, <1>5 DEF Stepped, Feeding

(* A deadline comes nearer. *)
LEMMA SoonerIsTimed ==
  ASSUME NEW deadlines \in SUBSET Timed
  PROVE  M!Sooner(deadlines) \in SUBSET Timed
<1> SUFFICES ASSUME NEW d \in deadlines PROVE [d EXCEPT !.left = M!Less(@)] \in Timed
    BY DEF M!Sooner
<1>1. d \in Timed /\ d.left \in Nat
      BY DEF Timed
<1>2. M!Less(d.left) \in Nat
      BY <1>1 DEF M!Less
<1> QED BY <1>1, <1>2 DEF Timed

(* The sequencer after a tick: what is pending has waited. *)
LEMMA TickedSequencer ==
  ASSUME NEW s, Sequenced(s)
  PROVE  Sequenced(M!Waited(s))
<1>0. s \in Sequencers
      BY DEF Sequenced
<1>1. PICK p \in Seq(Waits) : p = s.pending
      BY <1>0 DEF Sequencers
<1>2. PICK n \in Nat : n = Len(p) /\ DOMAIN p = 1 .. n
      BY <1>1
<1>3. PICK q : q = [i \in 1 .. n |-> [p[i] EXCEPT !.waited = TRUE]]
      OBVIOUS
<1>4. \A i \in 1 .. n : q[i] \in Waits /\ q[i].id = p[i].id
  <2> SUFFICES ASSUME NEW i \in 1 .. n PROVE q[i] \in Waits /\ q[i].id = p[i].id
      OBVIOUS
  <2>1. PICK e \in Waits : e = p[i]
        BY <1>2
  <2>2. q[i] = [e EXCEPT !.waited = TRUE]
        BY <1>3, <2>1
  <2>3. PICK g : g = [e EXCEPT !.waited = TRUE]
        OBVIOUS
  <2>4. g \in Waits /\ g.id = e.id
        BY <2>1, <2>3 DEF Waits
  <2> QED BY <2>1, <2>2, <2>3, <2>4
<1>5. q \in Seq(Waits) /\ Len(q) = n
      BY <1>3, <1>4
<1>6. PICK h \in SUBSET Nat : h = {M!Less(x) : x \in s.hold}
  <2>1. s.hold \in SUBSET Nat
        BY <1>0 DEF Sequencers
  <2>2. \A x \in s.hold : M!Less(x) \in Nat
        BY <2>1 DEF M!Less
  <2> QED BY <2>2
<1>7. PICK z \in SUBSET Timed : z = M!Sooner(s.reserved)
  <2>1. s.reserved \in SUBSET Timed
        BY <1>0 DEF Sequencers
  <2> QED BY <2>1, SoonerIsTimed
<1>8. PICK t : t = [s EXCEPT !.pending = q, !.hold = h, !.reserved = z]
      OBVIOUS
<1>9. t \in Sequencers /\ t.pending = q /\ t.last = s.last
      BY <1>0, <1>5, <1>6, <1>7, <1>8 DEF Sequencers
<1>10. \A i, j \in 1 .. Len(q) : q[i].id = q[j].id => i = j
  <2>1. \A i, j \in 1 .. n : p[i].id = p[j].id => i = j
        BY <1>1, <1>2 DEF Sequenced
  <2> QED BY <1>4, <1>5, <2>1
<1>11. Len(q) <= IF t.last = {} THEN MaxReorder ELSE 2 * MaxReorder - 1
       BY <1>1, <1>2, <1>5, <1>9 DEF Sequenced
<1>12. Sequenced(t)
  <2>1. \A a, b \in t.last : a = b
        BY <1>9 DEF Sequenced
  <2> QED BY <1>9, <1>10, <1>11, <2>1 DEF Sequenced
<1>13. t = M!Waited(s)
       BY <1>1, <1>2, <1>3, <1>6, <1>7, <1>8 DEF M!Waited
<1> QED BY <1>12, <1>13

(* Time goes by. *)
LEMMA TickKeeps ==
  ASSUME ReceiverConstants, ReceiverInv, M!Tick
  PROVE  Stepped
<1>0. Viewing(viewer) /\ viewer \in Viewers /\ Sequenced(viewer.seq) /\ Assembled(viewer.asm)
      /\ Len(viewer.queue) <= BatchSize /\ Seen(viewer, up, fed)
      BY DEF ReceiverInv, Seen, Viewing
<1>1. PICK g \in 0 .. Cooldown : g = M!Less(viewer.gate)
  <2>1. viewer.gate \in 0 .. Cooldown /\ Cooldown \in Nat
        BY <1>0 DEF Viewers, ReceiverConstants
  <2> QED BY <2>1 DEF M!Less
<1>2. PICK inc \in SUBSET Incidents :
        inc = {[i EXCEPT !.age = IF @ < RebuildAfter THEN @ + 1 ELSE @] : i \in viewer.incident}
  <2>1. ASSUME NEW i \in viewer.incident
        PROVE  [i EXCEPT !.age = IF @ < RebuildAfter THEN @ + 1 ELSE @] \in Incidents
    <3>1. i \in Incidents /\ i.age \in Nat
          BY <1>0 DEF Viewers, Incidents
    <3>2. PICK a \in Nat : a = IF i.age < RebuildAfter THEN i.age + 1 ELSE i.age
          BY <3>1
    <3>3. [i EXCEPT !.age = a] \in Incidents
          BY <3>1, <3>2 DEF Incidents
    <3> QED BY <3>2, <3>3
  <2> QED BY <2>1
<1>3. PICK s : s = M!Waited(viewer.seq)
      OBVIOUS
<1>4. Sequenced(s) /\ s \in Sequencers
  <2>1. Sequenced(s)
        BY <1>0, <1>3, TickedSequencer
  <2> QED BY <2>1 DEF Sequenced
<1>5. PICK n \in Requesters : n = [viewer.nack EXCEPT !.armed = M!Sooner(@)]
  <2>1. viewer.nack \in Requesters
        BY <1>0 DEF Viewers
  <2>2. M!Sooner(viewer.nack.armed) \in SUBSET Timed
        BY <2>1, SoonerIsTimed DEF Requesters
  <2> QED BY <2>1, <2>2 DEF Requesters
<1>6. PICK w : w = [viewer EXCEPT !.gate = g, !.incident = inc, !.seq = s, !.nack = n]
      OBVIOUS
<1>7. w \in Viewers
      BY <1>0, <1>1, <1>2, <1>4, <1>5, <1>6 DEF Viewers
<1>8. w.asm = viewer.asm /\ w.seq = s /\ w.queue = viewer.queue
      BY <1>0, <1>6 DEF Viewers
<1>9. w.dec = viewer.dec /\ w.awaiting = viewer.awaiting /\ w.last = viewer.last
      BY <1>0, <1>6 DEF Viewers
<1>10. Viewing(w)
       BY <1>0, <1>4, <1>7, <1>8 DEF Viewing
<1>11. viewer' = w
  <2>1. viewer' = [viewer EXCEPT
                     !.gate = M!Less(viewer.gate),
                     !.incident = {[i EXCEPT !.age = IF @ < RebuildAfter THEN @ + 1 ELSE @] : i \in viewer.incident},
                     !.seq = M!Waited(viewer.seq), !.nack.armed = M!Sooner(viewer.nack.armed)]
        BY DEF M!Tick
  <2>2. viewer' = [viewer EXCEPT !.gate = g, !.incident = inc, !.seq = s, !.nack.armed = M!Sooner(viewer.nack.armed)]
        BY <1>1, <1>2, <1>3, <2>1
  <2>3. viewer' = [viewer EXCEPT !.gate = g, !.incident = inc, !.seq = s,
                                 !.nack = [viewer.nack EXCEPT !.armed = M!Sooner(viewer.nack.armed)]]
        BY <1>0, <2>2 DEF Viewers
  <2> QED BY <1>5, <1>6, <2>3
<1>12. sender' = sender /\ air' = air /\ up' = up /\ fed' = fed /\ M!Calm
       BY DEF M!Tick
<1>13. upsets' \in 0 .. MaxUpsets
       BY <1>12, UpsetsKeep
<1>14. Seen(w, up, fed)
       BY <1>0, <1>9, <1>10, SeenKeeps
<1>15. Link(sender', air', upsets')
       BY <1>12, <1>13 DEF ReceiverInv, Link
<1> QED BY <1>11, <1>12, <1>14, <1>15 DEF Stepped, Feeding

(* The viewer starts without a picture. *)
LEMMA ReceiverStarts ==
  ASSUME ReceiverConstants, M!Init
  PROVE  ReceiverInv /\ fed = {}
<1>0. PICK e : e = <<>>
      OBVIOUS
<1>1. Len(e) = 0 /\ e \in Seq(Entries) /\ e \in Seq(M!Numbers) /\ e \in Seq(Waits) /\ e \in Seq(Frames)
      /\ e \in Seq(Datagram)
      BY <1>0
<1>2. IdSpace \in Nat /\ IdSpace >= 2 /\ Cooldown \in Nat /\ MaxUpsets \in Nat /\ RingSize \in Nat /\ BatchSize \in Nat
      /\ MaxReorder \in Nat
      BY DEF ReceiverConstants
<1>3. PICK n \in M!Numbers : n = IdSpace - 2
      BY <1>2 DEF M!Numbers
<1>4. sender = [next |-> n, sent |-> 0, asked |-> TRUE, ring |-> e] /\ air = e /\ up = {} /\ fed = {} /\ upsets = 0
      BY <1>0, <1>3 DEF M!Init
<1>5. Link(sender, air, upsets)
  <2>1. sender \in [next : M!Numbers, sent : Nat, asked : BOOLEAN, ring : Seq(Entries)] /\ sender.ring = e
        BY <1>1, <1>3, <1>4
  <2>2. 0 \in 0 .. MaxUpsets /\ Len(sender.ring) <= RingSize
        BY <1>1, <1>2, <2>1
  <2> QED BY <1>1, <1>4, <2>1, <2>2 DEF Link
<1>6. PICK s : s = [last |-> {}, pending |-> e, hold |-> {}, grace |-> FALSE, reserved |-> {}]
      OBVIOUS
<1>7. s \in Sequencers /\ s.pending = e /\ s.last = {}
      BY <1>1, <1>6 DEF Sequencers
<1>8. Sequenced(s)
      BY <1>1, <1>2, <1>7 DEF Sequenced
<1>9. PICK r : r = [attempted |-> {}, armed |-> {}, probe |-> FALSE]
      OBVIOUS
<1>10. r \in Requesters
       BY <1>9 DEF Requesters
<1>11. PICK a : a = M!Empty
       OBVIOUS
<1>12. Assembled(a) /\ a \in Assemblies
       BY <1>11, EmptyIsAssembled DEF Assembled
<1>13. M!Idle = s /\ M!NoRequest = r
       BY <1>0, <1>6, <1>9 DEF M!Idle, M!NoRequest
<1>14. PICK v : v = [asm |-> a, seq |-> s, nack |-> r, dec |-> FALSE, last |-> {}, awaiting |-> TRUE, gate |-> 0,
                     incident |-> {}, queue |-> e, shown |-> FALSE, hidden |-> FALSE]
       OBVIOUS
<1>15. v \in Viewers /\ v.asm = a /\ v.seq = s /\ v.queue = e /\ v.dec = FALSE
  <2>1. 0 \in 0 .. Cooldown
        BY <1>2
  <2> QED BY <1>1, <1>7, <1>10, <1>12, <1>14, <2>1 DEF Viewers
<1>16. viewer = v
       BY <1>0, <1>11, <1>13, <1>14 DEF M!Init
<1>17. Viewing(v)
       BY <1>1, <1>2, <1>8, <1>12, <1>15 DEF Viewing
<1>18. Seen(viewer, up, fed)
       BY <1>4, <1>15, <1>16, <1>17 DEF Seen, Chained
<1> QED BY <1>4, <1>5, <1>18 DEF ReceiverInv

(* Every step of the receiver keeps what it keeps, and feeds the decoder in order. *)
LEMMA ReceiverSteps ==
  ASSUME ReceiverConstants, ReceiverInv, M!Next
  PROVE  ReceiverInv' /\ Feeding(fed, fed')
<1>0. SUFFICES Stepped
      BY DEF Stepped, ReceiverInv
<1>1. ASSUME M!Calm \/ M!Upset
      PROVE  upsets' \in 0 .. MaxUpsets
      BY <1>1, UpsetsKeep
<1>2. CASE M!Send
  <2>1. PICK skipped \in 0 .. 1 : M!SendUnit(skipped, sender.asked, {})
        BY <1>2 DEF M!Send
  <2>2. sender.asked \in BOOLEAN
        BY DEF ReceiverInv, Link
  <2>3. upsets' \in 0 .. MaxUpsets
        BY <1>1, <1>2 DEF M!Send
  <2> QED BY <2>1, <2>2, <2>3, SendKeeps
<1>3. CASE M!SendUpset
  <2>1. sender.asked \in BOOLEAN /\ upsets' \in 0 .. MaxUpsets
        BY <1>1, <1>3 DEF ReceiverInv, Link, M!SendUpset
  <2>2. M!SendUnit(0, TRUE, {}) \/ \E lost \in (SUBSET (1 .. K + 2)) \ {{}} : M!SendUnit(0, sender.asked, lost)
        BY <1>3 DEF M!SendUpset
  <2>3. 0 \in 0 .. 1 /\ TRUE \in BOOLEAN
        OBVIOUS
  <2>4. CASE M!SendUnit(0, TRUE, {})
        BY <2>1, <2>3, <2>4, SendKeeps
  <2>5. ASSUME NEW lost, M!SendUnit(0, sender.asked, lost) PROVE Stepped
        BY <2>1, <2>3, <2>5, SendKeeps
  <2> QED BY <2>2, <2>4, <2>5
<1>4. CASE M!Receive \/ M!Timeout
  <2>1. PICK n \in Nat : M!Iterate(n)
    <3>1. BatchSize \in Nat
          BY DEF ReceiverConstants
    <3>2. CASE M!Timeout
          BY <3>2, Zenon DEF M!Timeout
    <3>3. CASE M!Receive
      <4>1. PICK n \in 1 .. BatchSize : M!Iterate(n)
            BY <3>3, Zenon DEF M!Receive
      <4>2. n \in Nat
            BY <3>1, <4>1
      <4> QED BY <4>1, <4>2, Zenon
    <3> QED BY <1>4, <3>2, <3>3
  <2> QED BY <2>1, IterateKeeps
<1>5. CASE M!PresentQueued
      BY <1>5, PresentKeeps DEF M!PresentQueued
<1>6. CASE M!FeedFails
  <2>1. PICK outcome \in {"unavailable", "fatal"} : M!Present(outcome)
        BY <1>6 DEF M!FeedFails
  <2>2. M!Upset
        BY <1>6 DEF M!FeedFails
  <2> QED BY <2>1, <2>2, PresentKeeps
<1>7. CASE M!DiscardHidden
      BY <1>7, DiscardKeeps
<1>8. CASE M!Resume
      BY <1>8, ResumeKeeps
<1>9. CASE M!Tick
      BY <1>9, TickKeeps
<1>10. CASE M!PollFails
       BY <1>10, PollFailsKeeps
<1>11. CASE M!Suspend
       BY <1>11, SuspendKeeps
<1>12. CASE \E m \in up : M!HandleUp(m)
       BY <1>12, HandleUpKeeps
<1>13. CASE M!Reorder \/ (\E m \in up : M!LoseUp(m)) \/ \E kind \in {"moved", "challenge"} : M!Rebind(kind)
  <2>1. M!Upset
        BY <1>13 DEF M!Reorder, M!LoseUp, M!Rebind
  <2> QED BY <1>13, <2>1, LinkKeeps
<1> QED BY <1>2, <1>3, <1>4, <1>5, <1>6, <1>7, <1>8, <1>9, <1>10, <1>11, <1>12, <1>13 DEF M!Next, M!Upsets

(* The pending access units are as many as their numbers. *)
LEMMA PendingIsCounted ==
  ASSUME NEW s, Sequenced(s)
  PROVE  M!Cardinality(M!Pending(s)) = Len(s.pending)
<1>1. PICK q \in Seq(Waits) : q = s.pending
      BY DEF Sequenced, Sequencers
<1>2. PICK n \in Nat : n = Len(q) /\ DOMAIN q = 1 .. n
      BY <1>1
<1>3. \A i, j \in 1 .. n : q[i].id = q[j].id => i = j
      BY <1>1, <1>2 DEF Sequenced
<1>4. PICK T : T = M!Pending(s)
      OBVIOUS
<1>5. \A id : id \in T <=> \E i \in 1 .. n : q[i].id = id
  <2> SUFFICES ASSUME NEW id PROVE id \in T <=> \E i \in 1 .. n : q[i].id = id
      OBVIOUS
  <2> QED BY <1>1, <1>2, <1>4, PendingNumbers
<1>6. PICK f : f = [i \in 1 .. n |-> q[i].id]
      OBVIOUS
<1>7. f \in [1 .. n -> T]
      BY <1>5, <1>6
<1>8. \A i, j \in 1 .. n : f[i] = f[j] => i = j
      BY <1>3, <1>6
<1>9. \A t \in T : \E i \in 1 .. n : f[i] = t
      BY <1>5, <1>6
<1>10. ExistsBijection(1 .. n, T)
       BY <1>7, <1>8, <1>9 DEF ExistsBijection, Bijection, Injection, Surjection, IsInjective
<1>11. Cardinality(T) = n
       BY <1>10, FS_CountingElements
<1>12. M!Cardinality(T) = Cardinality(T)
       BY DEF M!Cardinality, Cardinality, M!IsFiniteSet, IsFiniteSet
<1> QED BY <1>1, <1>2, <1>4, <1>11, <1>12

(* The receiver's state is of its type, and what is pending is bounded. *)
LEMMA ReceiverIsTyped ==
  ASSUME ReceiverConstants, ReceiverInv
  PROVE  PendingIsBounded
<1>1. /\ sender.next \in M!Numbers /\ sender.asked \in BOOLEAN /\ Len(sender.ring) <= RingSize
      /\ upsets \in 0 .. MaxUpsets
      BY DEF ReceiverInv, Link
<1>2. /\ Viewing(viewer) /\ viewer \in Viewers /\ Assembled(viewer.asm) /\ viewer.asm \in Assemblies
      /\ Sequenced(viewer.seq) /\ viewer.seq \in Sequencers /\ Len(viewer.queue) <= BatchSize
      /\ up \subseteq Nacks \cup {M!Idr} /\ (fed = {} \/ \E f \in Frames : fed = {f})
      BY DEF ReceiverInv, Seen, Viewing, Assembled, Sequenced
<1>3. M!Data = 1 .. K
      BY DEF M!Data
<1>4. \A m \in up : m = M!Idr \/ (m.kind = "nack" /\ m.id \in M!Numbers /\ m.shards \subseteq M!Data /\ m.shards # {})
      BY <1>2, <1>3 DEF Nacks
<1>5. Len(viewer.asm.partial) <= MaxInFlight /\ Len(viewer.asm.groups) <= MaxGroups
      /\ Len(viewer.asm.recent) <= MaxRecent /\ Len(viewer.asm.done) <= MaxDone
      BY <1>2 DEF Assembled
<1>6. \A p \in M!ToSet(viewer.asm.partial) : p.id \in M!Numbers /\ p.got \subseteq M!Data /\ p.got # M!Data
  <2>1. PICK q \in Seq(Entries) : q = viewer.asm.partial
        BY <1>2 DEF Assemblies
  <2>2. \A i \in 1 .. Len(q) : q[i] \in Entries /\ q[i].got \subseteq 1 .. K /\ q[i].got # 1 .. K
        BY <1>2, <2>1 DEF Assembled
  <2>3. \A i \in 1 .. Len(q) : q[i].id \in M!Numbers
        BY <2>2 DEF Entries
  <2>4. M!ToSet(q) = {q[i] : i \in 1 .. Len(q)}
        BY <2>1 DEF M!ToSet
  <2> QED BY <1>3, <2>1, <2>2, <2>3, <2>4
<1>7. viewer.last \subseteq M!Numbers /\ viewer.seq.last \subseteq M!Numbers /\ viewer.gate \in 0 .. Cooldown
      BY <1>2 DEF Viewers, Sequencers
<1>8. {viewer.awaiting, viewer.dec, viewer.hidden} \subseteq BOOLEAN
  <2>1. viewer.awaiting \in BOOLEAN /\ viewer.dec \in BOOLEAN /\ viewer.hidden \in BOOLEAN
        BY <1>2 DEF Viewers
  <2> QED BY <2>1, Zenon
<1>9. M!Cardinality(fed) <= 1
  <2>1. M!Cardinality(fed) = Cardinality(fed)
        BY DEF M!Cardinality, Cardinality, M!IsFiniteSet, IsFiniteSet
  <2>2. Cardinality({}) = 0
        BY FS_EmptySet
  <2>3. \A f : Cardinality({f}) = 1
        BY FS_Singleton
  <2>4. Cardinality(fed) = 0 \/ Cardinality(fed) = 1
        BY <1>2, <2>2, <2>3
  <2> QED BY ONLY <2>1, <2>4
<1>10. M!ReceiverTypeOK
       BY <1>1, <1>2, <1>4, <1>5, <1>6, <1>7, <1>8, <1>9 DEF M!ReceiverTypeOK
<1>11. M!PendingIsBounded
  <2>1. Len(viewer.seq.pending) <= IF viewer.seq.last = {} THEN MaxReorder ELSE 2 * MaxReorder - 1
        BY <1>2 DEF Sequenced
  <2>2. M!Cardinality(M!Pending(viewer.seq)) = Len(viewer.seq.pending)
        BY <1>2, PendingIsCounted
  <2> QED BY <2>1, <2>2 DEF M!PendingIsBounded, M!MaxHeld
<1> QED BY <1>10, <1>11 DEF PendingIsBounded

(* The receiver's invariant is kept by every step of the media path. *)
LEMMA ReceiverHolds ==
  ASSUME ReceiverConstants, ReceiverInv, [Next]_vars
  PROVE  ReceiverInv' /\ Feeding(fed, fed')
<1>1. CASE ViewerStep
      BY <1>1, ReceiverSteps DEF ViewerStep
<1>2. CASE UNCHANGED viewerVars
  <2>1. sender' = sender /\ air' = air /\ up' = up /\ viewer' = viewer /\ fed' = fed /\ upsets' = upsets
        BY <1>2 DEF viewerVars
  <2>2. Link(sender', air', upsets') /\ Seen(viewer', up', fed')
        BY <2>1 DEF ReceiverInv
  <2>3. ReceiverInv'
        BY <2>2 DEF ReceiverInv, Link, Seen
  <2> QED BY <2>1, <2>3 DEF Feeding
<1>3. ViewerStep \/ UNCHANGED viewerVars
      BY DEF Next, vars, HostStep, SplitStep
<1> QED BY <1>1, <1>2, <1>3

(* In every state of every behaviour. *)
THEOREM PendingStaysBounded ==
  ASSUME ReceiverConstants
  PROVE  Spec => []PendingIsBounded
<1>1. Init => ReceiverInv
      BY ReceiverStarts DEF Init
<1>2. ReceiverInv /\ [Next]_vars => ReceiverInv'
      BY ReceiverHolds
<1>3. ReceiverInv => PendingIsBounded
      BY ReceiverIsTyped
<1> QED BY <1>1, <1>2, <1>3, PTL DEF Spec

(* The decoder's chain is intact in every behaviour. *)
THEOREM DecoderIsFedInOrder ==
  ASSUME ReceiverConstants
  PROVE  Spec => FeedSpec
<1>1. Init => ReceiverInv /\ M!Feed!Init
      BY ReceiverStarts DEF Init, M!Feed!Init
<1>2. ReceiverInv /\ [Next]_vars => ReceiverInv'
      BY ReceiverHolds
<1>3. ReceiverInv /\ [Next]_vars => [M!Feed!Next]_fed
  <2> SUFFICES ASSUME ReceiverInv, [Next]_vars PROVE M!Feed!Next \/ fed' = fed
      OBVIOUS
  <2>1. Feeding(fed, fed')
        BY ReceiverHolds
  <2>2. M!Feed!Numbers = M!Numbers
        BY DEF M!Feed!Numbers, M!Numbers
  <2> QED BY <2>1, <2>2 DEF Feeding, M!Feed!Next, M!Feed!Start, M!Feed!Continue, M!Feed!Lose
<1> QED BY <1>1, <1>2, <1>3, PTL DEF Spec, FeedSpec, M!FeedSpec, M!Feed!Spec
=============================================================================
