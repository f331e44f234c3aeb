------------------------------ MODULE HostEncoder ------------------------------
(* The macOS host's single encoder: capture callbacks, the encode queue, the     *)
(* VideoToolbox callback, packetization, the network queue and the recovery that *)
(* runs through all of them. A handler is one step, also where the code takes    *)
(* several locks in turn; what it leaves to another queue is a step of its own.  *)
(* The state is one record, which a handler changes part by part. Clocks are     *)
(* ages: "cool" counts the thresholds passed since the last keyframe request     *)
(* (750 ms, 2.5 s), "source" those since the last capture (250 ms, 2.5 s). A     *)
(* submission and a job know only if their generation is still the current one.  *)
EXTENDS Naturals, Sequences, FiniteSets, SequencesExt, Sublists

CONSTANTS ConfiguredLimit,     \* encodes in flight once the session has confirmed
          MaxPending,          \* maxPendingNetworkFrames
          PackLimit,           \* packetizations in flight
          FreshCooldown,       \* 1: 750 ms between requests; 2: 2.5 s, at a low bitrate
          MaxCaptureRestarts,  \* captureStallMaxRestarts
          MaxEncoderRestarts,  \* maximumRestarts of the encoder's watchdog
          PeriodicKeyframes,   \* whether the encoder emits keyframes nobody asked for
          QueueMaxAge,         \* whether LEFTCAR_QUEUE_MAX_AGE_MS is set
          Prompt,              \* whether packetization keeps up with the encoder and
                               \* a keyframe is sent within 750 ms
          MaxFaults            \* failures and losses in one behaviour

VARIABLES host,
          waiting,   \* the viewer asks for an independently decodable frame
          faults
vars == <<host, waiting, faults>>

Modes == {"ave", "staged", "next"}   \* AVE, AVE with staged input, the next policy
StartupLimit(mode, confirmed) ==
  IF mode # "next" /\ ~confirmed THEN 1 ELSE ConfiguredLimit

Init ==
  /\ host = [running |-> TRUE,
             \* captureLock
             source |-> "live", captureRestarts |-> 0, pending |-> FALSE, carrier |-> FALSE,
             scheduled |-> FALSE, inFlight |-> 0, limit |-> ConfiguredLimit, gate |-> "open",
             \* stateLock
             session |-> FALSE, mode |-> "ave", confirmed |-> FALSE, force |-> FALSE, keyPending |-> FALSE,
             cool |-> FreshCooldown, retry |-> FALSE, ledger |-> <<>>, jobs |-> <<>>,
             \* the encoder's health
             health |-> FALSE, newCapture |-> FALSE, freshOut |-> FALSE,
             restarts |-> 0, cooling |-> FALSE,
             \* tasks of the encode queue: delayed retries, failed outputs
             timers |-> 0, failed |-> 0,
             \* networkLock
             queue |-> <<>>, awaiting |-> FALSE, keyInFlight |-> FALSE, writing |-> <<>>]
  /\ waiting = FALSE
  /\ faults = 0

-------------------------------------------------------------------------------
(* the handlers' parts *)
Room(h) == h.inFlight < h.limit
Scheduled(h) == [h EXCEPT !.scheduled = TRUE]
SchedulePending(h) ==
  IF h.pending /\ ~h.scheduled /\ Room(h) /\ h.gate = "open" THEN Scheduled(h) ELSE h
CompleteSlots(h, n) ==
  LET freed == [h EXCEPT !.inFlight = IF @ > n THEN @ - n ELSE 0]
  IN IF freed.pending /\ ~freed.scheduled /\ freed.gate = "open" THEN Scheduled(freed) ELSE freed
SetLimit(h, limit) ==
  LET changed == [h EXCEPT !.limit = limit]
  IN IF limit > h.limit /\ h.pending /\ ~h.scheduled /\ h.gate = "open" THEN Scheduled(changed) ELSE changed
ClearGate(h) == [h EXCEPT !.gate = "open"]
\* slip: the frames already queued are sent all the same
QueueKept(h) == h
QueueCleared(h) == [h EXCEPT !.queue = <<>>]
KeyQueued(h) == \E i \in DOMAIN h.queue : h.queue[i].idr

\* slip: a keyframe already asked for is not asked for again
AsksOnce(h, scheduledRetry) ==
  IF h.keyPending \/ (h.retry /\ ~scheduledRetry) \/ h.cool < (IF scheduledRetry THEN 1 ELSE FreshCooldown) THEN h
  ELSE [h EXCEPT !.cool = 0, !.keyPending = TRUE, !.force = TRUE]
RequestKeyframe(h, scheduledRetry) ==
  IF (h.retry /\ ~scheduledRetry) \/ h.cool < (IF scheduledRetry THEN 1 ELSE FreshCooldown) THEN h
  ELSE [h EXCEPT !.cool = 0, !.keyPending = TRUE, !.force = TRUE]

\* the retained frame is encoded again where no capture will carry the keyframe
SeedCarrier(h) ==
  IF h.source = "live" \/ h.pending \/ ~h.carrier THEN h ELSE SchedulePending([h EXCEPT !.pending = TRUE])

ShouldStartRecovery(h) == ~h.awaiting /\ ~h.keyInFlight /\ ~KeyQueued(h)

BeginNetworkRecovery(h) ==
  LET begun == IF ShouldStartRecovery(h) THEN [QueueCleared(h) EXCEPT !.awaiting = TRUE] ELSE h
  IN IF begun.awaiting /\ ~h.keyInFlight /\ ~KeyQueued(h)
     THEN SeedCarrier(RequestKeyframe(begun, FALSE)) ELSE h

\* scheduleRecoveryAfterPacketizationLoss
ScheduleRetry(h) ==
  IF h.retry THEN h
  ELSE ClearGate([QueueCleared(h) EXCEPT !.retry = TRUE, !.awaiting = TRUE,
                                         !.timers = IF @ = 2 THEN 2 ELSE @ + 1])

\* what a queue that is dropped as one chain keeps: its last keyframe
Retained(h) ==
  IF KeyQueued(h) THEN <<h.queue[SelectLastInSeq(h.queue, LAMBDA f : f.idr)]>> ELSE <<>>
Expire(h) == [h EXCEPT !.queue = Retained(h), !.awaiting = @ \/ ShouldStartRecovery(h)]

Enqueued(h, idr, rec) ==
  LET frame == [idr |-> idr, rec |-> rec]
  IN CASE idr -> [h EXCEPT !.queue = <<frame>>, !.awaiting = @ \/ rec]
       [] ~idr /\ h.awaiting -> RequestKeyframe(h, FALSE)
       [] ~idr /\ ~h.awaiting /\ Len(h.queue) < MaxPending -> [h EXCEPT !.queue = Append(@, frame)]
       [] OTHER -> LET dropped == [h EXCEPT !.queue = Retained(h)]
                   IN IF KeyQueued(h) \/ h.keyInFlight THEN dropped
                      ELSE RequestKeyframe([dropped EXCEPT !.awaiting = TRUE], FALSE)
\* "expired": the oldest frame of the queue is past the age LEFTCAR_QUEUE_MAX_AGE_MS allows
EnqueueFrame(h, idr, rec, expired) ==
  LET kept == IF expired /\ h.queue # <<>> THEN Expire(h) ELSE h
      put == Enqueued(kept, idr, rec)
  IN IF expired /\ h.queue # <<>> /\ ShouldStartRecovery(h) THEN RequestKeyframe(put, FALSE) ELSE put

RecoveryKeyframeDidSend(h) ==
  SchedulePending(ClearGate([h EXCEPT !.keyPending = FALSE, !.retry = FALSE, !.force = FALSE]))

\* the end of a generation: what was asked of it and what it is owed go with it
NewGeneration(h) ==
  [h EXCEPT !.ledger = [i \in DOMAIN @ |-> [@[i] EXCEPT !.cur = FALSE]],
            !.jobs = [i \in DOMAIN @ |-> [@[i] EXCEPT !.cur = FALSE]],
            !.confirmed = FALSE, !.retry = FALSE, !.timers = 0, !.failed = 0]
Current(h) == Selected(h.ledger, LAMBDA s : s.cur)
Reclaimed(h) == [h EXCEPT !.ledger = Selected(@, LAMBDA s : ~s.cur)]
\* slip: the slots of the submissions it forgets stay taken
KeepsSlots(h) == [NewGeneration(Reclaimed(h)) EXCEPT !.session = FALSE]
InvalidateEncoder(h) ==
  CompleteSlots([NewGeneration(Reclaimed(h)) EXCEPT !.session = FALSE], Len(Current(h)))

SetupEncoder(h) ==
  SetLimit([NewGeneration(h) EXCEPT !.session = TRUE], StartupLimit(h.mode, FALSE))
\* handleEncoderStartupFailure, and the recovery request where it declines
EncoderFailed(h) ==
  IF h.session /\ ~h.confirmed /\ h.mode # "next"
  THEN [NewGeneration(SetLimit(h, StartupLimit(h.mode, FALSE)))
          EXCEPT !.session = FALSE, !.mode = IF @ = "ave" THEN "staged" ELSE "next",
                 !.force = FALSE, !.keyPending = FALSE]
  ELSE RequestKeyframe(h, FALSE)

Stopped(h) ==
  InvalidateEncoder([h EXCEPT !.running = FALSE, !.retry = FALSE, !.queue = <<>>,
                              !.awaiting = FALSE, !.keyInFlight = FALSE, !.pending = FALSE,
                              !.carrier = FALSE, !.gate = "open"])

Fault == faults < MaxFaults /\ faults' = faults + 1
NoFault == UNCHANGED faults
Becomes(h) == host' = h /\ UNCHANGED waiting

-------------------------------------------------------------------------------
(* capture *)
\* the watchdog looks at submissions older than 250 ms: those whose output is lost
OldestIsStale(h) == Current(h) # <<>> /\ Head(Current(h)).lost
Captured(h) ==
  SchedulePending([h EXCEPT !.pending = TRUE, !.carrier = TRUE, !.source = "live", !.newCapture = TRUE,
                            !.health = @ \/ OldestIsStale(h)])
Capture == host.running /\ Becomes(Captured(host)) /\ NoFault
\* VideoToolbox: outputs come in the order of submission
Delivered == SelectInSeq(host.ledger, LAMBDA s : ~s.lost)
KeyUnderWay ==
  \/ \E i \in DOMAIN host.ledger : host.ledger[i].cur /\ host.ledger[i].key /\ ~host.ledger[i].lost
  \/ \E i \in DOMAIN host.jobs : host.jobs[i].cur /\ host.jobs[i].idr
  \/ KeyQueued(host) \/ host.keyInFlight
\* the keyframe before the gate has been under way for 750 ms
GateTimesOut ==
  /\ host.running /\ host.gate = "closed" /\ ~(Prompt /\ KeyUnderWay)
  /\ Becomes(Captured(ClearGate(host))) /\ NoFault

\* the screen stops changing for 250 ms; after 2.5 s the source is restarted
ScreenIdles ==
  /\ host.running /\ host.carrier /\ host.source = "live"
  /\ Becomes([host EXCEPT !.source = "quiet"]) /\ NoFault
CaptureStalls ==
  /\ host.running /\ host.source = "quiet" /\ host.carrier
  /\ Becomes(IF host.captureRestarts < MaxCaptureRestarts
             THEN [host EXCEPT !.captureRestarts = @ + 1, !.source = "restarted", !.force = TRUE]
             ELSE Stopped(host))
  /\ NoFault
\* a screen that changes, or a source that was restarted, delivers
SourceDelivers == host.source \in {"live", "restarted"} /\ (Capture \/ GateTimesOut)
GateOpens == host.source \in {"live", "restarted"} /\ GateTimesOut

-------------------------------------------------------------------------------
(* the encode queue *)
Drain ==
  /\ host.scheduled /\ ~(Room(host) /\ host.gate = "open" /\ host.pending)
  /\ Becomes([host EXCEPT !.scheduled = FALSE]) /\ NoFault

Dequeued(h) == [h EXCEPT !.pending = FALSE, !.inFlight = @ + 1]
Prepared(h) == IF h.session THEN h ELSE SetupEncoder(h)
\* a requested keyframe closes the gate behind it
Submitted(h) ==
  [h EXCEPT !.force = FALSE, !.gate = IF h.force THEN "closed" ELSE @,
            !.freshOut = @ /\ Current(h) # <<>>]
Accepted(h, lost) ==
  [Submitted(h) EXCEPT !.ledger = Append(@, [cur |-> TRUE, key |-> h.force, lost |-> lost])]
Refused(h) == IF h.force THEN ClearGate(Submitted(h)) ELSE Submitted(h)
Encode ==
  /\ host.scheduled /\ Room(host) /\ host.gate = "open" /\ host.pending
  /\ LET taken == Dequeued(host)
         ready == Prepared(taken)
     IN \/ ~host.running /\ Becomes(CompleteSlots(taken, 1)) /\ NoFault
        \/ host.running /\ Becomes(Accepted(ready, FALSE)) /\ NoFault
        \/ host.running /\ Becomes(Accepted(ready, TRUE)) /\ Fault    \* its output will never come
        \/ host.running /\ Becomes(EncoderFailed(CompleteSlots(Refused(ready), 1))) /\ Fault
        \/ host.running /\ Becomes(CompleteSlots(EncoderFailed(ready), 1)) /\ Fault   \* no input buffer
        \/ ~host.session /\ host.running /\ Becomes(CompleteSlots(Stopped(taken), 1)) /\ Fault

FailedOutput ==
  /\ host.failed > 0
  /\ Becomes(EncoderFailed([host EXCEPT !.failed = @ - 1])) /\ NoFault

RetryFires ==
  /\ host.timers > 0
  /\ LET fired == [host EXCEPT !.timers = @ - 1, !.retry = FALSE]
     IN Becomes(IF host.running /\ host.retry /\ host.awaiting THEN RequestKeyframe(fired, TRUE) ELSE fired)
  /\ NoFault

RestartEncoder(h) ==
  LET slots == Len(Current(h))
      invalid == InvalidateEncoder(Reclaimed(h))
      freed == ClearGate(CompleteSlots(invalid, slots))
  IN SchedulePending([freed EXCEPT !.force = TRUE, !.keyPending = TRUE,
                                   !.restarts = @ + 1, !.cooling = TRUE])
Evaluated(h) ==
  LET seen == [h EXCEPT !.newCapture = FALSE]
      observed == [seen EXCEPT !.freshOut = FALSE]
  IN IF ~h.running \/ ~h.newCapture THEN h
     ELSE IF h.inFlight = 0 \/ ~OldestIsStale(h) THEN seen
     ELSE IF h.freshOut \/ h.cooling THEN observed
     ELSE IF h.restarts >= MaxEncoderRestarts THEN Stopped(observed)
     ELSE RestartEncoder(observed)
HealthCheck ==
  /\ host.health
  /\ Becomes([Evaluated(host) EXCEPT !.health = FALSE]) /\ NoFault

-------------------------------------------------------------------------------
(* outputs *)
Retire(h, i) == CompleteSlots([h EXCEPT !.ledger = RemoveAt(@, i)], 1)

RecoveryBoundaryPending(h) ==
  h.keyPending \/ h.retry \/ h.awaiting \/ h.keyInFlight \/ KeyQueued(h)
Confirmed(h) ==
  SetLimit([h EXCEPT !.confirmed = TRUE, !.freshOut = OldestIsStale(h)], ConfiguredLimit)
Admit(h, key, idr) ==
  IF Len(h.jobs) < PackLimit
  THEN [h EXCEPT !.jobs = Append(@, [cur |-> TRUE, key |-> key, idr |-> idr])]
  ELSE IF key THEN ScheduleRetry(h)
  ELSE IF RecoveryBoundaryPending(h) THEN h ELSE BeginNetworkRecovery(h)

LateOutput ==
  /\ Delivered # 0 /\ ~host.ledger[Delivered].cur
  /\ Becomes(Retire(host, Delivered)) /\ NoFault
ValidOutput ==
  /\ Delivered # 0 /\ host.ledger[Delivered].cur /\ (Prompt => Len(host.jobs) < PackLimit)
  /\ LET key == host.ledger[Delivered].key
         confirmed == Confirmed(Retire(host, Delivered))
         sync == key \/ ~host.confirmed
     IN \/ Becomes(Admit(confirmed, key, sync)) /\ NoFault
        \/ PeriodicKeyframes /\ Becomes(Admit(confirmed, key, TRUE)) /\ NoFault
        \/ key /\ host.confirmed /\ Becomes(Admit(confirmed, key, FALSE)) /\ Fault
DroppedOutput ==
  /\ Delivered # 0 /\ host.ledger[Delivered].cur
  /\ LET retired == Retire(host, Delivered)
     IN Becomes(IF host.ledger[Delivered].key THEN ScheduleRetry(retired) ELSE retired)
  /\ Fault
OutputFails ==
  /\ Delivered # 0 /\ host.ledger[Delivered].cur
  /\ LET retired == Retire(host, Delivered)
         cleared == IF host.ledger[Delivered].key THEN ClearGate(retired) ELSE retired
     IN Becomes([cleared EXCEPT !.failed = @ + 1])
  /\ Fault

-------------------------------------------------------------------------------
(* packetization *)
Taken(h) == [h EXCEPT !.jobs = Tail(@)]
PacketizeStale ==
  /\ host.jobs # <<>> /\ (~Head(host.jobs).cur \/ ~host.running)
  /\ Becomes(IF Head(host.jobs).cur /\ Head(host.jobs).key THEN ClearGate(Taken(host)) ELSE Taken(host))
  /\ NoFault
Packetize ==
  /\ host.jobs # <<>> /\ Head(host.jobs).cur /\ host.running
  /\ LET job == Head(host.jobs)
         taken == Taken(host)
     IN \/ /\ \E expired \in {FALSE, QueueMaxAge} :
                Becomes(IF job.key /\ ~job.idr THEN ScheduleRetry(taken)
                        ELSE EnqueueFrame(taken, job.idr, job.key, expired))
           /\ NoFault
        \/ /\ Becomes(IF job.key THEN ScheduleRetry(taken) ELSE taken)    \* no data in the sample
           /\ Fault
        \/ /\ LET unknown == [taken EXCEPT !.force = TRUE]
              IN Becomes(IF job.key THEN ClearGate(unknown) ELSE unknown)
           /\ Fault

-------------------------------------------------------------------------------
(* the network queue *)
WriteFails(h, rec) ==
  LET cleared == [QueueCleared(h) EXCEPT !.awaiting = TRUE]
  IN RequestKeyframe(IF rec THEN ClearGate(cleared) ELSE cleared, FALSE)
\* the socket is closed: nothing is sent and nothing is asked for
Unsent(h, rec) == IF rec THEN ClearGate(h) ELSE h

NetworkTake ==
  /\ host.queue # <<>> /\ host.writing = <<>>
  /\ Becomes([host EXCEPT !.writing = <<Head(host.queue)>>, !.queue = Tail(@),
                          !.keyInFlight = @ \/ Head(host.queue).idr])
  /\ NoFault

\* slip: only a keyframe that was asked for leaves the state of being sent
ResetsForRequested(h, f, sent) ==
  [h EXCEPT !.writing = <<>>, !.keyInFlight = @ /\ ~f.rec, !.awaiting = @ /\ ~(f.idr /\ sent)]
AfterSend(h, f, sent) ==
  [h EXCEPT !.writing = <<>>, !.keyInFlight = FALSE, !.awaiting = @ /\ ~(f.idr /\ sent)]
WriteFrame ==
  /\ host.writing # <<>>
  /\ LET f == host.writing[1]
         sent == AfterSend(IF f.rec THEN RecoveryKeyframeDidSend(host) ELSE host, f, TRUE)
     IN \/ /\ host.running /\ host' = sent
           /\ waiting' = (waiting /\ ~f.idr) /\ NoFault
        \/ host.running /\ host' = sent /\ waiting' = TRUE /\ Fault   \* lost on the way
        \/ host.running /\ Becomes(AfterSend(WriteFails(host, f.rec), f, FALSE)) /\ Fault
        \/ ~host.running /\ Becomes(AfterSend(Unsent(host, f.rec), f, FALSE)) /\ NoFault

-------------------------------------------------------------------------------
(* the viewer's requests, the session's end, time *)
ViewerGap == host.running /\ ~waiting /\ waiting' = TRUE /\ UNCHANGED host /\ Fault
ViewerIdr == host.running /\ waiting /\ Becomes(BeginNetworkRecovery(host)) /\ NoFault
ViewerStops == host.running /\ Becomes(Stopped(host)) /\ NoFault

CoolAges ==
  /\ host.running /\ host.cool < FreshCooldown /\ ~(Prompt /\ KeyUnderWay)
  /\ Becomes([host EXCEPT !.cool = @ + 1]) /\ NoFault
RestartAges ==
  /\ \/ host.cooling /\ Becomes([host EXCEPT !.cooling = FALSE])
     \/ ~host.cooling /\ host.restarts > 0 /\ Becomes([host EXCEPT !.restarts = @ - 1])
  /\ NoFault

EncodeQueue == Drain \/ Encode \/ FailedOutput \/ RetryFires \/ HealthCheck
VideoToolbox == LateOutput \/ ValidOutput
Packets == PacketizeStale \/ Packetize
Network == NetworkTake \/ WriteFrame
Ages == CoolAges \/ RestartAges
Next ==
  \/ Capture \/ GateTimesOut \/ ScreenIdles \/ CaptureStalls
  \/ EncodeQueue
  \/ VideoToolbox \/ DroppedOutput \/ OutputFails
  \/ Packets \/ Network
  \/ ViewerGap \/ ViewerIdr \/ ViewerStops
  \/ Ages

Spec == Init /\ [][Next]_vars
\* queues run their tasks, timers fire, a source that delivers goes on delivering, a viewer
\* that waits asks again; a screen need not change
FairSpec ==
  /\ Spec
  /\ WF_vars(SourceDelivers) /\ SF_vars(GateOpens) /\ WF_vars(CaptureStalls)
  /\ WF_vars(Drain \/ Encode) /\ WF_vars(FailedOutput) /\ WF_vars(RetryFires)
  /\ WF_vars(HealthCheck) /\ WF_vars(VideoToolbox) /\ WF_vars(Packets)
  /\ WF_vars(NetworkTake) /\ WF_vars(WriteFrame)
  /\ WF_vars(ViewerIdr) /\ SF_vars(CoolAges) /\ WF_vars(RestartAges)

-------------------------------------------------------------------------------
(* properties *)

Submission == [cur : BOOLEAN, key : BOOLEAN, lost : BOOLEAN]
Job == [cur : BOOLEAN, key : BOOLEAN, idr : BOOLEAN]
Frame == [idr : BOOLEAN, rec : BOOLEAN]
HostTypeOK ==
  /\ host.mode \in Modes /\ host.gate \in {"open", "closed"}
  /\ host.source \in {"live", "quiet", "restarted"} /\ host.cool \in 0 .. FreshCooldown
  /\ host.limit \in {1, ConfiguredLimit} /\ host.inFlight \in 0 .. ConfiguredLimit
  /\ host.ledger \in BoundedSeq(Submission, ConfiguredLimit)
  /\ host.jobs \in BoundedSeq(Job, PackLimit)
  /\ host.queue \in BoundedSeq(Frame, MaxPending)
  /\ host.timers \in 0 .. 2 /\ host.failed \in Nat
  /\ host.restarts \in 0 .. MaxEncoderRestarts /\ host.captureRestarts \in 0 .. MaxCaptureRestarts
  /\ {host.running, host.pending, host.carrier, host.scheduled, host.session,
      host.confirmed, host.force, host.keyPending, host.retry, host.health,
      host.newCapture, host.freshOut, host.cooling, host.awaiting,
      host.keyInFlight, waiting} \subseteq BOOLEAN
  /\ faults \in 0 .. MaxFaults

\* Every encode slot taken belongs to one submission the ledger still knows: whoever of callback, refusal and watchdog retires a submission
\* gives its slot back, and only the first of them does.
SlotsConserved == host.inFlight = Len(host.ledger)

\* While the network queue waits for a keyframe, no delta is in it: what was encoded before
\* the boundary can neither stay in the queue nor get into it.
BoundaryHoldsDeltas == host.awaiting => \A i \in DOMAIN host.queue : host.queue[i].idr

\* A delayed retry, which holds back every other keyframe request, has a timer that ends it.
RetryHasTimer == host.retry => host.timers > 0

\* Submissions and encode slots agree, no delta from before a recovery boundary is
\* queued, and a delayed retry has its timer.
SlotsAndBoundariesHold ==
  /\ HostTypeOK
  /\ SlotsConserved
  /\ BoundaryHoldsDeltas
  /\ RetryHasTimer

\* Somebody waits for a keyframe: the viewer after a loss, the queue after it dropped its chain.
Unsettled == host.running /\ (waiting \/ host.awaiting)
\* Whoever waits gets one, or the session ends.
KeyframeComes == Unsettled ~> ~Unsettled
===============================================================================
