------------------------------- MODULE KmDuplex -------------------------------
(***************************************************************************)
(* One armed session of keyboard and mouse sharing: the session of the     *)
(* host (host-desktop km.rs), the event tap and the injector of the Mac    *)
(* (macos-capture-shim Sources/Km), the ordered connection between the two *)
(* ends (KmDuplex.kt) and the runtime of the tablet with its shell helper  *)
(* (viewer-expo km).  The host owns the state and its epoch; the tablet    *)
(* follows the states it is sent.                                          *)
(*                                                                         *)
(* One key stands for all physical input of an end.  Heartbeats of the     *)
(* host, positions and frame counters are left out: the connection is      *)
(* sealed and ordered.  A timeout, a lost permission, a revocation and an  *)
(* operator's stop are one event, which may come at any time.              *)
(***************************************************************************)
EXTENDS KmStates, SequencesExt

CONSTANTS
    MaxEpoch,    \* bound: changes of owner
    MaxPresses,  \* bound: presses of the two keys
    MaxQueue,    \* native events that wait for the host (MAX_QUEUE)
    MaxInFlight, \* bound: messages of the tablet in flight
    MaxFaults    \* bound: operations of the Mac or of the helper that stall

VARIABLES
    host,   \* Session and its task: see TypeOK
    batch,  \* events the task has drained from the native queue
    mac,    \* KmNativeSession, its work queue and the Mac's own input
    tab,    \* KmRuntime, its accessibility service and its helper
    h2t,    \* messages from the host
    t2h,    \* messages from the tablet, queued or on the wire
    wire,   \* the connection: "up" or "cut"
    faults  \* budget spent

vars == <<host, batch, mac, tab, h2t, t2h, wire, faults>>

Msg(epoch, kind, arg) == [epoch |-> epoch, kind |-> kind, arg |-> arg]

OwnerOf(state) == IF state \in Directions THEN state ELSE "local"

Init ==
    /\ host = [phase |-> "open", state |-> "armed", epoch |-> 1,
               pending |-> "none", awaiting |-> FALSE, returnReady |-> FALSE]
    /\ batch = <<>>
    /\ mac = [gate |-> "local", emergency |-> FALSE, shutdown |-> FALSE,
              stopped |-> FALSE, work |-> <<>>, releases |-> 0, queue |-> <<>>,
              failed |-> FALSE, pressed |-> FALSE, key |-> FALSE, sees |-> FALSE,
              presses |-> 0]
    /\ tab = [phase |-> "preparing", owner |-> "local", epoch |-> 1,
              releasing |-> FALSE, placed |-> FALSE, placement |-> FALSE,
              waiting |-> FALSE, returnArmed |-> FALSE, edgePending |-> FALSE,
              delayed |-> <<>>, mode |-> "observe", ticket |-> "none",
              tasks |-> <<>>, key |-> FALSE, held |-> FALSE, sees |-> FALSE,
              uhid |-> FALSE, grabbed |-> FALSE, helper |-> "alive", presses |-> 0]
    /\ h2t = <<Msg(1, "state", "local")>>
    /\ t2h = <<>>
    /\ wire = "up"
    /\ faults = 0

-----------------------------------------------------------------------------
(* The Mac's tap and injector.                                             *)

(* A callback: closed by stop, and a full queue fails for good. *)
Emit(m, event) ==
    IF m.shutdown THEN m
    ELSE IF Len(m.queue) >= MaxQueue THEN [m EXCEPT !.failed = TRUE]
    ELSE [m EXCEPT !.queue = Append(@, event)]

Pointer(at, injected, held) ==
    [kind |-> "pointer", at |-> at, injected |-> injected, held |-> held]
Key(down) == [kind |-> "key", down |-> down]
StopEvent == [kind |-> "stop"]

Usable(m) == ~m.emergency /\ ~m.shutdown

(* Slip: a release leaves the key down. *)
KeepingWork(m, item) ==
    CASE item = "neutral" -> Emit([m EXCEPT !.pressed = FALSE, !.gate = "local"], StopEvent)
      [] item = "retire" -> [m EXCEPT !.pressed = FALSE, !.gate = "local", !.stopped = TRUE]
      [] item = "down" -> [m EXCEPT !.pressed = Usable(m)]
      [] item = "up" -> [m EXCEPT !.pressed = @ /\ ~Usable(m)]
      [] item \in {"inside", "edge"} ->
           IF Usable(m) THEN Emit(m, Pointer(item, TRUE, FALSE)) ELSE m
      [] OTHER -> [m EXCEPT !.releases = IF item = "release" THEN @ - 1 ELSE @]

(* Slip: the end of a session forgets the suppression. *)
ForgetfulWork(m, item) ==
    IF item = "retire" THEN [m EXCEPT !.pressed = FALSE, !.stopped = TRUE]
    ELSE KeepingWork([m EXCEPT !.pressed = @ /\ item # "release"], item)

(* One piece of the serial injection queue. *)
Work(m, item) ==
    CASE item = "release" -> [m EXCEPT !.pressed = FALSE, !.releases = @ - 1]
      [] item = "neutral" -> Emit([m EXCEPT !.pressed = FALSE, !.gate = "local"], StopEvent)
      [] item = "retire" -> [m EXCEPT !.pressed = FALSE, !.gate = "local", !.stopped = TRUE]
      [] item = "down" -> [m EXCEPT !.pressed = Usable(m)]
      [] item = "up" -> [m EXCEPT !.pressed = @ /\ ~Usable(m)]
      [] item \in {"inside", "edge"} ->
           IF Usable(m) THEN Emit(m, Pointer(item, TRUE, FALSE)) ELSE m
      [] OTHER -> m

Enqueue(m, item) ==
    [m EXCEPT !.work = Append(@, item),
              !.releases = IF item = "release" THEN @ + 1 ELSE @]

(* A synchronous operation: everything before it runs too, or its wait     *)
(* times out and it stays queued.                                          *)
Perform(m, item) ==
    LET queued == Enqueue(m, item)
    IN  {[mac |-> FoldLeft(Work, [queued EXCEPT !.work = <<>>], queued.work),
          ok |-> item = "release" \/ Usable(m), fault |-> 0]}
          \cup (IF faults < MaxFaults
                THEN {[mac |-> queued, ok |-> FALSE, fault |-> 1]} ELSE {})

Grants(m, owner) ==
    Usable(m) /\ m.releases = 0 /\ ~(owner = "macToAndroid" /\ m.key)

FailClosed(m) ==
    IF Usable(m) THEN [Enqueue(m, "neutral") EXCEPT !.emergency = TRUE] ELSE m

MayPress == mac.presses + tab.presses < MaxPresses

(* A key of the Mac: withheld from its applications while the gate         *)
(* suppresses, forwarded unless the tap is stopping.                       *)
MacKey ==
    /\ mac.key \/ MayPress
    /\ LET down == ~mac.key
           suppressed == mac.gate = "macToAndroid" /\ ~mac.stopped
           m == [mac EXCEPT !.key = down,
                            !.presses = IF down THEN @ + 1 ELSE @,
                            !.sees = IF suppressed THEN @ ELSE down]
       IN  mac' = IF suppressed /\ Usable(mac) THEN Emit(m, Key(down)) ELSE m
    /\ UNCHANGED <<host, batch, tab, h2t, t2h, wire, faults>>

(* The physical pointer of the Mac reaches the shared edge. *)
MacPointer ==
    /\ Usable(mac)
    /\ host.state = "armed" /\ mac.queue = <<>>   \* bound: elsewhere it says nothing new
    /\ mac' = Emit(mac, Pointer("edge", FALSE, mac.key))
    /\ UNCHANGED <<host, batch, tab, h2t, t2h, wire, faults>>

(* Escape, a locked screen, sleep, secure input, a disabled tap. *)
MacEmergency ==
    /\ Usable(mac)
    /\ mac' = FailClosed(mac)
    /\ UNCHANGED <<host, batch, tab, h2t, t2h, wire, faults>>

MacWork ==
    /\ mac.work # <<>>
    /\ mac' = Work([mac EXCEPT !.work = Tail(@)], Head(mac.work))
    /\ UNCHANGED <<host, batch, tab, h2t, t2h, wire, faults>>

-----------------------------------------------------------------------------
(* The session of the host.  An operation has a set of outcomes: the       *)
(* session, the Mac, the messages to send and the faults it spent.         *)

Outcome(h, m, out, fault) == [h |-> h, m |-> m, out |-> out, fault |-> fault]

Failing(h) == [h EXCEPT !.phase = "failing"]

Sharing(state) == [state |-> state, consent |-> Directions, observing |-> TRUE]

Preflighted == Capabilities \ {"virtualCursor"}

(* KmManager::transition: release in the old epoch, then the new owner in  *)
(* the next.  The old suppression stays until the peer confirms a return.  *)
Transition(to) ==
    LET from == host.state
        next == [host EXCEPT !.state = to, !.epoch = @ + 1, !.awaiting = TRUE,
                             !.returnReady = FALSE,
                             !.pending = IF to = "armed" THEN from ELSE @]
        out == <<Msg(host.epoch, "releaseAll", "none")>>
                 \o When(to = "armed" /\ from = "androidToMac",
                         <<Msg(host.epoch, "cursor", "none")>>)
                 \o <<Msg(host.epoch + 1, "state", OwnerOf(to))>>
    IN  {LET m == [p.mac EXCEPT !.queue = <<>>]
         IN  IF to = "armed" THEN Outcome(next, m, out, p.fault)
             ELSE IF Grants(m, to)
             THEN Outcome(next, [m EXCEPT !.gate = to], out, p.fault)
             ELSE Outcome(Failing(next), m, <<>>, p.fault)
         : p \in Perform(mac, "release")}

Quietly(h) == {Outcome(h, mac, <<>>, 0)}

(* place and inject: an operation of the injector the session insists on. *)
Insisting(outcomes, item) ==
    UNION {IF r.h.phase = "failing" THEN {r}
           ELSE {IF p.ok THEN [r EXCEPT !.m = p.mac]
                 ELSE Outcome(Failing(r.h), p.mac, <<>>, r.fault + p.fault)
                 : p \in Perform(r.m, item)}
           : r \in outcomes}

Run(outcomes) ==
    \E r \in outcomes :
        /\ faults + r.fault <= MaxFaults
        /\ host' = r.h
        /\ mac' = r.m
        /\ h2t' = IF wire = "up" THEN h2t \o r.out ELSE h2t
        /\ faults' = faults + r.fault

MayTransition == host.epoch < MaxEpoch

Drain ==
    /\ host.phase = "open" /\ batch = <<>>
    /\ mac.queue # <<>> \/ mac.failed
    /\ IF mac.failed
       THEN host' = Failing(host) /\ UNCHANGED <<batch, mac>>
       ELSE /\ batch' = LET q == mac.queue
                            merged(i) == i < Len(q) /\ q[i].kind = "pointer"
                                           /\ q[i + 1].kind = "pointer"
                                           /\ q[i].injected = q[i + 1].injected
                        IN  [j \in 1..Cardinality({i \in DOMAIN q : ~merged(i)}) |->
                               q[CHOOSE i \in DOMAIN q :
                                   /\ ~merged(i)
                                   /\ Cardinality({k \in 1..i : ~merged(k)}) = j]]
            /\ mac' = [mac EXCEPT !.queue = <<>>]
            /\ UNCHANGED host
    /\ UNCHANGED <<tab, h2t, t2h, wire, faults>>

Crosses(event) ==
    event.kind = "pointer" /\ event.at = "edge" /\ ~event.injected /\ ~event.held
      /\ host.state = "armed"

Returns(event) ==
    event.kind = "pointer" /\ event.at = "edge" /\ event.injected
      /\ host.state = "androidToMac" /\ host.returnReady

(* KmManager::native, for the next event of the batch. *)
Native ==
    /\ host.phase = "open" /\ batch # <<>>
    /\ batch' = Tail(batch)
    /\ LET event == Head(batch)
       IN  Run(IF event.kind = "stop" THEN Quietly(Failing(host))
               ELSE IF host.pending # "none" THEN Quietly(host)
               ELSE IF Crosses(event) /\ MayTransition
               THEN {IF r.h.phase = "failing" THEN r
                     ELSE [r EXCEPT !.out = Append(@, Msg(r.h.epoch, "cursor", "none"))]
                     : r \in Transition(EnterMacToAndroid(Sharing(host.state),
                                                          Preflighted).to.state)}
               ELSE IF Returns(event) /\ MayTransition
               THEN Transition(ReturnToLocal(Sharing(host.state)).to.state)
               ELSE IF event.kind = "pointer"
               THEN Quietly([host EXCEPT !.returnReady =
                                @ \/ (event.injected /\ event.at = "inside"
                                        /\ host.state = "androidToMac")])
               ELSE IF host.state = "macToAndroid"
               THEN {Outcome(host, mac, <<Msg(host.epoch, "key", event.down)>>, 0)}
               ELSE Quietly(host))
    /\ UNCHANGED <<tab, t2h, wire>>

(* confirm_local: the peer has applied the release of the epoch before. *)
Confirmed ==
    LET h == [host EXCEPT !.pending = "none", !.awaiting = FALSE]
    IN  IF host.pending = "none" THEN Quietly(h)
        ELSE IF ~Grants(mac, "local") THEN Quietly(Failing(h))
        ELSE {[r EXCEPT !.m.queue = <<>>]
              : r \in Insisting({Outcome(h, [mac EXCEPT !.gate = "local"], <<>>, 0)},
                                "place")}

Stale(msg) == msg.epoch < host.epoch

(* KmManager::incoming. *)
Incoming ==
    /\ host.phase = "open" /\ batch = <<>> /\ t2h # <<>>
    /\ t2h' = Tail(t2h)
    /\ LET msg == Head(t2h)
           returning == msg.kind = "edge" /\ msg.arg = TRUE
                          /\ host.state = "macToAndroid" /\ host.returnReady
           entering == msg.kind = "edge" /\ msg.arg = FALSE /\ host.state = "armed"
       IN  /\ ~Stale(msg) /\ (returning \/ entering) => MayTransition
           /\ Run(IF Stale(msg) THEN Quietly(host)
                  ELSE IF msg.kind = "heartbeat" THEN Confirmed
                  ELSE IF msg.kind = "stop" THEN Quietly(Failing(host))
                  ELSE IF msg.kind = "cursor"
                  THEN Quietly([host EXCEPT !.returnReady = TRUE])
                  ELSE IF returning
                  THEN Transition(ReturnToLocal(Sharing(host.state)).to.state)
                  ELSE IF entering
                  THEN Insisting(Transition(EnterAndroidToMac(Sharing(host.state),
                                               Preflighted, "motionObservation").to.state),
                                 "place")
                  ELSE IF msg.kind = "edge" THEN Quietly(host)
                  ELSE IF host.state # "androidToMac" THEN Quietly(Failing(host))
                  ELSE Insisting(Quietly(host), msg.arg))
    /\ UNCHANGED <<batch, tab, wire>>

(* The watchdogs of the task, a revocation, a lost permission, a peer that *)
(* closed the connection.                                                  *)
HostGivesUp ==
    /\ host.phase = "open"
    /\ host' = Failing(host)
    /\ UNCHANGED <<batch, mac, tab, h2t, t2h, wire, faults>>

(* KmManager::stop_session, by the task or by anyone else. *)
StopSession ==
    /\ host.phase # "gone"
    /\ \E p \in Perform(mac, "release") :
           LET m == IF Grants(p.mac, "local") THEN [p.mac EXCEPT !.gate = "local"]
                                              ELSE p.mac
           IN  /\ mac' = [Enqueue(m, "retire") EXCEPT !.shutdown = TRUE]
               /\ faults' = faults + p.fault
    /\ host' = [host EXCEPT !.phase = "gone", !.state = "off", !.pending = "none",
                            !.awaiting = FALSE, !.returnReady = FALSE]
    /\ batch' = <<>>
    /\ wire' = "cut"
    /\ UNCHANGED <<tab, h2t, t2h>>

-----------------------------------------------------------------------------
(* The tablet.                                                             *)

Live == tab.phase \in {"preparing", "on"}

Idle == Live /\ tab.ticket = "none"

(* The worker takes its tasks in the order they were posted: a key is      *)
(* posted behind some of the messages that have arrived ("after").         *)
Turn == tab.tasks # <<>> => Head(tab.tasks).after > 0

Taken(t) ==
    IF t.tasks = <<>> THEN t ELSE [t EXCEPT !.tasks[1].after = @ - 1]

Told(t, msgs) ==
    /\ tab' = t
    /\ t2h' = IF wire = "up" THEN t2h \o msgs ELSE t2h

TabFailing(t) == [t EXCEPT !.phase = "failing", !.ticket = "none"]

(* Slip: the key filter outlives the capture. *)
FilteringCommitted(t, next) ==
    LET neutral == [t EXCEPT !.uhid = FALSE, !.grabbed = FALSE, !.placement = FALSE,
                             !.delayed = <<>>, !.edgePending = FALSE,
                             !.returnArmed = FALSE, !.releasing = FALSE,
                             !.placed = FALSE, !.waiting = FALSE]
    IN  IF next # "androidToMac" THEN [neutral EXCEPT !.owner = next, !.phase = "on"]
        ELSE IF neutral.held THEN TabFailing(neutral)
        ELSE [neutral EXCEPT !.ticket = "fresh", !.grabbed = TRUE]

(* KmOwnerTransition.commit and commitOwner, up to the capture of the      *)
(* mouse when there is one.                                                *)
Committed(t, next) ==
    LET neutral == [t EXCEPT !.uhid = FALSE, !.grabbed = FALSE, !.placement = FALSE,
                             !.delayed = <<>>, !.edgePending = FALSE,
                             !.returnArmed = FALSE, !.releasing = FALSE,
                             !.placed = FALSE, !.waiting = FALSE]
    IN  IF next # "androidToMac"
        THEN [neutral EXCEPT !.owner = next, !.mode = "observe", !.phase = "on"]
        ELSE IF neutral.held THEN TabFailing(neutral)
        ELSE [neutral EXCEPT !.ticket = "fresh", !.grabbed = TRUE]

(* Slip: a state is applied without a word. *)
Silence(t) == <<>>

Acknowledges(t) ==
    When(t.phase = "on" /\ t.ticket = "none", <<Msg(t.epoch, "heartbeat", "none")>>)

(* KmRuntime.receive of a state: what is still queued is discarded.  A     *)
(* return waits for the placement of the cursor.                           *)
ReceiveState(t, next) ==
    \E kept \in 0..Len(t2h) :
        LET queue == SubSeq(t2h, 1, kept)
            refused == t.waiting \/ (t.owner = "androidToMac" /\ next = "local"
                                       /\ ~(t.releasing /\ t.placed))
            done == IF refused THEN TabFailing(t)
                    ELSE IF next = "local" /\ t.placement
                    THEN [t EXCEPT !.waiting = TRUE]
                    ELSE Committed(t, next)
        IN  /\ tab' = done
            /\ t2h' = IF wire = "up" /\ ~refused /\ ~done.waiting
                      THEN queue \o Acknowledges(done) ELSE queue

Inject(t, down) == [t EXCEPT !.uhid = down]

Received(t, msg) ==
    CASE msg.kind = "releaseAll" ->
           [t EXCEPT !.uhid = FALSE, !.delayed = <<>>,
                     !.releasing = t.owner = "androidToMac", !.placed = FALSE]
      [] msg.kind = "cursor" ->
           IF t.owner = "macToAndroid" \/ (t.owner = "androidToMac" /\ t.releasing)
           THEN [t EXCEPT !.placed = @ \/ t.owner = "androidToMac", !.placement = TRUE]
           ELSE TabFailing(t)
      [] msg.kind = "key" ->
           IF t.owner # "macToAndroid" THEN TabFailing(t)
           ELSE IF t.placement THEN [t EXCEPT !.delayed = Append(@, msg.arg)]
           ELSE Inject(t, msg.arg)

(* KmEpochGate.accept: only a state opens a new epoch. *)
Accepts(t, msg) == msg.epoch >= t.epoch /\ (msg.epoch = t.epoch \/ msg.kind = "state")

Receive ==
    /\ Idle /\ Turn /\ h2t # <<>>
    /\ h2t' = Tail(h2t)
    /\ LET msg == Head(h2t)
           t == Taken([tab EXCEPT !.epoch = msg.epoch])
       IN  IF ~Accepts(tab, msg) THEN Told(TabFailing(tab), <<>>)
           ELSE IF msg.kind = "state" THEN ReceiveState(t, msg.arg)
           ELSE Told(Received(t, msg), <<>>)
    /\ UNCHANGED <<host, batch, mac, wire, faults>>

(* configure: the capture holds only if no physical key moved meanwhile. *)
CommitCapture ==
    /\ Live /\ tab.ticket # "none"
    /\ IF tab.ticket = "fresh" /\ ~tab.held
       THEN LET t == [tab EXCEPT !.ticket = "none", !.mode = "consume",
                                 !.owner = "androidToMac", !.phase = "on"]
            IN  Told(t, Acknowledges(t))
       ELSE Told([TabFailing(tab) EXCEPT !.mode = "off"], <<>>)
    /\ UNCHANGED <<host, batch, mac, h2t, wire, faults>>

(* The cursor has reached the place the host asked for. *)
Placed ==
    /\ Idle /\ Turn /\ tab.placement
    /\ LET t == Taken([tab EXCEPT !.placement = FALSE, !.delayed = <<>>])
       IN  IF tab.waiting
           THEN LET done == Committed(t, "local") IN Told(done, Acknowledges(done))
           ELSE Told(FoldLeft(Inject, t, tab.delayed), <<>>)
    /\ UNCHANGED <<host, batch, mac, h2t, wire, faults>>

Observing == Idle /\ Turn /\ tab.phase = "on" /\ ~tab.releasing /\ ~tab.waiting

Room == Len(t2h) < MaxInFlight

(* The pointer is well inside the tablet's screen; its position is sent    *)
(* unless one was sent less than eight milliseconds ago.                   *)
MotionInside(sent) ==
    /\ Observing /\ tab.owner \in {"local", "macToAndroid"}
    /\ sent => Room /\ ~host.returnReady   \* bound: a second one says nothing new
    /\ ~sent => ~tab.returnArmed
    /\ Told([tab EXCEPT !.returnArmed = TRUE],
            When(sent, <<Msg(tab.epoch, "cursor", "none")>>))
    /\ UNCHANGED <<host, batch, mac, h2t, wire, faults>>

(* It is at the shared edge. *)
MotionAtEdge ==
    /\ Observing /\ Room
    /\ ~tab.edgePending /\ ~tab.placement /\ tab.returnArmed
    /\ tab.owner = "macToAndroid" \/ (tab.owner = "local" /\ ~tab.held)
    /\ Told([tab EXCEPT !.edgePending = TRUE],
            <<Msg(tab.epoch, "edge", tab.owner = "macToAndroid")>>)
    /\ UNCHANGED <<host, batch, mac, h2t, wire, faults>>

Forwards == Idle /\ tab.owner = "androidToMac" /\ ~tab.releasing

(* Motion of the captured mouse. *)
RawMotion ==
    /\ Forwards /\ Room
    /\ \E at \in {"inside", "edge"} :
           /\ (at = "inside") = ~host.returnReady  \* bound: a way out and back is enough
           /\ Told(tab, <<Msg(tab.epoch, "input", at)>>)
    /\ UNCHANGED <<host, batch, mac, h2t, wire, faults>>

(* A key of the tablet, on the thread of the accessibility service. *)
TabKey ==
    /\ tab.key \/ MayPress
    /\ LET down == ~tab.key
           t == [tab EXCEPT !.key = down, !.presses = IF down THEN @ + 1 ELSE @]
           ahead == IF tab.tasks = <<>>
                    THEN Len(h2t) + (IF tab.placement THEN 1 ELSE 0)
                    ELSE 0                 \* bound: nothing arrives between two keys
       IN  \E n \in 0..ahead :
           tab' = IF tab.mode = "consume"
                  THEN [t EXCEPT !.tasks = Append(@, [down |-> down, after |-> n])]
                  ELSE [t EXCEPT !.held = down, !.sees = down,
                                 !.ticket = IF @ = "fresh" THEN "stale" ELSE @]
    /\ UNCHANGED <<host, batch, mac, h2t, t2h, wire, faults>>

(* Its task on the worker. *)
KeyTask ==
    /\ tab.ticket = "none" /\ tab.tasks # <<>>
    /\ Head(tab.tasks).after = 0 \/ (h2t = <<>> /\ ~tab.placement)
    /\ Told([tab EXCEPT !.tasks = Tail(@)],
            When(Forwards, <<Msg(tab.epoch, "input",
                                 IF Head(tab.tasks).down THEN "down" ELSE "up")>>))
    /\ UNCHANGED <<host, batch, mac, h2t, wire, faults>>

Heartbeat ==
    /\ Idle /\ ~tab.waiting /\ Room
    /\ host.awaiting                       \* bound: else it says nothing
    /\ Msg(tab.epoch, "heartbeat", "none") \notin Range(t2h)
    /\ Told(tab, <<Msg(tab.epoch, "heartbeat", "none")>>)
    /\ UNCHANGED <<host, batch, mac, h2t, wire, faults>>

(* A stop from the application, a permission that went away, a watchdog,   *)
(* an operation of the helper that failed, a closed connection.            *)
TabGivesUp ==
    /\ Live
    /\ tab' = TabFailing(tab)
    /\ UNCHANGED <<host, batch, mac, h2t, t2h, wire, faults>>

(* KmRuntime.stopNow.  The stop may be lost with the connection; a helper  *)
(* that does not answer keeps what it holds until its own watchdog.        *)
StopNow ==
    /\ tab.phase = "failing"
    /\ LET t == [tab EXCEPT !.owner = "local", !.mode = "off", !.placement = FALSE,
                            !.waiting = FALSE, !.delayed = <<>>, !.releasing = FALSE,
                            !.placed = FALSE, !.edgePending = FALSE,
                            !.returnArmed = FALSE]
       IN  \/ /\ tab' = [t EXCEPT !.phase = "off", !.uhid = FALSE, !.grabbed = FALSE,
                                  !.helper = "closed"]
              /\ UNCHANGED faults
           \/ /\ faults < MaxFaults
              /\ tab' = [t EXCEPT !.phase = "cleanupFailed"]
              /\ faults' = faults + 1
    /\ wire' = "cut"
    /\ t2h' \in {t2h, Append(t2h, Msg(tab.epoch, "stop", "none"))}
    /\ UNCHANGED <<host, batch, mac, h2t>>

(* The process of the application dies, its service with it. *)
TabCrash ==
    /\ tab.phase \in {"preparing", "on", "failing"} /\ faults < MaxFaults
    /\ tab' = [TabFailing(tab) EXCEPT !.phase = "dead", !.mode = "off", !.tasks = <<>>,
                                      !.owner = "local"]
    /\ wire' = "cut"
    /\ faults' = faults + 1
    /\ UNCHANGED <<host, batch, mac, h2t, t2h>>

(* KmAuthorityLifetime.tick: no heartbeat from the application for a second. *)
HelperExpires ==
    /\ tab.helper = "alive" /\ tab.phase \in {"cleanupFailed", "dead"}
    /\ tab' = [tab EXCEPT !.uhid = FALSE, !.grabbed = FALSE, !.helper = "closed"]
    /\ UNCHANGED <<host, batch, mac, h2t, t2h, wire, faults>>

(* The network is lost. *)
CutWire ==
    /\ wire = "up" /\ faults < MaxFaults
    /\ wire' = "cut"
    /\ faults' = faults + 1
    /\ UNCHANGED <<host, batch, mac, tab, h2t, t2h>>

-----------------------------------------------------------------------------
MacSteps == MacKey \/ MacPointer \/ MacEmergency \/ MacWork

HostSteps == Drain \/ Native \/ Incoming \/ HostGivesUp \/ StopSession

TabSteps ==
    \/ Receive \/ CommitCapture \/ Placed \/ MotionAtEdge \/ RawMotion \/ TabKey
    \/ KeyTask \/ Heartbeat \/ TabGivesUp \/ StopNow \/ TabCrash \/ HelperExpires
    \/ \E sent \in BOOLEAN : MotionInside(sent)

Next == MacSteps \/ HostSteps \/ TabSteps \/ CutWire

Spec == Init /\ [][Next]_vars

(* Threads run; a task that failed cleans up; an end whose peer is gone    *)
(* finds out, by the closed connection or by its watchdog.                 *)
Fairness ==
    /\ WF_vars(MacWork) /\ WF_vars(Drain) /\ WF_vars(Native) /\ WF_vars(Incoming)
    /\ WF_vars(wire = "cut" /\ HostGivesUp)
    /\ WF_vars(host.phase = "failing" /\ StopSession)
    /\ WF_vars(Receive) /\ WF_vars(CommitCapture) /\ WF_vars(Placed)
    /\ WF_vars(KeyTask) /\ WF_vars(Heartbeat)
    /\ WF_vars(wire = "cut" /\ TabGivesUp)
    /\ WF_vars(StopNow) /\ WF_vars(HelperExpires)
    /\ WF_vars(MotionInside(TRUE)) /\ WF_vars(MotionAtEdge)

FairSpec == Spec /\ Fairness

-----------------------------------------------------------------------------
Owners == {"local"} \cup Directions

TypeOK ==
    /\ host \in [phase : {"open", "failing", "gone"}, state : States,
                 epoch : 1..MaxEpoch, pending : {"none"} \cup Directions,
                 awaiting : BOOLEAN, returnReady : BOOLEAN]
    /\ mac.gate \in Owners /\ mac.releases \in 0..(MaxFaults + 1)
    /\ Len(mac.queue) <= MaxQueue /\ Len(batch) <= MaxQueue
    /\ tab.phase \in {"preparing", "on", "failing", "off", "cleanupFailed", "dead"}
    /\ tab.owner \in Owners /\ tab.epoch \in 1..MaxEpoch
    /\ tab.mode \in {"off", "observe", "consume"}
    /\ tab.ticket \in {"none", "fresh", "stale"}
    /\ wire \in {"up", "cut"} /\ faults \in 0..MaxFaults

(* The Mac never withholds its input from its own applications while the   *)
(* tablet withholds its input from its own: there is always an end that    *)
(* can be used, however messages and gates cross.                          *)
NeverBothTaken == ~(mac.gate = "macToAndroid" /\ tab.mode = "consume")

(* When the host counts a return as done, the tablet has released what it  *)
(* injected and given up its capture, and nothing injected is held down on *)
(* the Mac (km.rs: TCP ordering does not prove the peer applied release).  *)
ReturnIsApplied ==
    (host.phase = "open" /\ host.state = "armed" /\ host.pending = "none") =>
        /\ ~mac.pressed /\ mac.gate = "local"
        /\ ~tab.uhid
        /\ tab.mode # "consume" /\ ~tab.grabbed /\ tab.owner = "local"

(* No application of either end is left with a key down whose release was  *)
(* sent to the other end.                                                  *)
NoLocalKeyStuck == (mac.sees => mac.key) /\ (tab.sees => tab.key)

(* With nothing on its way, a key is down on the far end only while it is  *)
(* down on the near one.                                                   *)
NoRemoteKeyStuck ==
    (host.phase = "open" /\ batch = <<>> /\ mac.queue = <<>> /\ mac.work = <<>>
       /\ h2t = <<>> /\ t2h = <<>> /\ Live /\ tab.tasks = <<>> /\ tab.delayed = <<>>
       /\ ~mac.failed /\ wire = "up") =>
        /\ tab.uhid => (host.state = "macToAndroid" /\ (mac.key \/ mac.emergency))
        /\ mac.pressed => (host.state = "androidToMac" /\ tab.key)

(* The two ends never take each other's input at once, a confirmed return  *)
(* is applied, and no key stays down at either end.                        *)
NoInputIsStranded ==
  /\ NeverBothTaken
  /\ ReturnIsApplied
  /\ NoLocalKeyStuck
  /\ NoRemoteKeyStuck

Sharer == INSTANCE KmOwner
            WITH owner <- IF host.pending # "none" THEN host.pending
                                                   ELSE OwnerOf(host.state)

(* The owner a host reports (KmManager::status) is exclusive: it changes   *)
(* direction only by way of a return the tablet has confirmed.             *)
ExclusiveOwner == Sharer!Spec

(* However sharing ends - a stop of either end, an emergency, a crash of   *)
(* the tablet's application, a lost connection - both ends get their own   *)
(* input back and nothing injected stays down.                             *)
Unsettled == host.phase # "open" \/ ~Live \/ wire = "cut"
Settled ==
    /\ mac.gate = "local" /\ ~mac.pressed
    /\ tab.mode = "off" /\ ~tab.uhid /\ ~tab.grabbed
FailsClosed == Unsettled ~> Settled

=============================================================================
