---------------------------- MODULE InputReceiver ----------------------------
(***************************************************************************)
(* The macOS host's end of the input plane: handleInputMessage,            *)
(* handleInputLanguage, setInputEnabled, stop and releaseInjectedInput of  *)
(* native/macos-capture-shim.  Datagrams are handled one at a time on the  *)
(* serial inputQueue; the operator's toggle, the main queue and the stop   *)
(* run on other threads and only meet the handler at inputLock, so a       *)
(* handler is two steps: the snapshot it takes under the lock, and what it *)
(* does afterwards.  `done` and `resynced` are the delivery record the     *)
(* abstract specification speaks about.                                    *)
(***************************************************************************)
EXTENDS InputWire

VARIABLES
    phase,        \* see Phases
    last,         \* lastReliableInputSequence
    lastPtr,      \* lastPointerInputSequence
    enabled,      \* inputEnabled
    handling,     \* the datagram on inputQueue with its snapshot
    langSeq,      \* inputLanguageTransition.sequence, 0 when nil
    langTask,     \* the block on the main queue whose generation is current
    releaseTasks, \* releaseInjectedInput blocks waiting on inputQueue
    held,         \* pressedKeys and pressedButtons
    hostPtr,      \* newest pointer position injected
    done,         \* the last producer call executed or consumed
    resynced      \* a ReleaseAll was processed since

recvVars == <<phase, last, lastPtr, enabled, handling, langSeq,
              langTask, releaseTasks, held, hostPtr, done, resynced>>

(* proving: connectSocket awaits the echo.  open: the read source is live. *)
(* stopping: stop() began, the source is still live; sealed: it never was. *)
(* stopped: stop() returned.  gone: the session object is deallocated.     *)
Phases == {"proving", "open", "stopping", "sealed", "stopped", "gone"}

Idle == [m |-> NoDatagram, last |-> 0, enabled |-> FALSE, newer |-> FALSE]

Busy == handling.m.kind # "none"

RecvInit ==
    /\ phase = "proving"
    /\ last = 0
    /\ lastPtr = 0
    /\ enabled = FALSE
    /\ handling = Idle
    /\ langSeq = 0
    /\ langTask = NoDatagram
    /\ releaseTasks = 0
    /\ held = {}
    /\ hostPtr = 0
    /\ done = 0
    /\ resynced = TRUE

(* InputLanguageTransition.cancel: a block already dispatched is stale.    *)
CancelLanguage == langSeq' = 0 /\ langTask' = NoDatagram

(* Effect of injecting an event on the keys the host holds down. *)
Inject(ev) ==
    held' = CASE ev.op = "down" -> held \cup {ev.key}
              [] ev.op = "up"   -> held \ {ev.key}
              [] OTHER          -> held

-----------------------------------------------------------------------------
(* The proof echoed back: finishMediaSocketHandshake. *)
OpenSession ==
    /\ phase = "proving"
    /\ phase' = "open"
    /\ last' = 0
    /\ lastPtr' = 0
    /\ UNCHANGED <<enabled, handling, langSeq, langTask, releaseTasks, held,
                   hostPtr, done, resynced>>

(* A plausible slip: motion is taken in order of arrival. *)
BeginAnyMove(m) ==
    /\ phase \in {"open", "stopping"}
    /\ ~Busy
    /\ handling' = [m |-> m, last |-> last, enabled |-> enabled,
                    newer |-> m.kind = "move"]
    /\ lastPtr' = IF handling'.newer THEN m.seq ELSE lastPtr
    /\ UNCHANGED <<phase, last, enabled, langSeq, langTask, releaseTasks,
                   held, hostPtr, done, resynced>>

(* A datagram of the receiver is taken up; the snapshot under inputLock.   *)
Begin(m) ==
    /\ phase \in {"open", "stopping"}
    /\ ~Busy
    /\ handling' = [m |-> m, last |-> last, enabled |-> enabled,
                    newer |-> m.kind = "move" /\ m.seq > lastPtr]
    /\ lastPtr' = IF handling'.newer THEN m.seq ELSE lastPtr
    /\ UNCHANGED <<phase, last, enabled, langSeq, langTask, releaseTasks,
                   held, hostPtr, done, resynced>>

(* The unreliable pointer path. *)
FinishMove ==
    /\ Busy
    /\ handling.m.kind = "move"
    /\ hostPtr' = IF handling.newer /\ handling.enabled
                  THEN handling.m.id ELSE hostPtr
    /\ handling' = Idle
    /\ UNCHANGED <<phase, last, lastPtr, enabled, langSeq, langTask,
                   releaseTasks, held, done, resynced>>

Reliable == Busy /\ handling.m.kind = "reliable"

(* A repeat of the last accepted sequence: acknowledged again, not redone. *)
FinishDuplicate ==
    /\ Reliable
    /\ handling.m.seq = handling.last
    /\ handling' = Idle
    /\ UNCHANGED <<phase, last, lastPtr, enabled, langSeq, langTask,
                   releaseTasks, held, hostPtr, done, resynced>>

(* A plausible slip: a ReleaseAll is obeyed however old it is. *)
FinishAnyRelease ==
    /\ Reliable
    /\ handling.m.seq # handling.last
    /\ handling.m.ev.op = "release"
    /\ held' = IF handling.enabled THEN {} ELSE held
    /\ CancelLanguage
    /\ last' = handling.m.seq
    /\ resynced' = TRUE
    /\ handling' = Idle
    /\ UNCHANGED <<phase, lastPtr, enabled, releaseTasks, hostPtr, done>>

(* A plausible slip: the ReleaseAll is consumed and nothing let go. *)
FinishReleaseForgets ==
    /\ Reliable
    /\ handling.m.ev.op = "release"
    /\ handling.m.seq > handling.last
    /\ CancelLanguage
    /\ last' = handling.m.seq
    /\ resynced' = TRUE
    /\ handling' = Idle
    /\ UNCHANGED <<phase, lastPtr, enabled, releaseTasks, held, hostPtr, done>>

(* ReleaseAll may skip lost events, but must not be older than the last.   *)
FinishRelease ==
    /\ Reliable
    /\ handling.m.ev.op = "release"
    /\ handling.m.seq > handling.last
    /\ held' = IF handling.enabled THEN {} ELSE held
    /\ CancelLanguage
    /\ last' = handling.m.seq
    /\ resynced' = TRUE
    /\ handling' = Idle
    /\ UNCHANGED <<phase, lastPtr, enabled, releaseTasks, hostPtr, done>>

(* handleInputLanguage looks at the sequence again under the lock and      *)
(* starts a transition unless one is running; it acknowledges only a       *)
(* repeat of what the main queue finished meanwhile.                       *)
FinishLanguage ==
    /\ Reliable
    /\ handling.m.ev.op = "lang"
    /\ handling.m.seq = handling.last + 1
    /\ IF handling.m.seq = last + 1 /\ langSeq = 0
       THEN langSeq' = handling.m.seq /\ langTask' = handling.m
       ELSE UNCHANGED <<langSeq, langTask>>
    /\ handling' = Idle
    /\ UNCHANGED <<phase, last, lastPtr, enabled, releaseTasks, held,
                   hostPtr, done, resynced>>

LanguageAlreadyDone == handling.m.seq = last

(* A plausible slip: the order of reliable events is not tested. *)
FinishEventAnyOrder ==
    /\ Reliable
    /\ handling.m.ev.op \notin {"release", "lang"}
    /\ handling.m.seq # handling.last
    /\ IF handling.enabled THEN Inject(handling.m.ev) ELSE UNCHANGED held
    /\ last' = handling.m.seq
    /\ done' = handling.m.ev.hi
    /\ resynced' = FALSE
    /\ handling' = Idle
    /\ UNCHANGED <<phase, lastPtr, enabled, langSeq, langTask, releaseTasks,
                   hostPtr>>

(* The next event in order: injected if input was enabled, consumed anyway *)
FinishEvent ==
    /\ Reliable
    /\ handling.m.ev.op \notin {"release", "lang"}
    /\ handling.m.seq = handling.last + 1
    /\ IF handling.enabled THEN Inject(handling.m.ev) ELSE UNCHANGED held
    /\ last' = handling.m.seq
    /\ done' = handling.m.ev.hi
    /\ resynced' = FALSE
    /\ handling' = Idle
    /\ UNCHANGED <<phase, lastPtr, enabled, langSeq, langTask, releaseTasks,
                   hostPtr>>

(* Anything else is dropped without an acknowledgement. *)
FinishIgnored ==
    /\ Reliable
    /\ handling.m.seq # handling.last
    /\ IF handling.m.ev.op = "release" THEN handling.m.seq < handling.last
       ELSE handling.m.seq # handling.last + 1
    /\ handling' = Idle
    /\ UNCHANGED <<phase, last, lastPtr, enabled, langSeq, langTask,
                   releaseTasks, held, hostPtr, done, resynced>>

(* The main queue performs the switch, under inputLock, and only then lets *)
(* the sequence advance.                                                   *)
RunLanguage ==
    /\ langTask.kind # "none"
    /\ langTask' = NoDatagram
    /\ IF langTask.seq = last + 1
       THEN /\ langSeq' = 0
            /\ last' = langTask.seq
            /\ done' = langTask.ev.hi
            /\ resynced' = FALSE
       ELSE UNCHANGED <<langSeq, last, done, resynced>>
    /\ UNCHANGED <<phase, lastPtr, enabled, handling, releaseTasks, held,
                   hostPtr>>

-----------------------------------------------------------------------------
(* A plausible slip: the toggle releases on its own thread, so a handler   *)
(* that already saw input enabled presses its key afterwards.              *)
SetInputEnabledAtOnce(b) ==
    /\ phase = "open"
    /\ enabled' = b
    /\ IF b THEN UNCHANGED <<langSeq, langTask>> ELSE CancelLanguage
    /\ held' = IF b THEN held ELSE {}
    /\ UNCHANGED <<phase, last, lastPtr, handling, releaseTasks, hostPtr,
                   done, resynced>>

(* The handle is known to the caller once the session is open. *)
SetInputEnabled(b) ==
    /\ phase = "open"
    /\ enabled' = b
    /\ IF b THEN UNCHANGED <<langSeq, langTask>> ELSE CancelLanguage
    /\ releaseTasks' = IF enabled /\ ~b THEN releaseTasks + 1
                       ELSE releaseTasks
    /\ UNCHANGED <<phase, last, lastPtr, handling, held, hostPtr, done,
                   resynced>>

(* releaseInjectedInput, queued behind whatever inputQueue was doing. *)
RunRelease ==
    /\ releaseTasks > 0
    /\ ~Busy
    /\ phase # "gone"
    /\ releaseTasks' = releaseTasks - 1
    /\ held' = {}
    /\ UNCHANGED <<phase, last, lastPtr, enabled, handling, langSeq,
                   langTask, hostPtr, done, resynced>>

(* stop() cancels the language transition first, ...                       *)
BeginStop ==
    /\ phase \in {"proving", "open"}
    /\ phase' = IF phase = "open" THEN "stopping" ELSE "sealed"
    /\ CancelLanguage
    /\ UNCHANGED <<last, lastPtr, enabled, handling, releaseTasks, held,
                   hostPtr, done, resynced>>

(* ... then waits for the running handler, cancels the read source and     *)
(* queues a release behind it.                                             *)
FinishStop ==
    /\ phase \in {"stopping", "sealed"}
    /\ ~Busy
    /\ phase' = "stopped"
    /\ releaseTasks' = releaseTasks + 1
    /\ UNCHANGED <<last, lastPtr, enabled, handling, langSeq, langTask, held,
                   hostPtr, done, resynced>>

(* The stopped session left the registry: its last reference goes, and the *)
(* queued blocks hold it weakly.                                           *)
Deallocate ==
    /\ phase = "stopped"
    /\ ~Busy
    /\ phase' = "gone"
    /\ releaseTasks' = 0
    /\ UNCHANGED <<last, lastPtr, enabled, handling, langSeq, langTask, held,
                   hostPtr, done, resynced>>
=============================================================================
