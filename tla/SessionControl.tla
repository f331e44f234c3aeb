--------------------------- MODULE SessionControl ---------------------------
(* The sessions of the host's control server: starts, reconfigurations, stops *)
(* and the operator's decisions run as tasks that release every lock while a   *)
(* backend or a transport works. A request is numbered when it begins; a        *)
(* session carries the number of the start that registered it, and so does the *)
(* source lease that lives as long as it. Handle 2r is the capture request r   *)
(* starts, 2r-1 the one it restores. One paired device with several endpoints. *)
EXTENDS Naturals, FiniteSets

CONSTANTS Endpoints,
          MaxRequests,   \* starts and reconfigurations begun
          MaxCalls,      \* stops, operator's calls, sweeps and revocations begun
          Budgets        \* how many requests, calls and faults one behaviour has

Requests == 1 .. MaxRequests
Procs == 1 .. MaxRequests + MaxCalls
Handles == 1 .. 2 * MaxRequests

VARIABLES
  entry,      \* Starts.endpoints: newest claim, registered owner, busy lease, owned transport
  active,     \* Starts.active
  phys,       \* whose transport is set up at the endpoint, 0 for none
  live,       \* SessionState.live
  fenced,     \* sessions whose source lease is invalidated
  native,     \* the backend's captures
  nativeIn,   \* captures the backend feeds with input
  pendingRet, \* pending_retirements
  retired,    \* replacement_retired: the session's old handle is already stopped
  busySess,   \* reconfiguring
  inputLock,  \* input_changes: the process that holds it, or 0
  policy,     \* stored on the device: paired, input denied
  op,         \* the tasks
  faults,
  budget,     \* the behaviour's member of Budgets
  past        \* sessions unlocked by the operator ("granted"), decided about while their start was
              \* still unlocking them ("decided"), displaced while a replacement was being
              \* published, or replaced while their start was still at work ("carried"),
              \* ended by a stopStream that could not stop the capture ("kept"); captures that
              \* kept their input when a displacement failed to take it ("retained")

vars == <<entry, active, phys, live, fenced, native, nativeIn, pendingRet, retired, busySess,
          inputLock, policy, op, faults, budget, past>>
books == <<entry, active, phys>>
captures == <<native, nativeIn, pendingRet>>
guards == <<retired, busySess, inputLock>>

FreshEntry == [newest |-> 0, reg |-> 0, busy |-> FALSE, owner |-> 0, pending |-> FALSE]
IdleOp == [kind |-> "none", pc |-> "idle", ep |-> "none", sid |-> 0, h |-> 0,
           base |-> 0, rev |-> 0, own |-> 0, set |-> {}, on |-> FALSE, old |-> FALSE, then |-> "end"]

Init ==
  /\ entry = [e \in Endpoints |-> FreshEntry]
  /\ active = {}
  /\ phys = [e \in Endpoints |-> 0]
  /\ live = <<>>
  /\ fenced = {}
  /\ native = [h \in Handles |-> "none"]
  /\ nativeIn = {}
  /\ pendingRet = {}
  /\ retired = [s \in Requests |-> 0]
  /\ busySess = {}
  /\ inputLock = 0
  /\ policy = [paired |-> TRUE, denied |-> FALSE]
  /\ op = [o \in Procs |-> IdleOp]
  /\ faults = 0
  /\ budget \in Budgets
  /\ past = {}

At(o, k, pc) == op[o].kind = k /\ op[o].pc = pc
Go(o, pc) == op' = [op EXCEPT ![o].pc = pc]
\* cleanup_owned_transport of an owner's resource, then on to another step
GoCleanup(o, owner, next) == op' = [op EXCEPT ![o].pc = "cleanup", ![o].own = owner, ![o].then = next]
Fault == faults < budget[3] /\ faults' = faults + 1
NoFault == UNCHANGED faults

LeaseCurrent(s) == policy.paired /\ s \notin fenced
\* Lifecycle::accepts
Accepting(s, rev) == /\ s \in DOMAIN live
                     /\ live[s].rev = rev /\ ~live[s].stopped /\ ~live[s].released
Usable(s) == s \in DOMAIN live /\ ~live[s].stopped /\ ~live[s].released
Drop(S) == [s \in DOMAIN live \ S |-> live[s]]

(***************************************************************************)
(* Starts: who is the newest on an endpoint, and who owns its transport.   *)
(***************************************************************************)
Prune(en, act) ==
  [e \in Endpoints |->
     IF \/ en[e].busy \/ en[e].reg # 0 \/ en[e].owner # 0
        \/ \E r \in act : en[e].newest >= r
     THEN en[e] ELSE FreshEntry]

Claims(e, o) == ~entry[e].busy /\ entry[e].newest <= o
Accepts(e, o) == ~entry[e].busy /\ entry[e].newest = o

\* begin_owned_cleanup: a held setup lease drains the request instead.
\* a slip: whoever cleans up takes the endpoint's resource, whoever owns it
OwnsAny(e, owner) == entry[e].owner # 0
Owns(e, owner) == owner # 0 /\ entry[e].owner = owner

\* a slip: a cleanup does not wait for the setup lease
NeverDeferred(e) == FALSE
Deferred(e) == entry[e].busy

Unregistered(en, e, owner) == [en EXCEPT ![e].reg = IF @ = owner THEN 0 ELSE @]

CleanupBegin(o) ==
  LET p == op[o]  e == p.ep IN
  /\ p.pc = "cleanup"
  /\ \/ /\ Owns(e, p.own) /\ ~Deferred(e)
        /\ entry' = [entry EXCEPT ![e].busy = TRUE]
        /\ Go(o, "cleaning")
     \/ /\ Owns(e, p.own) /\ Deferred(e)
        /\ entry' = Prune(Unregistered([entry EXCEPT ![e].pending = TRUE], e, p.own), active)
        /\ Go(o, p.then)
     \/ /\ ~Owns(e, p.own)
        /\ entry' = Prune(Unregistered(entry, e, p.own), active)
        /\ Go(o, p.then)
  /\ UNCHANGED <<active, phys, live, fenced, captures, guards, policy, faults>>

\* cleanup_media_transport takes down whatever is at the port
CleanupDo(o) ==
  LET p == op[o]  e == p.ep
      freed == [entry EXCEPT ![e].busy = FALSE,
                             ![e].owner = IF @ = p.own THEN 0 ELSE @, ![e].pending = FALSE] IN
  /\ p.pc = "cleaning"
  /\ phys' = [phys EXCEPT ![e] = 0]
  /\ entry' = Prune(Unregistered(freed, e, p.own), active)
  /\ Go(o, p.then)
  /\ UNCHANGED <<active, live, fenced, captures, guards, policy, faults>>

\* prepare_owned_transport, inside the setup lease
Prepare(o) ==
  LET e == op[o].ep IN
  /\ op[o].pc = "prepare"
  /\ \/ /\ entry' = [entry EXCEPT ![e].owner = o, ![e].pending = FALSE]
        /\ phys' = [phys EXCEPT ![e] = o]
        /\ op' = [op EXCEPT ![o].pc = "leave", ![o].then = "backend"]
        /\ NoFault
     \/ /\ Fault
        /\ entry' = [entry EXCEPT ![e].owner = 0, ![e].pending = FALSE]
        /\ phys' = [phys EXCEPT ![e] = 0]
        /\ op' = [op EXCEPT ![o].pc = "leave", ![o].then = "failed"]
  /\ UNCHANGED <<active, live, fenced, captures, guards, policy>>

\* StartTransportGuard::drop: deferred cleanups first, the lease last
Drains(e) == entry[e].pending
LeaveSetup(o) ==
  LET e == op[o].ep
      freed == [entry EXCEPT ![e].busy = FALSE, ![e].pending = FALSE,
                             ![e].owner = IF Drains(e) THEN 0 ELSE @] IN
  /\ op[o].pc = "leave"
  /\ phys' = [phys EXCEPT ![e] = IF Drains(e) THEN 0 ELSE @]
  /\ entry' = Prune(freed, active)
  /\ Go(o, op[o].then)
  /\ UNCHANGED <<active, live, fenced, captures, guards, policy, faults>>

(***************************************************************************)
(* Captures.                                                               *)
(***************************************************************************)
\* retire_capture: a failed stop leaves the capture to be retried
Stopped(h) == /\ native' = [native EXCEPT ![h] = "stopped"]
              /\ nativeIn' = nativeIn \ {h}
              /\ pendingRet' = pendingRet \ {h}
StopFails(h) == /\ Fault
                /\ pendingRet' = pendingRet \cup {h}
                /\ UNCHANGED <<native, nativeIn>>
\* retire_session_capture: a handle its reconfiguration has stopped is not stopped again
Retires(s, h) == IF retired[s] = h THEN UNCHANGED <<captures, faults>> ELSE Stopped(h) /\ NoFault

SetInput(h, on) == nativeIn' = IF on THEN nativeIn \cup {h} ELSE nativeIn \ {h}

\* input off, whose error is ignored, then a stop that fails
Stranded(h) == /\ Fault
               /\ nativeIn' \in {nativeIn, nativeIn \ {h}}
               /\ pendingRet' = pendingRet \cup {h}
               /\ UNCHANGED native

\* discard_backend of a capture that cannot be published
Discarded(o) == (Stopped(op[o].h) /\ NoFault) \/ Stranded(op[o].h)

GoDiscard(o, next) == op' = [op EXCEPT ![o].pc = "discard", ![o].then = next]
AfterFailure(p) == IF p.kind = "start" THEN "end" ELSE "restore"

Discard(o) ==
  /\ op[o].pc = "discard"
  /\ Discarded(o)
  /\ IF op[o].then = "input" THEN op' = [op EXCEPT ![o].pc = "input", ![o].h = 0]
                             ELSE GoCleanup(o, o, op[o].then)
  /\ UNCHANGED <<books, live, fenced, guards, policy>>

\* backend.start for a new stream, a replacement or the stream as it was
Backend(o) ==
  LET p == op[o]  h == IF p.old THEN 2 * o - 1 ELSE 2 * o IN
  /\ p.pc = "backend"
  /\ \/ /\ native' = [native EXCEPT ![h] = "running"]
        /\ op' = [op EXCEPT ![o].pc = "frame", ![o].h = h]
        /\ NoFault
     \/ /\ Fault /\ UNCHANGED native
        /\ IF p.old THEN op' = [op EXCEPT ![o].pc = "input", ![o].h = 0]
                    ELSE GoCleanup(o, o, AfterFailure(p))
  /\ UNCHANGED <<books, live, fenced, nativeIn, pendingRet, guards, policy>>

\* wait_for_first_frame
FirstFrame(o) ==
  LET p == op[o] IN
  /\ p.pc = "frame"
  /\ \/ NoFault /\ Go(o, IF p.kind = "start" THEN "policy" ELSE "input")
     \/ Fault /\ GoDiscard(o, IF p.old THEN "input" ELSE AfterFailure(p))
  /\ UNCHANGED <<books, live, fenced, captures, guards, policy>>

\* the setup failed inside the lease
SetupFailed(o) ==
  LET p == op[o] IN
  /\ p.pc = "failed"
  /\ IF p.old THEN op' = [op EXCEPT ![o].pc = "input", ![o].h = 0] ELSE Go(o, AfterFailure(p))
  /\ UNCHANGED <<books, live, fenced, captures, guards, policy, faults>>

\* the capture of a running session ends by itself
CaptureEnds(h) ==
  /\ native[h] = "running" /\ Fault
  /\ native' = [native EXCEPT ![h] = "ended"]
  /\ nativeIn' = nativeIn \ {h}
  /\ UNCHANGED <<books, live, fenced, pendingRet, guards, policy, op>>

(***************************************************************************)
(* startStream.                                                            *)
(***************************************************************************)
Begun == Cardinality({o \in Requests : op[o].pc # "idle"})

StartBegin(o, e) ==
  /\ o = Begun + 1 /\ o <= budget[1] /\ policy.paired
  /\ active' = active \cup {o}
  /\ op' = [op EXCEPT ![o].kind = "start", ![o].ep = e, ![o].pc = "claim"]
  /\ UNCHANGED <<entry, phys, live, fenced, captures, guards, policy, faults>>

\* claim, of a start or a reconfiguration
Claim(o) ==
  LET e == op[o].ep IN
  /\ op[o].pc = "claim"
  /\ IF Claims(e, o)
     THEN /\ entry' = [entry EXCEPT ![e].newest = o]
          /\ Go(o, IF op[o].kind = "start" THEN "enter" ELSE "current")
     ELSE Go(o, "end") /\ UNCHANGED entry
  /\ UNCHANGED <<active, phys, live, fenced, captures, guards, policy, faults>>

Target(s) == [sid |-> s, ep |-> live[s].ep, h |-> live[s].handle, own |-> live[s].owner,
              released |-> live[s].released]
Stale(e) == {s \in DOMAIN live : live[s].ep = e}

\* with_start_transport and stop_sessions_for_viewer
StartEnter(o) ==
  LET e == op[o].ep IN
  /\ At(o, "start", "enter")
  /\ IF Accepts(e, o)
     THEN /\ entry' = [entry EXCEPT ![e].busy = TRUE]
          /\ live' = Drop(Stale(e))
          /\ fenced' = fenced \cup Stale(e)
          /\ op' = [op EXCEPT ![o].set = {Target(s) : s \in Stale(e)}, ![o].pc = "targets"]
     ELSE Go(o, "end") /\ UNCHANGED <<entry, live, fenced>>
  /\ UNCHANGED <<active, phys, captures, guards, policy, faults>>

\* sessions taken out of the map are stopped and their transports cleaned one by one;
\* stopStream keeps the transport of a capture it could not stop
Targets(o) ==
  LET p == op[o] IN
  /\ p.pc = "targets"
  /\ \/ /\ p.set = {}
        /\ Go(o, IF p.kind = "start" THEN "prepare" ELSE "end")
        /\ UNCHANGED <<captures, faults, past>>
     \/ \E t \in p.set :
          \/ /\ IF t.released THEN UNCHANGED <<captures, faults>> ELSE Retires(t.sid, t.h)
             /\ op' = [op EXCEPT ![o].set = @ \ {t}, ![o].ep = t.ep, ![o].own = t.own,
                                 ![o].pc = "cleanup", ![o].then = "targets"]
             /\ UNCHANGED past
          \/ /\ ~t.released /\ retired[t.sid] # t.h /\ StopFails(t.h)
             /\ op' = [op EXCEPT ![o].set = @ \ {t}, ![o].ep = t.ep, ![o].own = t.own,
                                 ![o].pc = IF p.kind = "stop" THEN "end" ELSE "cleanup",
                                 ![o].then = "targets"]
             /\ past' = IF p.kind = "stop" THEN past \cup {<<"kept", t.sid>>} ELSE past
  /\ UNCHANGED <<books, live, fenced, guards, policy>>

\* the device may have been revoked while the first frame was awaited; the input policy is read
Policy(o) ==
  /\ At(o, "start", "policy")
  /\ IF policy.paired THEN op' = [op EXCEPT ![o].pc = "register", ![o].on = ~policy.denied]
                      ELSE GoDiscard(o, "end")
  /\ UNCHANGED <<books, live, fenced, captures, guards, policy, faults>>

\* a slip: the registration does not ask for the authorization again
RegistersAny(o) == Accepts(op[o].ep, o)
MayRegister(o) == LeaseCurrent(o) /\ Accepts(op[o].ep, o)
NewHandle(o) == op[o].h
NewSession(o) == [ep |-> op[o].ep, handle |-> NewHandle(o), input |-> FALSE, released |-> FALSE,
                  stopped |-> FALSE, rev |-> 0, owner |-> o]

Register(o) ==
  LET e == op[o].ep IN
  /\ At(o, "start", "register")
  /\ IF MayRegister(o)
     THEN /\ entry' = [entry EXCEPT ![e].reg = o]
          /\ live' = [s \in DOMAIN live \cup {o} |-> IF s = o THEN NewSession(o) ELSE live[s]]
          /\ Go(o, IF op[o].on THEN "enable" ELSE "end")
     ELSE GoDiscard(o, "end") /\ UNCHANGED <<entry, live>>
  /\ UNCHANGED <<active, phys, fenced, captures, guards, policy, faults>>

\* the default input policy: the backend first, then the flag; input_changes is not held
Enable(o) ==
  LET h == op[o].h IN
  /\ At(o, "start", "enable")
  /\ \/ native[h] = "running" /\ SetInput(h, TRUE) /\ Go(o, "flag") /\ NoFault
     \/ native[h] # "running" /\ Go(o, "end") /\ UNCHANGED nativeIn /\ NoFault
     \/ Fault /\ Go(o, "end") /\ UNCHANGED nativeIn
  /\ UNCHANGED <<books, live, fenced, native, pendingRet, guards, policy>>

FlagEnabled(o) ==
  /\ At(o, "start", "flag")
  /\ IF o \in DOMAIN live /\ live[o].handle = op[o].h
     THEN live' = [live EXCEPT ![o].input = TRUE] /\ Go(o, "displace")
     ELSE Go(o, "end") /\ UNCHANGED live
  /\ UNCHANGED <<books, fenced, captures, guards, policy, faults>>

\* a slip: only the sessions of the same endpoint are looked at
DisplacedHere(o) == {s \in DOMAIN live \ {o} : live[s].input /\ live[s].ep = op[o].ep}
Displaced(o) ==
  IF o \in DOMAIN live /\ live[o].handle = op[o].h /\ live[o].input /\ ~live[o].released
  THEN {s \in DOMAIN live \ {o} : live[s].input} ELSE {}

DisplacedHandles(o) == {live[s].handle : s \in Displaced(o)}

\* the last session that starts with input takes it from the others
Displace(o) ==
  /\ At(o, "start", "displace")
  /\ live' = [s \in DOMAIN live |->
                [live[s] EXCEPT !.input = @ /\ s \notin Displaced(o)]]
  /\ op' = [op EXCEPT ![o].set = DisplacedHandles(o), ![o].pc = "disable"]
  /\ past' = past \cup {<<"carried", s>> : s \in {t \in Displaced(o) :
                            \E q \in Procs : At(q, "reconfigure", "commit") /\ op[q].sid = t}}
  /\ UNCHANGED <<books, fenced, captures, guards, policy, faults>>

\* one capture after the other; a capture that cannot be disabled keeps its input, and
\* nobody hears of the error
DisableOthers(o) ==
  /\ At(o, "start", "disable")
  /\ \/ op[o].set = {} /\ Go(o, "end") /\ UNCHANGED <<nativeIn, past, faults>>
     \/ \E h \in op[o].set :
          /\ op' = [op EXCEPT ![o].set = @ \ {h}]
          /\ \/ SetInput(h, FALSE) /\ NoFault /\ UNCHANGED past
             \/ /\ h \in nativeIn /\ Fault
                /\ past' = past \cup {<<"retained", h>>}
                /\ UNCHANGED nativeIn
  /\ UNCHANGED <<books, live, fenced, native, pendingRet, guards, policy>>

(***************************************************************************)
(* reconfigure_stream and restore_previous_stream.                         *)
(***************************************************************************)
ReconfigureBegin(o, s, moved) ==
  /\ o = Begun + 1 /\ o <= budget[1]
  /\ s \notin busySess /\ Usable(s) /\ LeaseCurrent(s)
  /\ busySess' = busySess \cup {s}
  /\ active' = active \cup {o}
  /\ live' = [live EXCEPT ![s].rev = @ + 1]
  /\ op' = [op EXCEPT ![o].kind = "reconfigure", ![o].ep = live[s].ep, ![o].pc = "claim",
                      ![o].sid = s, ![o].base = live[s].handle, ![o].rev = live[s].rev + 1,
                      ![o].on = moved]
  /\ UNCHANGED <<entry, phys, fenced, captures, retired, inputLock, policy, faults>>

\* replacement_is_current
\* a slip: the authorization is not asked for again
CurrentUnauthorized(o) == Accepts(op[o].ep, o) /\ Accepting(op[o].sid, op[o].rev)
Current(o) == /\ LeaseCurrent(op[o].sid) /\ Accepts(op[o].ep, o)
              /\ Accepting(op[o].sid, op[o].rev)

\* before the old capture is touched, and again before it is restored
CheckCurrent(o) ==
  /\ op[o].kind = "reconfigure" /\ op[o].pc \in {"current", "restore"}
  /\ LET old == op[o].pc = "restore" IN
     IF Current(o) THEN op' = [op EXCEPT ![o].pc = "enter", ![o].old = old] ELSE Go(o, "end")
  /\ UNCHANGED <<books, live, fenced, captures, guards, policy, faults>>

ReconfigureEnter(o) ==
  LET p == op[o] IN
  /\ At(o, "reconfigure", "enter")
  /\ IF Accepts(p.ep, o)
     THEN /\ entry' = [entry EXCEPT ![p.ep].busy = TRUE]
          /\ Go(o, IF p.old THEN "prepare" ELSE "retire")
     ELSE /\ IF p.old THEN op' = [op EXCEPT ![o].pc = "input", ![o].h = 0] ELSE Go(o, "end")
          /\ UNCHANGED entry
  /\ UNCHANGED <<active, phys, live, fenced, captures, guards, policy, faults>>

\* under input_changes, which is free again before the transport is prepared
RetireOld(o) ==
  LET p == op[o] IN
  /\ At(o, "reconfigure", "retire") /\ inputLock = 0
  /\ \/ /\ Stopped(p.base) /\ NoFault
        /\ retired' = [retired EXCEPT ![p.sid] = p.base]
        /\ Go(o, "prepare")
     \/ /\ StopFails(p.base)
        /\ op' = [op EXCEPT ![o].pc = "leave", ![o].then = "end"]
        /\ UNCHANGED retired
  /\ UNCHANGED <<books, live, fenced, busySess, inputLock, policy>>

\* input follows the session's flag, not to another source; input_changes is held to the end
CarriesInput(o) ==
  LET p == op[o] IN
  /\ p.h # 0 /\ p.sid \in DOMAIN live /\ live[p.sid].input
  /\ p.old \/ (~p.on /\ Accepting(p.sid, p.rev))

ApplyInput(o) ==
  LET p == op[o] IN
  /\ At(o, "reconfigure", "input") /\ inputLock = 0
  /\ inputLock' = o
  /\ \/ /\ CarriesInput(o) /\ native[p.h] = "running" /\ NoFault
        /\ SetInput(p.h, TRUE)
        /\ op' = [op EXCEPT ![o].pc = "commit", ![o].on = TRUE]
     \/ /\ IF CarriesInput(o) /\ native[p.h] = "running" THEN Fault ELSE NoFault
        /\ UNCHANGED nativeIn
        /\ op' = [op EXCEPT ![o].pc = "commit", ![o].on = FALSE]
  /\ UNCHANGED <<books, live, fenced, native, pendingRet, retired, busySess, policy>>

Commit(o) ==
  LET p == op[o]  s == p.sid IN
  /\ At(o, "reconfigure", "commit")
  /\ \/ /\ Current(o) /\ p.h # 0
        /\ entry' = [entry EXCEPT ![p.ep].reg = o]
        /\ retired' = [retired EXCEPT ![s] = 0]
        /\ live' = [live EXCEPT ![s].handle = p.h, ![s].owner = o, ![s].input = p.on]
        /\ Go(o, "end")
     \/ /\ Current(o) /\ p.h = 0       \* nothing could be restored: a tombstone
        /\ live' = [live EXCEPT ![s].input = FALSE, ![s].released = TRUE, ![s].rev = @ + 1]
        /\ GoCleanup(o, o, "end")
        /\ UNCHANGED <<entry, retired>>
     \/ /\ ~Current(o)
        /\ IF p.h # 0 THEN GoDiscard(o, "end") ELSE GoCleanup(o, o, "end")
        /\ UNCHANGED <<entry, retired, live>>
  /\ past' = IF op[s].pc = "done" THEN past ELSE past \cup {<<"carried", s>>}
  /\ UNCHANGED <<active, phys, fenced, captures, busySess, inputLock, policy, faults>>

(***************************************************************************)
(* Calls that end sessions, and the operator's input decision.             *)
(***************************************************************************)
MayCall(o) == /\ o \in (MaxRequests + 1) .. (MaxRequests + budget[2]) /\ op[o].pc = "idle"
              /\ \A q \in (MaxRequests + 1) .. (o - 1) : op[q].pc # "idle"

\* stopStream
StopStream(o, s) ==
  /\ MayCall(o) /\ s \in DOMAIN live
  /\ live' = Drop({s})
  /\ fenced' = fenced \cup {s}
  /\ op' = [op EXCEPT ![o].kind = "stop", ![o].pc = "targets", ![o].set = {Target(s)}]
  /\ UNCHANGED <<books, captures, guards, policy, faults>>

\* force_stop_session publishes the tombstone first
Tombstone(o, s) ==
  /\ fenced' = fenced \cup {s}
  /\ live' = [live EXCEPT ![s].stopped = TRUE, ![s].rev = @ + 1, ![s].input = FALSE,
                          ![s].released = TRUE]
  /\ op' = [op EXCEPT ![o].kind = "force", ![o].pc = "silence", ![o].sid = s,
                      ![o].ep = live[s].ep, ![o].h = live[s].handle, ![o].own = live[s].owner]

ForceStop(o, s) ==
  /\ MayCall(o) /\ s \in DOMAIN live /\ ~live[s].released
  /\ Tombstone(o, s)
  /\ UNCHANGED <<books, captures, guards, policy, faults>>

\* input off, then the capture; when both attempts fail the tombstone can be retried
Silence(o) ==
  LET p == op[o] IN
  /\ At(o, "force", "silence")
  /\ \/ Retires(p.sid, p.h) /\ UNCHANGED live
     \/ /\ retired[p.sid] # p.h /\ Stranded(p.h)
        /\ live' = IF p.sid \in DOMAIN live /\ live[p.sid].handle = p.h
                   THEN [live EXCEPT ![p.sid].released = FALSE] ELSE live
  /\ GoCleanup(o, p.own, "end")
  /\ UNCHANGED <<books, fenced, guards, policy>>

\* the maintenance sweep of a session that stayed terminal; see SessionMaintenance
Terminal(s) == live[s].released \/ live[s].stopped \/ native[live[s].handle] # "running"
Sweep(o, s) ==
  /\ MayCall(o) /\ s \in DOMAIN live /\ s \notin busySess /\ Terminal(s)
  /\ busySess' = busySess \cup {s}
  /\ fenced' = fenced \cup {s}
  /\ op' = [op EXCEPT ![o].kind = "sweep", ![o].sid = s, ![o].ep = live[s].ep,
                      ![o].h = live[s].handle, ![o].own = live[s].owner, ![o].rev = live[s].rev,
                      ![o].pc = IF live[s].released THEN "remove" ELSE "retire"]
  /\ UNCHANGED <<books, live, captures, retired, inputLock, policy, faults>>

SweepRetire(o) ==
  LET p == op[o] IN
  /\ At(o, "sweep", "retire")
  /\ \/ Retires(p.sid, p.h) /\ Go(o, "remove")
     \/ retired[p.sid] # p.h /\ StopFails(p.h) /\ Go(o, "end")
  /\ UNCHANGED <<books, live, fenced, guards, policy>>

SweepRemove(o) ==
  LET p == op[o]  s == p.sid IN
  /\ At(o, "sweep", "remove")
  /\ IF s \in DOMAIN live /\ live[s].handle = p.h /\ live[s].rev = p.rev
     THEN live' = Drop({s}) /\ GoCleanup(o, p.own, "end")
     ELSE Go(o, "end") /\ UNCHANGED live
  /\ UNCHANGED <<books, fenced, captures, guards, policy, faults>>

\* revoke_device: the pairing first, then the sessions, one lock at a time
Revoke(o) ==
  /\ MayCall(o) /\ policy.paired
  /\ policy' = [policy EXCEPT !.paired = FALSE]
  /\ op' = [op EXCEPT ![o].kind = "revoke", ![o].pc = "collect"]
  /\ UNCHANGED <<books, live, fenced, captures, guards, faults>>

Collect(o) ==
  /\ At(o, "revoke", "collect")
  /\ op' = [op EXCEPT ![o].pc = "targets", ![o].set = {Target(s) : s \in DOMAIN live}]
  /\ fenced' = fenced \cup DOMAIN live
  /\ live' = Drop(DOMAIN live)
  /\ UNCHANGED <<books, captures, guards, policy, faults>>

\* set_session_input under input_changes: a denial is logical at once
InputCall(o, s, on) ==
  /\ MayCall(o) /\ Usable(s) /\ inputLock = 0
  /\ inputLock' = o
  /\ live' = [live EXCEPT ![s].input = @ /\ on]
  /\ op' = [op EXCEPT ![o].kind = "input", ![o].sid = s, ![o].h = live[s].handle, ![o].on = on,
                      ![o].pc = IF retired[s] = live[s].handle \/ ~LeaseCurrent(s)
                                THEN "end" ELSE "apply"]
  /\ past' = past \cup (IF op[s].pc = "done" THEN {} ELSE {<<"decided", s>>})
                  \cup (IF on THEN {<<"granted", s>>} ELSE {})
  /\ UNCHANGED <<books, fenced, captures, retired, busySess, policy, faults>>

\* a disable that fails retires the session
InputApply(o) ==
  LET p == op[o]  works == native[p.h] = "running" IN
  /\ At(o, "input", "apply")
  /\ \/ /\ works /\ NoFault
        /\ SetInput(p.h, p.on)
        /\ Go(o, "store")
        /\ UNCHANGED <<live, fenced>>
     \/ /\ IF works THEN Fault ELSE NoFault
        /\ UNCHANGED nativeIn
        /\ IF ~p.on /\ p.sid \in DOMAIN live /\ ~live[p.sid].released
           THEN Tombstone(o, p.sid)
           ELSE /\ fenced' = IF p.on THEN fenced ELSE fenced \cup {p.sid}
                /\ Go(o, "end") /\ UNCHANGED live
  /\ UNCHANGED <<books, native, pendingRet, guards, policy>>

\* the flag, and the device's standing approval
InputStore(o) ==
  LET p == op[o]  s == p.sid IN
  /\ At(o, "input", "store")
  /\ IF Usable(s) /\ live[s].handle = p.h /\ LeaseCurrent(s)
     THEN /\ live' = [live EXCEPT ![s].input = p.on]
          /\ policy' = [policy EXCEPT !.denied = ~p.on]
     ELSE UNCHANGED <<live, policy>>
  /\ Go(o, "end")
  /\ UNCHANGED <<books, fenced, captures, guards, faults>>

(***************************************************************************)
(* The guards a task drops when it returns.                                *)
(***************************************************************************)
End(o) ==
  LET p == op[o]  guarded == p.kind \in {"reconfigure", "sweep"} IN
  /\ p.pc = "end"
  /\ active' = active \ {o}
  /\ entry' = Prune(entry, active \ {o})
  /\ busySess' = IF guarded THEN busySess \ {p.sid} ELSE busySess
  /\ retired' = IF guarded THEN [retired EXCEPT ![p.sid] = 0] ELSE retired
  /\ inputLock' = IF inputLock = o THEN 0 ELSE inputLock
  /\ op' = [op EXCEPT ![o] = [IdleOp EXCEPT !.pc = "done", !.kind = p.kind]]
  /\ UNCHANGED <<phys, live, fenced, captures, policy, faults>>

Steps(o) == \/ CleanupBegin(o) \/ CleanupDo(o) \/ Prepare(o) \/ LeaveSetup(o) \/ Discard(o)
            \/ Backend(o) \/ FirstFrame(o) \/ SetupFailed(o) \/ Claim(o) \/ StartEnter(o)
            \/ Policy(o) \/ Register(o) \/ Enable(o) \/ FlagEnabled(o)
            \/ CheckCurrent(o) \/ ReconfigureEnter(o)
            \/ RetireOld(o) \/ ApplyInput(o) \/ Silence(o) \/ SweepRetire(o)
            \/ SweepRemove(o) \/ Collect(o) \/ InputApply(o) \/ InputStore(o) \/ End(o)
Step(o) == (Steps(o) /\ UNCHANGED past) \/ Targets(o) \/ Displace(o) \/ DisableOthers(o) \/ Commit(o)

Begins ==
  \/ \E o \in Requests, e \in Endpoints : StartBegin(o, e)
  \/ \E o \in Requests, s \in DOMAIN live, moved \in BOOLEAN : ReconfigureBegin(o, s, moved)
  \/ \E o \in Procs \ Requests, s \in DOMAIN live : StopStream(o, s) \/ ForceStop(o, s) \/ Sweep(o, s)
  \/ \E o \in Procs \ Requests : Revoke(o)
  \/ \E h \in Handles : CaptureEnds(h)

Next ==
  /\ \/ \E o \in Procs : Step(o)
     \/ Begins /\ UNCHANGED past
     \/ \E o \in Procs \ Requests, s \in DOMAIN live, on \in BOOLEAN : InputCall(o, s, on)
  /\ UNCHANGED budget

Spec == Init /\ [][Next]_vars

(***************************************************************************)
(* Properties.                                                             *)
(***************************************************************************)
Quiet == \A o \in Procs : op[o].pc \in {"idle", "done"}

\* State types of the module.
TypeOK ==
  /\ entry \in [Endpoints -> [newest : 0 .. MaxRequests, reg : 0 .. MaxRequests, busy : BOOLEAN,
                              owner : 0 .. MaxRequests, pending : BOOLEAN]]
  /\ active \subseteq Requests /\ phys \in [Endpoints -> 0 .. MaxRequests]
  /\ DOMAIN live \subseteq Requests
  /\ \A s \in DOMAIN live : /\ live[s].ep \in Endpoints /\ live[s].handle \in Handles
                            /\ live[s].owner \in Requests
                            /\ {live[s].input, live[s].released, live[s].stopped} \subseteq BOOLEAN
  /\ fenced \subseteq Requests /\ native \in [Handles -> {"none", "running", "ended", "stopped"}]
  /\ nativeIn \subseteq Handles /\ pendingRet \subseteq Handles
  /\ retired \in [Requests -> 0 .. 2 * MaxRequests] /\ busySess \subseteq Requests
  /\ inputLock \in 0 .. MaxRequests + MaxCalls

\* An endpoint never has two sessions, tombstones included: two captures pushed
\* into one viewer endpoint would interleave (control.rs:2556).
OneSessionPerEndpoint ==
  \A s, t \in DOMAIN live : live[s].ep = live[t].ep => s = t

\* What Starts says an endpoint owns is what is set up there, unless a task is
\* at work on it: a delayed teardown cannot take its successor's transport down.
BooksMatchTransports == \A e \in Endpoints : ~entry[e].busy => phys[e] = entry[e].owner

\* A session that streams when everything has settled has the transport its
\* owner prepared.
SessionKeepsTransport ==
  Quiet => \A s \in DOMAIN live : Usable(s) /\ native[live[s].handle] = "running" /\ pendingRet = {}
                                    => phys[live[s].ep] = live[s].owner

\* When everything has settled, a running capture belongs to a session, or is
\* one whose stop failed and is recorded as such.
NoOrphanCapture ==
  Quiet => \A h \in Handles : native[h] = "running" /\ h \notin pendingRet
             => \E s \in DOMAIN live : live[s].handle = h /\ ~live[s].released

\* A capture takes input only for a session the host reports as unlocked, once
\* everything has settled (control.rs:2332, 3399, 1958), but for an operator's decision that
\* overlaps the default unlock of the start that made the session, and for a displaced
\* capture whose disabling failed (control.rs:3462).
InputIsReportedApart ==
  Quiet => \A h \in nativeIn \ pendingRet :
             \E s \in DOMAIN live : /\ live[s].handle = h
                                   /\ \/ live[s].input
                                      \/ <<"decided", s>> \in past
                                      \/ <<"retained", h>> \in past

\* The last session that starts with input has it alone (control.rs:3439), but for sessions
\* the operator unlocked, for a replacement whose publication crossed the displacement, and
\* for a stopped session whose capture could be neither disabled nor stopped.
LastSessionWinsApart ==
  Quiet => Cardinality({s \in DOMAIN live : /\ live[s].input /\ live[s].handle \in nativeIn
                                            /\ ~(live[s].stopped /\ live[s].handle \in pendingRet)
                                            /\ <<"granted", s>> \notin past
                                            /\ <<"carried", s>> \notin past}) <= 1

\* After a revocation has returned nothing of the device streams, except a
\* capture whose stop failed.
RevokedStreamsNothing ==
  Quiet /\ ~policy.paired => DOMAIN live = {} /\ \A h \in Handles : native[h] = "running" => h \in pendingRet

\* A stopped or superseded session is never brought back: the lease it was
\* registered under stays invalid and no step publishes a capture for it.
NoRevival ==
  [][\A s \in DOMAIN live' :
       live'[s].handle # 0 /\ (s \notin DOMAIN live \/ live'[s].handle # live[s].handle)
         => s \notin fenced /\ policy.paired]_vars

\* A task leaves nothing behind: when all have returned no lease, guard or lock
\* is held, and Starts remembers only endpoints with a session (session_lifecycle.rs:48),
\* unless a stopStream could not stop its capture and kept the transport.
NothingLeft ==
  Quiet => /\ active = {} /\ busySess = {} /\ inputLock = 0
           /\ \A s \in Requests : retired[s] = 0
           /\ \A e \in Endpoints :
                entry[e] # FreshEntry => \/ \E s \in DOMAIN live : live[s].ep = e
                                         \/ \E s \in Requests : <<"kept", s>> \in past

\* What an endpoint, its transport, its session and its capture are to one another.
SessionsAreWhole ==
  /\ TypeOK /\ OneSessionPerEndpoint /\ BooksMatchTransports /\ SessionKeepsTransport
  /\ NoOrphanCapture /\ NothingLeft
\* Who takes input, and who is told so.
InputIsAccounted == InputIsReportedApart /\ LastSessionWinsApart
=============================================================================
