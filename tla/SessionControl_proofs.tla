------------------------ MODULE SessionControl_proofs ------------------------
(***************************************************************************)
(* Theorems about SessionControl, for any number of requests, calls and    *)
(* faults and every set of endpoints.                                      *)
(***************************************************************************)
EXTENDS SessionControl, FiniteSetTheorems, TLAPS

TargetRec == [sid : Requests, ep : Endpoints, h : Handles, own : Requests, released : BOOLEAN]
Session == [ep : Endpoints, handle : Handles, input : BOOLEAN, released : BOOLEAN,
            stopped : BOOLEAN, rev : Nat, owner : Requests]
Entry == [newest : 0..MaxRequests, reg : 0..MaxRequests, busy : BOOLEAN,
          owner : 0..MaxRequests, pending : BOOLEAN]
(* The sets the fields of a task range over. *)
Numbers == 0..MaxRequests
HandleNumbers == 0..2 * MaxRequests
Places == Endpoints \cup {"none"}
Collections == SUBSET (TargetRec \cup Handles)
Kinds == {"none", "start", "reconfigure", "stop", "force", "sweep", "revoke", "input"}
Pcs == {"idle", "done", "claim", "enter", "targets", "cleanup", "cleaning", "prepare", "leave", "failed",
        "backend", "frame", "policy", "register", "enable", "flag", "displace", "disable", "discard",
        "current", "retire", "input", "commit", "restore", "collect", "silence", "remove", "apply",
        "store", "end"}
OpRec == [kind : Kinds, pc : Pcs, ep : Places, sid : Numbers, h : HandleNumbers,
          base : HandleNumbers, rev : Nat, own : Numbers, set : Collections, on : BOOLEAN,
          old : BOOLEAN, then : Pcs]

(* The tasks, by what they are and how far they have come. *)
Calls == {"stop", "force", "sweep", "revoke", "input"}
AtRest == {"idle", "done"}
Running(p) == p.pc \notin AtRest
StartPcs == {"claim", "enter", "targets", "cleanup", "cleaning", "prepare", "leave", "failed", "backend",
             "frame", "policy", "register", "enable", "flag", "displace", "disable", "discard", "end"}
ReconfigurePcs == {"claim", "current", "enter", "retire", "prepare", "leave", "failed", "backend", "frame",
                   "input", "commit", "restore", "discard", "cleanup", "cleaning", "end"}

(* At work on the sessions it took out of the map. *)
InTargets(p) == p.pc = "targets" \/ (p.pc \in {"cleanup", "cleaning"} /\ p.then = "targets")
OwnHandle(o, p) == IF p.old THEN 2 * o - 1 ELSE 2 * o

StartShape(o, p) ==
  /\ p.pc \in StartPcs /\ p.ep \in Endpoints /\ ~p.old
  /\ p.pc \in {"frame", "policy", "register", "enable", "flag", "displace", "disable", "discard"} => p.h = 2 * o
  /\ p.pc = "leave" => p.then \in {"backend", "failed"}
  /\ p.pc = "discard" => p.then = "end"
  /\ p.pc \in {"cleanup", "cleaning"} => p.then \in {"end", "targets"} /\ (p.then = "end" => p.own = o)
  /\ InTargets(p) => p.set \subseteq {t \in TargetRec : t.ep = p.ep}
  /\ p.pc = "disable" => p.set \subseteq Handles

ReconfigureShape(o, p) ==
  /\ p.pc \in ReconfigurePcs /\ p.ep \in Endpoints /\ p.sid \in Requests /\ p.base \in Handles
  /\ p.pc \in {"claim", "current", "retire", "restore"} => ~p.old
  /\ p.pc \in {"frame", "discard"} => p.h = OwnHandle(o, p)
  /\ p.pc \in {"input", "commit"} => p.h \in {0, OwnHandle(o, p)}
  /\ p.pc = "leave" => p.then \in {"backend", "failed", "end"}
  /\ p.pc = "discard" => p.then \in {"input", "restore", "end"}
                         /\ (p.then = "input" => p.old) /\ (p.then = "restore" => ~p.old)
  /\ p.pc \in {"cleanup", "cleaning"} => p.own = o /\ p.then \in {"end", "restore"}
                                         /\ (p.then = "restore" => ~p.old)

CallShape(p) ==
  /\ InTargets(p) => p.set \subseteq TargetRec
  /\ p.kind \in {"stop", "revoke"} =>
       /\ p.pc \in {"collect", "targets", "cleanup", "cleaning", "end"}
       /\ p.pc \in {"cleanup", "cleaning"} => p.then = "targets"
  /\ p.pc = "collect" => p.kind = "revoke"
  /\ p.pc \in {"cleanup", "cleaning"} => p.ep \in Endpoints /\ p.own \in Requests
  /\ p.kind = "force" => p.pc \in {"silence", "cleanup", "cleaning", "end"}
  /\ p.kind = "sweep" => p.pc \in {"retire", "remove", "cleanup", "cleaning", "end"}
  /\ p.kind = "input" => p.pc \in {"apply", "store", "end"}
  /\ p.kind \in {"force", "sweep", "input"} =>
       /\ p.sid \in Requests /\ p.h \in Handles
       /\ p.pc \in {"cleanup", "cleaning"} => p.then = "end"
  /\ p.kind \in {"force", "sweep"} => p.ep \in Endpoints /\ p.own \in Requests

Shape(o, p) ==
  /\ p.kind = "none" <=> p.pc = "idle"
  /\ p.pc \in AtRest => p.own = 0 /\ ~p.old
  /\ o \in Requests => p.kind \in {"none", "start", "reconfigure"}
  /\ o \notin Requests => p.kind \in {"none"} \cup Calls
  /\ Running(p) /\ p.kind = "start" => StartShape(o, p)
  /\ Running(p) /\ p.kind = "reconfigure" => ReconfigureShape(o, p)
  /\ Running(p) /\ p.kind \in Calls => CallShape(p)

DataInv ==
  /\ MaxRequests \in Nat /\ MaxCalls \in Nat
  /\ entry \in [Endpoints -> Entry]
  /\ active \subseteq Requests
  /\ phys \in [Endpoints -> 0..MaxRequests]
  /\ DOMAIN live \subseteq Requests /\ live \in [DOMAIN live -> Session]
  /\ fenced \subseteq Requests
  /\ native \in [Handles -> {"none", "running", "ended", "stopped"}]
  /\ nativeIn \subseteq Handles /\ pendingRet \subseteq Handles
  /\ retired \in [Requests -> 0..2 * MaxRequests]
  /\ busySess \subseteq Requests
  /\ inputLock \in 0..MaxRequests + MaxCalls
  /\ policy \in [paired : BOOLEAN, denied : BOOLEAN]

(* Requests are numbered in the order in which they begin. *)
TasksInv ==
  /\ op \in [Procs -> OpRec]
  /\ \A o \in Procs : Shape(o, op[o])
  /\ \E n \in 0..MaxRequests : \A o \in Requests : op[o].pc # "idle" <=> o <= n

TypeInv == DataInv /\ TasksInv

-----------------------------------------------------------------------------
(* A task takes a step, and no other task does. *)
Acts(o) ==
  /\ Running(op[o])
  /\ op' \in [Procs -> OpRec]
  /\ \A q \in Procs \ {o} : op'[q] = op[q]
  /\ op'[o].pc # "idle"
  /\ Shape(o, op'[o])

(* Requests are tasks. *)
LEMMA RequestsAreProcs == ASSUME DataInv PROVE Requests \subseteq Procs
      BY DEF DataInv, Requests, Procs

(* A step of one task leaves every task well formed. *)
LEMMA ActsKeepsTasks ==
  ASSUME DataInv, TasksInv, NEW o \in Procs, Acts(o)
  PROVE  TasksInv'
<1>1. \A q \in Procs : Shape(q, op'[q])
      BY DEF TasksInv, Acts
<1>2. PICK n \in 0..MaxRequests : \A q \in Requests : op[q].pc # "idle" <=> q <= n
      BY DEF TasksInv
<1>3. \A q \in Requests : op'[q].pc # "idle" <=> q <= n
  <2>1. ASSUME NEW q \in Requests PROVE op'[q].pc # "idle" <=> q <= n
    <3>1. CASE q = o
          BY <1>2, <3>1 DEF Acts, Running, AtRest
    <3>2. CASE q # o
      <4>1. CASE q \in Procs
            BY <1>2, <3>2, <4>1 DEF Acts
      <4>2. CASE q \notin Procs
            BY <4>2, RequestsAreProcs
      <4> QED BY <4>1, <4>2
    <3> QED BY <3>1, <3>2
  <2> QED BY <2>1
<1> QED BY <1>1, <1>3 DEF TasksInv, Acts

(***************************************************************************)
(* The types.                                                              *)
(***************************************************************************)

(* Forgetting unused endpoints keeps the books well typed (session_lifecycle.rs: Starts::prune). *)
LEMMA PruneIsTyped ==
  ASSUME DataInv, NEW en \in [Endpoints -> Entry], NEW act \in SUBSET Requests
  PROVE  Prune(en, act) \in [Endpoints -> Entry]
<1>1. FreshEntry \in Entry
      BY DEF DataInv, FreshEntry, Entry
<1> QED BY <1>1 DEF Prune

(* A change of an endpoint's entry keeps the books well typed. *)
LEMMA EntryTypes ==
  ASSUME DataInv, NEW en \in [Endpoints -> Entry], NEW e \in Endpoints, NEW k \in 0..MaxRequests,
         NEW b \in BOOLEAN, NEW c \in BOOLEAN
  PROVE  /\ [en EXCEPT ![e].busy = b] \in [Endpoints -> Entry]
         /\ [en EXCEPT ![e].pending = b] \in [Endpoints -> Entry]
         /\ [en EXCEPT ![e].newest = k] \in [Endpoints -> Entry]
         /\ [en EXCEPT ![e].reg = k] \in [Endpoints -> Entry]
         /\ [en EXCEPT ![e].owner = k, ![e].pending = b] \in [Endpoints -> Entry]
         /\ [en EXCEPT ![e].busy = b, ![e].pending = c, ![e].owner = k] \in [Endpoints -> Entry]
         /\ [en EXCEPT ![e].busy = b, ![e].owner = k, ![e].pending = c] \in [Endpoints -> Entry]
BY ZenonT(30) DEF Entry

(* The names of the steps. *)
LEMMA PcNames == /\ {"idle", "done", "claim", "enter", "targets", "cleanup", "cleaning", "prepare"} \subseteq Pcs
                 /\ {"leave", "failed", "backend", "frame", "policy", "register", "enable", "flag"} \subseteq Pcs
                 /\ {"displace", "disable", "discard", "current", "retire", "input", "commit"} \subseteq Pcs
                 /\ {"restore", "collect", "silence", "remove", "apply", "store", "end"} \subseteq Pcs
      BY DEF Pcs

(* A task with some of its fields changed is a task. *)
LEMMA PcTyped == ASSUME NEW p \in OpRec, NEW pc \in Pcs
  PROVE [p EXCEPT !.pc = pc] \in OpRec
      BY DEF OpRec
(* A task with these fields changed is a task. *)
LEMMA PcThenTyped == ASSUME NEW p \in OpRec, NEW pc \in Pcs, NEW x \in Pcs
  PROVE [p EXCEPT !.pc = pc, !.then = x] \in OpRec
      BY DEF OpRec
(* A task with these fields changed is a task. *)
LEMMA PcHandleTyped == ASSUME NEW p \in OpRec, NEW pc \in Pcs, NEW h \in HandleNumbers
  PROVE [p EXCEPT !.pc = pc, !.h = h] \in OpRec
      BY DEF OpRec
(* A task with these fields changed is a task. *)
LEMMA CleanupTyped == ASSUME NEW p \in OpRec, NEW pc \in Pcs, NEW k \in Numbers, NEW x \in Pcs
  PROVE [p EXCEPT !.pc = pc, !.own = k, !.then = x] \in OpRec
      BY DEF OpRec
(* A task with these fields changed is a task. *)
LEMMA PcOldTyped == ASSUME NEW p \in OpRec, NEW pc \in Pcs, NEW b \in BOOLEAN
  PROVE [p EXCEPT !.pc = pc, !.old = b] \in OpRec
      BY DEF OpRec
(* A task with these fields changed is a task. *)
LEMMA PcOnTyped == ASSUME NEW p \in OpRec, NEW pc \in Pcs, NEW b \in BOOLEAN
  PROVE [p EXCEPT !.pc = pc, !.on = b] \in OpRec
      BY DEF OpRec
(* A task with these fields changed is a task. *)
LEMMA SetPcTyped == ASSUME NEW p \in OpRec, NEW S \in Collections, NEW pc \in Pcs
  PROVE [p EXCEPT !.set = S, !.pc = pc] \in OpRec
      BY DEF OpRec
(* A task with these fields changed is a task. *)
LEMMA PcSetTyped == ASSUME NEW p \in OpRec, NEW S \in Collections, NEW pc \in Pcs
  PROVE [p EXCEPT !.pc = pc, !.set = S] \in OpRec
      BY DEF OpRec
(* A task with these fields changed is a task. *)
LEMMA TargetTyped == ASSUME NEW p \in OpRec, NEW S \in Collections, NEW e \in Places, NEW k \in Numbers, NEW pc \in Pcs, NEW x \in Pcs
  PROVE [p EXCEPT !.set = S, !.ep = e, !.own = k, !.pc = pc, !.then = x] \in OpRec
      BY DEF OpRec

(* A task whose record is replaced by a well formed one takes a step. *)
LEMMA Acting ==
  ASSUME TasksInv, NEW o \in Procs, Running(op[o]), NEW r \in OpRec, r.pc # "idle", Shape(o, r),
         op' = [op EXCEPT ![o] = r]
  PROVE  Acts(o)
  BY DEF TasksInv, Acts

(* The captures a request may start are captures. *)
LEMMA OwnHandles ==
  ASSUME DataInv, NEW o \in Requests, NEW p
  PROVE  OwnHandle(o, p) \in Handles /\ OwnHandle(o, p) \in HandleNumbers /\ 2 * o \in Handles
  BY DEF DataInv, Requests, Handles, OwnHandle, HandleNumbers

(* CleanupBegin is a step of one task that leaves it well formed. *)
LEMMA CleanupBeginActs ==
  ASSUME TypeInv, NEW o \in Procs, CleanupBegin(o)
  PROVE  Acts(o)
<1>p. PICK p : p = op[o]
      OBVIOUS
<1>t. /\ p \in OpRec /\ Shape(o, p) /\ op \in [Procs -> OpRec] /\ TasksInv /\ DataInv
      /\ MaxRequests \in Nat /\ MaxCalls \in Nat
      BY <1>p DEF TypeInv, TasksInv, DataInv
<1>u. p \in OpRec /\ p.then \in Pcs
      BY <1>t DEF OpRec

<1>1. CASE /\ p.pc = "cleanup"
           /\ op' = [op EXCEPT ![o].pc = "cleaning"]
  <2>1. PICK r : r = [p EXCEPT !.pc = "cleaning"]
        OBVIOUS
  <2>2. r \in OpRec
        BY <1>u, <1>1, <2>1, PcTyped, PcNames
  <2>3. Shape(o, r) /\ r.pc # "idle" /\ Running(p)
        BY <1>t, <2>1, <2>2, <1>1 DEF OpRec, Shape, Running, AtRest, StartShape, ReconfigureShape, CallShape, Calls,
         InTargets, StartPcs, ReconfigurePcs, OwnHandle, AfterFailure
  <2> QED BY <1>p, <1>t, <1>1, <2>1, <2>2, <2>3, Acting
<1>2. CASE /\ p.pc = "cleanup"
           /\ op' = [op EXCEPT ![o].pc = p.then]
  <2>1. PICK r : r = [p EXCEPT !.pc = p.then]
        OBVIOUS
  <2>2. r \in OpRec
        BY <1>u, <1>2, <2>1, PcTyped, PcNames
  <2>3. Shape(o, r) /\ r.pc # "idle" /\ Running(p)
        BY <1>t, <2>1, <2>2, <1>2 DEF OpRec, Shape, Running, AtRest, StartShape, ReconfigureShape, CallShape, Calls,
         InTargets, StartPcs, ReconfigurePcs, OwnHandle, AfterFailure
  <2> QED BY <1>p, <1>t, <1>2, <2>1, <2>2, <2>3, Acting
<1> QED BY <1>p, <1>1, <1>2 DEF CleanupBegin, Go

(* CleanupDo is a step of one task that leaves it well formed. *)
LEMMA CleanupDoActs ==
  ASSUME TypeInv, NEW o \in Procs, CleanupDo(o)
  PROVE  Acts(o)
<1>p. PICK p : p = op[o]
      OBVIOUS
<1>t. /\ p \in OpRec /\ Shape(o, p) /\ op \in [Procs -> OpRec] /\ TasksInv /\ DataInv
      /\ MaxRequests \in Nat /\ MaxCalls \in Nat
      BY <1>p DEF TypeInv, TasksInv, DataInv
<1>u. p \in OpRec /\ p.then \in Pcs
      BY <1>t DEF OpRec

<1>1. CASE /\ p.pc = "cleaning"
           /\ op' = [op EXCEPT ![o].pc = p.then]
  <2>1. PICK r : r = [p EXCEPT !.pc = p.then]
        OBVIOUS
  <2>2. r \in OpRec
        BY <1>u, <1>1, <2>1, PcTyped, PcNames
  <2>3. Shape(o, r) /\ r.pc # "idle" /\ Running(p)
        BY <1>t, <2>1, <2>2, <1>1 DEF OpRec, Shape, Running, AtRest, StartShape, ReconfigureShape, CallShape, Calls,
         InTargets, StartPcs, ReconfigurePcs, OwnHandle, AfterFailure
  <2> QED BY <1>p, <1>t, <1>1, <2>1, <2>2, <2>3, Acting
<1> QED BY <1>p, <1>1 DEF CleanupDo, Go

(* Prepare is a step of one task that leaves it well formed. *)
LEMMA PrepareActs ==
  ASSUME TypeInv, NEW o \in Procs, Prepare(o)
  PROVE  Acts(o)
<1>p. PICK p : p = op[o]
      OBVIOUS
<1>t. /\ p \in OpRec /\ Shape(o, p) /\ op \in [Procs -> OpRec] /\ TasksInv /\ DataInv
      /\ MaxRequests \in Nat /\ MaxCalls \in Nat
      BY <1>p DEF TypeInv, TasksInv, DataInv
<1>u. p \in OpRec /\ p.then \in Pcs
      BY <1>t DEF OpRec

<1>1. CASE /\ p.pc = "prepare"
           /\ op' = [op EXCEPT ![o].pc = "leave", ![o].then = "backend"]
  <2>1. PICK r : r = [p EXCEPT !.pc = "leave", !.then = "backend"]
        OBVIOUS
  <2>2. r \in OpRec
        BY <1>u, <1>1, <2>1, PcThenTyped, PcNames
  <2>3. Shape(o, r) /\ r.pc # "idle" /\ Running(p)
        BY <1>t, <2>1, <2>2, <1>1 DEF OpRec, Shape, Running, AtRest, StartShape, ReconfigureShape, CallShape, Calls,
         InTargets, StartPcs, ReconfigurePcs, OwnHandle, AfterFailure
  <2> QED BY <1>p, <1>t, <1>1, <2>1, <2>2, <2>3, Acting
<1>2. CASE /\ p.pc = "prepare"
           /\ op' = [op EXCEPT ![o].pc = "leave", ![o].then = "failed"]
  <2>1. PICK r : r = [p EXCEPT !.pc = "leave", !.then = "failed"]
        OBVIOUS
  <2>2. r \in OpRec
        BY <1>u, <1>2, <2>1, PcThenTyped, PcNames
  <2>3. Shape(o, r) /\ r.pc # "idle" /\ Running(p)
        BY <1>t, <2>1, <2>2, <1>2 DEF OpRec, Shape, Running, AtRest, StartShape, ReconfigureShape, CallShape, Calls,
         InTargets, StartPcs, ReconfigurePcs, OwnHandle, AfterFailure
  <2> QED BY <1>p, <1>t, <1>2, <2>1, <2>2, <2>3, Acting
<1> QED BY <1>p, <1>1, <1>2 DEF Prepare

(* LeaveSetup is a step of one task that leaves it well formed. *)
LEMMA LeaveSetupActs ==
  ASSUME TypeInv, NEW o \in Procs, LeaveSetup(o)
  PROVE  Acts(o)
<1>p. PICK p : p = op[o]
      OBVIOUS
<1>t. /\ p \in OpRec /\ Shape(o, p) /\ op \in [Procs -> OpRec] /\ TasksInv /\ DataInv
      /\ MaxRequests \in Nat /\ MaxCalls \in Nat
      BY <1>p DEF TypeInv, TasksInv, DataInv
<1>u. p \in OpRec /\ p.then \in Pcs
      BY <1>t DEF OpRec

<1>1. CASE /\ p.pc = "leave"
           /\ op' = [op EXCEPT ![o].pc = p.then]
  <2>1. PICK r : r = [p EXCEPT !.pc = p.then]
        OBVIOUS
  <2>2. r \in OpRec
        BY <1>u, <1>1, <2>1, PcTyped, PcNames
  <2>3. Shape(o, r) /\ r.pc # "idle" /\ Running(p)
        BY <1>t, <2>1, <2>2, <1>1 DEF OpRec, Shape, Running, AtRest, StartShape, ReconfigureShape, CallShape, Calls,
         InTargets, StartPcs, ReconfigurePcs, OwnHandle, AfterFailure
  <2> QED BY <1>p, <1>t, <1>1, <2>1, <2>2, <2>3, Acting
<1> QED BY <1>p, <1>1 DEF LeaveSetup, Go

(* Discard is a step of one task that leaves it well formed. *)
LEMMA DiscardActs ==
  ASSUME TypeInv, NEW o \in Procs, Discard(o)
  PROVE  Acts(o)
<1>p. PICK p : p = op[o]
      OBVIOUS
<1>t. /\ p \in OpRec /\ Shape(o, p) /\ op \in [Procs -> OpRec] /\ TasksInv /\ DataInv
      /\ MaxRequests \in Nat /\ MaxCalls \in Nat
      BY <1>p DEF TypeInv, TasksInv, DataInv
<1>u. p \in OpRec /\ p.then \in Pcs
      BY <1>t DEF OpRec
<1>o. p.pc \in {"discard"} => o \in Requests /\ o \in Numbers /\ p.kind \in {"start", "reconfigure"} /\ 0 \in HandleNumbers
      BY <1>t DEF Shape, Running, AtRest, Calls, CallShape, Requests, InTargets, Numbers, HandleNumbers
<1>h. o \in Requests => OwnHandle(o, p) \in HandleNumbers
      BY <1>t, OwnHandles
<1>1. CASE /\ p.pc = "discard" /\ p.then = "input"
           /\ op' = [op EXCEPT ![o].pc = "input", ![o].h = 0]
  <2>1. PICK r : r = [p EXCEPT !.pc = "input", !.h = 0]
        OBVIOUS
  <2>2. r \in OpRec
        BY <1>u, <1>1, <2>1, PcHandleTyped, PcNames, <1>o
  <2>3. Shape(o, r) /\ r.pc # "idle" /\ Running(p)
        BY <1>t, <2>1, <2>2, <1>1, <1>o DEF OpRec, Shape, Running, AtRest, StartShape, ReconfigureShape, CallShape, Calls,
         InTargets, StartPcs, ReconfigurePcs, OwnHandle, AfterFailure
  <2> QED BY <1>p, <1>t, <1>1, <2>1, <2>2, <2>3, Acting
<1>2. CASE /\ p.pc = "discard" /\ p.then # "input"
           /\ op' = [op EXCEPT ![o].pc = "cleanup", ![o].own = o, ![o].then = p.then]
  <2>1. PICK r : r = [p EXCEPT !.pc = "cleanup", !.own = o, !.then = p.then]
        OBVIOUS
  <2>2. r \in OpRec
        BY <1>u, <1>2, <2>1, CleanupTyped, PcNames, <1>o
  <2>3. Shape(o, r) /\ r.pc # "idle" /\ Running(p)
        BY <1>t, <2>1, <2>2, <1>2, <1>o DEF OpRec, Shape, Running, AtRest, StartShape, ReconfigureShape, CallShape, Calls,
         InTargets, StartPcs, ReconfigurePcs, OwnHandle, AfterFailure
  <2> QED BY <1>p, <1>t, <1>2, <2>1, <2>2, <2>3, Acting
<1> QED BY <1>p, <1>1, <1>2 DEF Discard, GoCleanup

(* Backend is a step of one task that leaves it well formed. *)
LEMMA BackendActs ==
  ASSUME TypeInv, NEW o \in Procs, Backend(o)
  PROVE  Acts(o)
<1>p. PICK p : p = op[o]
      OBVIOUS
<1>t. /\ p \in OpRec /\ Shape(o, p) /\ op \in [Procs -> OpRec] /\ TasksInv /\ DataInv
      /\ MaxRequests \in Nat /\ MaxCalls \in Nat
      BY <1>p DEF TypeInv, TasksInv, DataInv
<1>u. p \in OpRec /\ p.then \in Pcs
      BY <1>t DEF OpRec
<1>o. p.pc \in {"backend"} => o \in Requests /\ o \in Numbers /\ p.kind \in {"start", "reconfigure"} /\ 0 \in HandleNumbers
      BY <1>t DEF Shape, Running, AtRest, Calls, CallShape, Requests, InTargets, Numbers, HandleNumbers
<1>h. o \in Requests => OwnHandle(o, p) \in HandleNumbers
      BY <1>t, OwnHandles
<1>1. CASE /\ p.pc = "backend"
           /\ op' = [op EXCEPT ![o].pc = "frame", ![o].h = OwnHandle(o, p)]
  <2>1. PICK r : r = [p EXCEPT !.pc = "frame", !.h = OwnHandle(o, p)]
        OBVIOUS
  <2>2. r \in OpRec
        BY <1>u, <1>1, <2>1, PcHandleTyped, PcNames, <1>o, <1>h
  <2>3. Shape(o, r) /\ r.pc # "idle" /\ Running(p)
        BY <1>t, <2>1, <2>2, <1>1, <1>o, <1>h DEF OpRec, Shape, Running, AtRest, StartShape, ReconfigureShape, CallShape, Calls,
         InTargets, StartPcs, ReconfigurePcs, OwnHandle, AfterFailure
  <2> QED BY <1>p, <1>t, <1>1, <2>1, <2>2, <2>3, Acting
<1>2. CASE /\ p.pc = "backend" /\ p.old
           /\ op' = [op EXCEPT ![o].pc = "input", ![o].h = 0]
  <2>1. PICK r : r = [p EXCEPT !.pc = "input", !.h = 0]
        OBVIOUS
  <2>2. r \in OpRec
        BY <1>u, <1>2, <2>1, PcHandleTyped, PcNames, <1>o
  <2>3. Shape(o, r) /\ r.pc # "idle" /\ Running(p)
        BY <1>t, <2>1, <2>2, <1>2, <1>o DEF OpRec, Shape, Running, AtRest, StartShape, ReconfigureShape, CallShape, Calls,
         InTargets, StartPcs, ReconfigurePcs, OwnHandle, AfterFailure
  <2> QED BY <1>p, <1>t, <1>2, <2>1, <2>2, <2>3, Acting
<1>3. CASE /\ p.pc = "backend" /\ ~p.old
           /\ op' = [op EXCEPT ![o].pc = "cleanup", ![o].own = o, ![o].then = AfterFailure(p)]
  <2>1. PICK r : r = [p EXCEPT !.pc = "cleanup", !.own = o, !.then = AfterFailure(p)]
        OBVIOUS
  <2>2. r \in OpRec
        BY <1>u, <1>3, <2>1, CleanupTyped, PcNames, <1>o DEF AfterFailure
  <2>3. Shape(o, r) /\ r.pc # "idle" /\ Running(p)
        BY <1>t, <2>1, <2>2, <1>3, <1>o DEF OpRec, Shape, Running, AtRest, StartShape, ReconfigureShape, CallShape, Calls,
         InTargets, StartPcs, ReconfigurePcs, OwnHandle, AfterFailure, AfterFailure
  <2> QED BY <1>p, <1>t, <1>3, <2>1, <2>2, <2>3, Acting
<1> QED BY <1>p, <1>1, <1>2, <1>3 DEF Backend, GoCleanup, OwnHandle

(* FirstFrame is a step of one task that leaves it well formed. *)
LEMMA FirstFrameActs ==
  ASSUME TypeInv, NEW o \in Procs, FirstFrame(o)
  PROVE  Acts(o)
<1>p. PICK p : p = op[o]
      OBVIOUS
<1>t. /\ p \in OpRec /\ Shape(o, p) /\ op \in [Procs -> OpRec] /\ TasksInv /\ DataInv
      /\ MaxRequests \in Nat /\ MaxCalls \in Nat
      BY <1>p DEF TypeInv, TasksInv, DataInv
<1>u. p \in OpRec /\ p.then \in Pcs
      BY <1>t DEF OpRec
<1>o. p.pc \in {"frame"} => o \in Requests /\ o \in Numbers /\ p.kind \in {"start", "reconfigure"} /\ 0 \in HandleNumbers
      BY <1>t DEF Shape, Running, AtRest, Calls, CallShape, Requests, InTargets, Numbers, HandleNumbers
<1>h. o \in Requests => OwnHandle(o, p) \in HandleNumbers
      BY <1>t, OwnHandles
<1>1. CASE /\ p.pc = "frame"
           /\ op' = [op EXCEPT ![o].pc = IF p.kind = "start" THEN "policy" ELSE "input"]
  <2>1. PICK r : r = [p EXCEPT !.pc = IF p.kind = "start" THEN "policy" ELSE "input"]
        OBVIOUS
  <2>2. r \in OpRec
        BY <1>u, <1>1, <2>1, PcTyped, PcNames, <1>o
  <2>3. Shape(o, r) /\ r.pc # "idle" /\ Running(p)
        BY <1>t, <2>1, <2>2, <1>1, <1>o DEF OpRec, Shape, Running, AtRest, StartShape, ReconfigureShape, CallShape, Calls,
         InTargets, StartPcs, ReconfigurePcs, OwnHandle, AfterFailure
  <2> QED BY <1>p, <1>t, <1>1, <2>1, <2>2, <2>3, Acting
<1>2. CASE /\ p.pc = "frame"
           /\ op' = [op EXCEPT ![o].pc = "discard", ![o].then = IF p.old THEN "input" ELSE AfterFailure(p)]
  <2>1. PICK r : r = [p EXCEPT !.pc = "discard", !.then = IF p.old THEN "input" ELSE AfterFailure(p)]
        OBVIOUS
  <2>2. r \in OpRec
        BY <1>u, <1>2, <2>1, PcThenTyped, PcNames, <1>o DEF AfterFailure
  <2>3. Shape(o, r) /\ r.pc # "idle" /\ Running(p)
        BY <1>t, <2>1, <2>2, <1>2, <1>o DEF OpRec, Shape, Running, AtRest, StartShape, ReconfigureShape, CallShape, Calls,
         InTargets, StartPcs, ReconfigurePcs, OwnHandle, AfterFailure, AfterFailure
  <2> QED BY <1>p, <1>t, <1>2, <2>1, <2>2, <2>3, Acting
<1> QED BY <1>p, <1>1, <1>2 DEF FirstFrame, Go, GoDiscard

(* SetupFailed is a step of one task that leaves it well formed. *)
LEMMA SetupFailedActs ==
  ASSUME TypeInv, NEW o \in Procs, SetupFailed(o)
  PROVE  Acts(o)
<1>p. PICK p : p = op[o]
      OBVIOUS
<1>t. /\ p \in OpRec /\ Shape(o, p) /\ op \in [Procs -> OpRec] /\ TasksInv /\ DataInv
      /\ MaxRequests \in Nat /\ MaxCalls \in Nat
      BY <1>p DEF TypeInv, TasksInv, DataInv
<1>u. p \in OpRec /\ p.then \in Pcs
      BY <1>t DEF OpRec
<1>o. p.pc \in {"failed"} => o \in Requests /\ o \in Numbers /\ p.kind \in {"start", "reconfigure"} /\ 0 \in HandleNumbers
      BY <1>t DEF Shape, Running, AtRest, Calls, CallShape, Requests, InTargets, Numbers, HandleNumbers
<1>h. o \in Requests => OwnHandle(o, p) \in HandleNumbers
      BY <1>t, OwnHandles
<1>1. CASE /\ p.pc = "failed" /\ p.old
           /\ op' = [op EXCEPT ![o].pc = "input", ![o].h = 0]
  <2>1. PICK r : r = [p EXCEPT !.pc = "input", !.h = 0]
        OBVIOUS
  <2>2. r \in OpRec
        BY <1>u, <1>1, <2>1, PcHandleTyped, PcNames, <1>o
  <2>3. Shape(o, r) /\ r.pc # "idle" /\ Running(p)
        BY <1>t, <2>1, <2>2, <1>1, <1>o DEF OpRec, Shape, Running, AtRest, StartShape, ReconfigureShape, CallShape, Calls,
         InTargets, StartPcs, ReconfigurePcs, OwnHandle, AfterFailure
  <2> QED BY <1>p, <1>t, <1>1, <2>1, <2>2, <2>3, Acting
<1>2. CASE /\ p.pc = "failed" /\ ~p.old
           /\ op' = [op EXCEPT ![o].pc = AfterFailure(p)]
  <2>1. PICK r : r = [p EXCEPT !.pc = AfterFailure(p)]
        OBVIOUS
  <2>2. r \in OpRec
        BY <1>u, <1>2, <2>1, PcTyped, PcNames, <1>o DEF AfterFailure
  <2>3. Shape(o, r) /\ r.pc # "idle" /\ Running(p)
        BY <1>t, <2>1, <2>2, <1>2, <1>o DEF OpRec, Shape, Running, AtRest, StartShape, ReconfigureShape, CallShape, Calls,
         InTargets, StartPcs, ReconfigurePcs, OwnHandle, AfterFailure, AfterFailure
  <2> QED BY <1>p, <1>t, <1>2, <2>1, <2>2, <2>3, Acting
<1> QED BY <1>p, <1>1, <1>2 DEF SetupFailed, Go

(* Claim is a step of one task that leaves it well formed. *)
LEMMA ClaimActs ==
  ASSUME TypeInv, NEW o \in Procs, Claim(o)
  PROVE  Acts(o)
<1>p. PICK p : p = op[o]
      OBVIOUS
<1>t. /\ p \in OpRec /\ Shape(o, p) /\ op \in [Procs -> OpRec] /\ TasksInv /\ DataInv
      /\ MaxRequests \in Nat /\ MaxCalls \in Nat
      BY <1>p DEF TypeInv, TasksInv, DataInv
<1>u. p \in OpRec /\ p.then \in Pcs
      BY <1>t DEF OpRec
<1>o. p.pc \in {"claim"} => o \in Requests /\ o \in Numbers /\ p.kind \in {"start", "reconfigure"} /\ 0 \in HandleNumbers
      BY <1>t DEF Shape, Running, AtRest, Calls, CallShape, Requests, InTargets, Numbers, HandleNumbers
<1>h. o \in Requests => OwnHandle(o, p) \in HandleNumbers
      BY <1>t, OwnHandles
<1>1. CASE /\ p.pc = "claim"
           /\ op' = [op EXCEPT ![o].pc = IF p.kind = "start" THEN "enter" ELSE "current"]
  <2>1. PICK r : r = [p EXCEPT !.pc = IF p.kind = "start" THEN "enter" ELSE "current"]
        OBVIOUS
  <2>2. r \in OpRec
        BY <1>u, <1>1, <2>1, PcTyped, PcNames, <1>o
  <2>3. Shape(o, r) /\ r.pc # "idle" /\ Running(p)
        BY <1>t, <2>1, <2>2, <1>1, <1>o DEF OpRec, Shape, Running, AtRest, StartShape, ReconfigureShape, CallShape, Calls,
         InTargets, StartPcs, ReconfigurePcs, OwnHandle, AfterFailure
  <2> QED BY <1>p, <1>t, <1>1, <2>1, <2>2, <2>3, Acting
<1>2. CASE /\ p.pc = "claim"
           /\ op' = [op EXCEPT ![o].pc = "end"]
  <2>1. PICK r : r = [p EXCEPT !.pc = "end"]
        OBVIOUS
  <2>2. r \in OpRec
        BY <1>u, <1>2, <2>1, PcTyped, PcNames, <1>o
  <2>3. Shape(o, r) /\ r.pc # "idle" /\ Running(p)
        BY <1>t, <2>1, <2>2, <1>2, <1>o DEF OpRec, Shape, Running, AtRest, StartShape, ReconfigureShape, CallShape, Calls,
         InTargets, StartPcs, ReconfigurePcs, OwnHandle, AfterFailure
  <2> QED BY <1>p, <1>t, <1>2, <2>1, <2>2, <2>3, Acting
<1> QED BY <1>p, <1>1, <1>2 DEF Claim, Go

(* What is taken out of the map of the sessions is well typed. *)
LEMMA TargetTypes ==
  ASSUME DataInv, NEW s \in DOMAIN live
  PROVE  /\ Target(s) \in TargetRec /\ Target(s).sid = s /\ Target(s).ep = live[s].ep
         /\ Target(s).h = live[s].handle /\ Target(s).own = live[s].owner
         /\ Target(s).released = live[s].released
<1>1. live[s] \in Session /\ s \in Requests
      BY DEF DataInv
<1>2. Target(s) \in TargetRec
      BY <1>1 DEF Target, TargetRec, Session
<1> QED BY <1>2 DEF Target

(* StartEnter is a step of one task that leaves it well formed. *)
LEMMA StartEnterActs ==
  ASSUME TypeInv, NEW o \in Procs, StartEnter(o)
  PROVE  Acts(o)
<1>p. PICK p : p = op[o]
      OBVIOUS
<1>t. /\ p \in OpRec /\ Shape(o, p) /\ op \in [Procs -> OpRec] /\ TasksInv /\ DataInv
      /\ MaxRequests \in Nat /\ MaxCalls \in Nat
      BY <1>p DEF TypeInv, TasksInv, DataInv
<1>u. p \in OpRec /\ p.then \in Pcs
      BY <1>t DEF OpRec
<1>s. {Target(s) : s \in Stale(p.ep)} \subseteq {t \in TargetRec : t.ep = p.ep}
      BY <1>t, TargetTypes DEF Stale
<1>1. CASE /\ p.pc = "enter" /\ p.kind = "start"
           /\ op' = [op EXCEPT ![o].set = {Target(s) : s \in Stale(p.ep)}, ![o].pc = "targets"]
  <2>1. PICK r : r = [p EXCEPT !.set = {Target(s) : s \in Stale(p.ep)}, !.pc = "targets"]
        OBVIOUS
  <2>2. r \in OpRec
        BY <1>u, <1>1, <2>1, SetPcTyped, PcNames, <1>s DEF Collections
  <2>3. Shape(o, r) /\ r.pc # "idle" /\ Running(p)
        BY <1>t, <2>1, <2>2, <1>1, <1>s DEF OpRec, Shape, Running, AtRest, StartShape, ReconfigureShape, CallShape, Calls,
         InTargets, StartPcs, ReconfigurePcs, OwnHandle, AfterFailure, Collections
  <2> QED BY <1>p, <1>t, <1>1, <2>1, <2>2, <2>3, Acting
<1>2. CASE /\ p.pc = "enter" /\ p.kind = "start"
           /\ op' = [op EXCEPT ![o].pc = "end"]
  <2>1. PICK r : r = [p EXCEPT !.pc = "end"]
        OBVIOUS
  <2>2. r \in OpRec
        BY <1>u, <1>2, <2>1, PcTyped, PcNames
  <2>3. Shape(o, r) /\ r.pc # "idle" /\ Running(p)
        BY <1>t, <2>1, <2>2, <1>2 DEF OpRec, Shape, Running, AtRest, StartShape, ReconfigureShape, CallShape, Calls,
         InTargets, StartPcs, ReconfigurePcs, OwnHandle, AfterFailure
  <2> QED BY <1>p, <1>t, <1>2, <2>1, <2>2, <2>3, Acting
<1> QED BY <1>p, <1>1, <1>2 DEF StartEnter, Go, At

(* Policy is a step of one task that leaves it well formed. *)
LEMMA PolicyActs ==
  ASSUME TypeInv, NEW o \in Procs, Policy(o)
  PROVE  Acts(o)
<1>p. PICK p : p = op[o]
      OBVIOUS
<1>t. /\ p \in OpRec /\ Shape(o, p) /\ op \in [Procs -> OpRec] /\ TasksInv /\ DataInv
      /\ MaxRequests \in Nat /\ MaxCalls \in Nat
      BY <1>p DEF TypeInv, TasksInv, DataInv
<1>u. p \in OpRec /\ p.then \in Pcs
      BY <1>t DEF OpRec
<1>b. (~policy.denied) \in BOOLEAN
      OBVIOUS
<1>1. CASE /\ p.pc = "policy" /\ p.kind = "start"
           /\ op' = [op EXCEPT ![o].pc = "register", ![o].on = ~policy.denied]
  <2>1. PICK r : r = [p EXCEPT !.pc = "register", !.on = ~policy.denied]
        OBVIOUS
  <2>2. r \in OpRec
        BY <1>u, <1>1, <2>1, PcOnTyped, PcNames
  <2>3. Shape(o, r) /\ r.pc # "idle" /\ Running(p)
        BY <1>t, <2>1, <2>2, <1>1 DEF OpRec, Shape, Running, AtRest, StartShape, ReconfigureShape, CallShape, Calls,
         InTargets, StartPcs, ReconfigurePcs, OwnHandle, AfterFailure
  <2> QED BY <1>p, <1>t, <1>1, <2>1, <2>2, <2>3, Acting
<1>2. CASE /\ p.pc = "policy" /\ p.kind = "start"
           /\ op' = [op EXCEPT ![o].pc = "discard", ![o].then = "end"]
  <2>1. PICK r : r = [p EXCEPT !.pc = "discard", !.then = "end"]
        OBVIOUS
  <2>2. r \in OpRec
        BY <1>u, <1>2, <2>1, PcThenTyped, PcNames
  <2>3. Shape(o, r) /\ r.pc # "idle" /\ Running(p)
        BY <1>t, <2>1, <2>2, <1>2 DEF OpRec, Shape, Running, AtRest, StartShape, ReconfigureShape, CallShape, Calls,
         InTargets, StartPcs, ReconfigurePcs, OwnHandle, AfterFailure
  <2> QED BY <1>p, <1>t, <1>2, <2>1, <2>2, <2>3, Acting
<1> QED BY <1>p, <1>1, <1>2 DEF Policy, GoDiscard, At

(* Register is a step of one task that leaves it well formed. *)
LEMMA RegisterActs ==
  ASSUME TypeInv, NEW o \in Procs, Register(o)
  PROVE  Acts(o)
<1>p. PICK p : p = op[o]
      OBVIOUS
<1>t. /\ p \in OpRec /\ Shape(o, p) /\ op \in [Procs -> OpRec] /\ TasksInv /\ DataInv
      /\ MaxRequests \in Nat /\ MaxCalls \in Nat
      BY <1>p DEF TypeInv, TasksInv, DataInv
<1>u. p \in OpRec /\ p.then \in Pcs
      BY <1>t DEF OpRec

<1>1. CASE /\ p.pc = "register" /\ p.kind = "start"
           /\ op' = [op EXCEPT ![o].pc = IF p.on THEN "enable" ELSE "end"]
  <2>1. PICK r : r = [p EXCEPT !.pc = IF p.on THEN "enable" ELSE "end"]
        OBVIOUS
  <2>2. r \in OpRec
        BY <1>u, <1>1, <2>1, PcTyped, PcNames
  <2>3. Shape(o, r) /\ r.pc # "idle" /\ Running(p)
        BY <1>t, <2>1, <2>2, <1>1 DEF OpRec, Shape, Running, AtRest, StartShape, ReconfigureShape, CallShape, Calls,
         InTargets, StartPcs, ReconfigurePcs, OwnHandle, AfterFailure
  <2> QED BY <1>p, <1>t, <1>1, <2>1, <2>2, <2>3, Acting
<1>2. CASE /\ p.pc = "register" /\ p.kind = "start"
           /\ op' = [op EXCEPT ![o].pc = "discard", ![o].then = "end"]
  <2>1. PICK r : r = [p EXCEPT !.pc = "discard", !.then = "end"]
        OBVIOUS
  <2>2. r \in OpRec
        BY <1>u, <1>2, <2>1, PcThenTyped, PcNames
  <2>3. Shape(o, r) /\ r.pc # "idle" /\ Running(p)
        BY <1>t, <2>1, <2>2, <1>2 DEF OpRec, Shape, Running, AtRest, StartShape, ReconfigureShape, CallShape, Calls,
         InTargets, StartPcs, ReconfigurePcs, OwnHandle, AfterFailure
  <2> QED BY <1>p, <1>t, <1>2, <2>1, <2>2, <2>3, Acting
<1> QED BY <1>p, <1>1, <1>2 DEF Register, Go, GoDiscard, At

(* Enable is a step of one task that leaves it well formed. *)
LEMMA EnableActs ==
  ASSUME TypeInv, NEW o \in Procs, Enable(o)
  PROVE  Acts(o)
<1>p. PICK p : p = op[o]
      OBVIOUS
<1>t. /\ p \in OpRec /\ Shape(o, p) /\ op \in [Procs -> OpRec] /\ TasksInv /\ DataInv
      /\ MaxRequests \in Nat /\ MaxCalls \in Nat
      BY <1>p DEF TypeInv, TasksInv, DataInv
<1>u. p \in OpRec /\ p.then \in Pcs
      BY <1>t DEF OpRec

<1>1. CASE /\ p.pc = "enable" /\ p.kind = "start"
           /\ op' = [op EXCEPT ![o].pc = "flag"]
  <2>1. PICK r : r = [p EXCEPT !.pc = "flag"]
        OBVIOUS
  <2>2. r \in OpRec
        BY <1>u, <1>1, <2>1, PcTyped, PcNames
  <2>3. Shape(o, r) /\ r.pc # "idle" /\ Running(p)
        BY <1>t, <2>1, <2>2, <1>1 DEF OpRec, Shape, Running, AtRest, StartShape, ReconfigureShape, CallShape, Calls,
         InTargets, StartPcs, ReconfigurePcs, OwnHandle, AfterFailure
  <2> QED BY <1>p, <1>t, <1>1, <2>1, <2>2, <2>3, Acting
<1>2. CASE /\ p.pc = "enable" /\ p.kind = "start"
           /\ op' = [op EXCEPT ![o].pc = "end"]
  <2>1. PICK r : r = [p EXCEPT !.pc = "end"]
        OBVIOUS
  <2>2. r \in OpRec
        BY <1>u, <1>2, <2>1, PcTyped, PcNames
  <2>3. Shape(o, r) /\ r.pc # "idle" /\ Running(p)
        BY <1>t, <2>1, <2>2, <1>2 DEF OpRec, Shape, Running, AtRest, StartShape, ReconfigureShape, CallShape, Calls,
         InTargets, StartPcs, ReconfigurePcs, OwnHandle, AfterFailure
  <2> QED BY <1>p, <1>t, <1>2, <2>1, <2>2, <2>3, Acting
<1> QED BY <1>p, <1>1, <1>2 DEF Enable, Go, At

(* FlagEnabled is a step of one task that leaves it well formed. *)
LEMMA FlagEnabledActs ==
  ASSUME TypeInv, NEW o \in Procs, FlagEnabled(o)
  PROVE  Acts(o)
<1>p. PICK p : p = op[o]
      OBVIOUS
<1>t. /\ p \in OpRec /\ Shape(o, p) /\ op \in [Procs -> OpRec] /\ TasksInv /\ DataInv
      /\ MaxRequests \in Nat /\ MaxCalls \in Nat
      BY <1>p DEF TypeInv, TasksInv, DataInv
<1>u. p \in OpRec /\ p.then \in Pcs
      BY <1>t DEF OpRec

<1>1. CASE /\ p.pc = "flag" /\ p.kind = "start"
           /\ op' = [op EXCEPT ![o].pc = "displace"]
  <2>1. PICK r : r = [p EXCEPT !.pc = "displace"]
        OBVIOUS
  <2>2. r \in OpRec
        BY <1>u, <1>1, <2>1, PcTyped, PcNames
  <2>3. Shape(o, r) /\ r.pc # "idle" /\ Running(p)
        BY <1>t, <2>1, <2>2, <1>1 DEF OpRec, Shape, Running, AtRest, StartShape, ReconfigureShape, CallShape, Calls,
         InTargets, StartPcs, ReconfigurePcs, OwnHandle, AfterFailure
  <2> QED BY <1>p, <1>t, <1>1, <2>1, <2>2, <2>3, Acting
<1>2. CASE /\ p.pc = "flag" /\ p.kind = "start"
           /\ op' = [op EXCEPT ![o].pc = "end"]
  <2>1. PICK r : r = [p EXCEPT !.pc = "end"]
        OBVIOUS
  <2>2. r \in OpRec
        BY <1>u, <1>2, <2>1, PcTyped, PcNames
  <2>3. Shape(o, r) /\ r.pc # "idle" /\ Running(p)
        BY <1>t, <2>1, <2>2, <1>2 DEF OpRec, Shape, Running, AtRest, StartShape, ReconfigureShape, CallShape, Calls,
         InTargets, StartPcs, ReconfigurePcs, OwnHandle, AfterFailure
  <2> QED BY <1>p, <1>t, <1>2, <2>1, <2>2, <2>3, Acting
<1> QED BY <1>p, <1>1, <1>2 DEF FlagEnabled, Go, At

(* Displace is a step of one task that leaves it well formed. *)
LEMMA DisplaceActs ==
  ASSUME TypeInv, NEW o \in Procs, Displace(o)
  PROVE  Acts(o)
<1>p. PICK p : p = op[o]
      OBVIOUS
<1>t. /\ p \in OpRec /\ Shape(o, p) /\ op \in [Procs -> OpRec] /\ TasksInv /\ DataInv
      /\ MaxRequests \in Nat /\ MaxCalls \in Nat
      BY <1>p DEF TypeInv, TasksInv, DataInv
<1>u. p \in OpRec /\ p.then \in Pcs
      BY <1>t DEF OpRec
<1>s. DisplacedHandles(o) \subseteq Handles
      BY <1>t DEF DisplacedHandles, Displaced, DataInv, Session
<1>1. CASE /\ p.pc = "displace" /\ p.kind = "start"
           /\ op' = [op EXCEPT ![o].set = DisplacedHandles(o), ![o].pc = "disable"]
  <2>1. PICK r : r = [p EXCEPT !.set = DisplacedHandles(o), !.pc = "disable"]
        OBVIOUS
  <2>2. r \in OpRec
        BY <1>u, <1>1, <2>1, SetPcTyped, PcNames, <1>s DEF Collections
  <2>3. Shape(o, r) /\ r.pc # "idle" /\ Running(p)
        BY <1>t, <2>1, <2>2, <1>1, <1>s DEF OpRec, Shape, Running, AtRest, StartShape, ReconfigureShape, CallShape, Calls,
         InTargets, StartPcs, ReconfigurePcs, OwnHandle, AfterFailure, Collections
  <2> QED BY <1>p, <1>t, <1>1, <2>1, <2>2, <2>3, Acting
<1> QED BY <1>p, <1>1 DEF Displace, At

(* DisableOthers is a step of one task that leaves it well formed. *)
LEMMA DisableOthersActs ==
  ASSUME TypeInv, NEW o \in Procs, DisableOthers(o)
  PROVE  Acts(o)
<1>p. PICK p : p = op[o]
      OBVIOUS
<1>t. /\ p \in OpRec /\ Shape(o, p) /\ op \in [Procs -> OpRec] /\ TasksInv /\ DataInv
      /\ MaxRequests \in Nat /\ MaxCalls \in Nat
      BY <1>p DEF TypeInv, TasksInv, DataInv
<1>u. p \in OpRec /\ p.then \in Pcs
      BY <1>t DEF OpRec

<1>1. CASE /\ p.pc = "disable" /\ p.kind = "start"
           /\ op' = [op EXCEPT ![o].pc = "end"]
  <2>1. PICK r : r = [p EXCEPT !.pc = "end"]
        OBVIOUS
  <2>2. r \in OpRec
        BY <1>u, <1>1, <2>1, PcTyped, PcNames
  <2>3. Shape(o, r) /\ r.pc # "idle" /\ Running(p)
        BY <1>t, <2>1, <2>2, <1>1 DEF OpRec, Shape, Running, AtRest, StartShape, ReconfigureShape, CallShape, Calls,
         InTargets, StartPcs, ReconfigurePcs, OwnHandle, AfterFailure
  <2> QED BY <1>p, <1>t, <1>1, <2>1, <2>2, <2>3, Acting
<1>2. ASSUME p.pc = "disable", p.kind = "start", NEW h \in p.set, op' = [op EXCEPT ![o].set = @ \ {h}]
      PROVE  Acts(o)
  <2>1. PICK r : r = [p EXCEPT !.set = p.set \ {h}]
        OBVIOUS
  <2>0. PICK z \in Collections : z = p.set \ {h}
        BY <1>t DEF OpRec, Collections
  <2>9. r = [p EXCEPT !.set = z]
        BY <2>0, <2>1
  <2>2. r \in OpRec /\ r.set = p.set \ {h} /\ r.kind = "start" /\ r.pc = "disable" /\ r.h = p.h
        BY <1>u, <1>2, <2>0, <2>9 DEF OpRec
  <2>5. r.ep = p.ep /\ r.old = p.old
        BY <1>u, <2>9 DEF OpRec
  <2>3. Shape(o, r) /\ r.pc # "idle" /\ Running(p)
        BY <1>t, <2>2, <2>5, <1>2 DEF Shape, Running, AtRest, StartShape, Calls, InTargets, StartPcs
  <2>4. op' = [op EXCEPT ![o] = r]
        BY <1>p, <1>t, <1>2, <2>1
  <2> QED BY <1>p, <1>t, <1>2, <2>2, <2>3, <2>4, Acting
<1> QED BY <1>p, <1>1, <1>2 DEF DisableOthers, Go, At

(* CheckCurrent is a step of one task that leaves it well formed. *)
LEMMA CheckCurrentActs ==
  ASSUME TypeInv, NEW o \in Procs, CheckCurrent(o)
  PROVE  Acts(o)
<1>p. PICK p : p = op[o]
      OBVIOUS
<1>t. /\ p \in OpRec /\ Shape(o, p) /\ op \in [Procs -> OpRec] /\ TasksInv /\ DataInv
      /\ MaxRequests \in Nat /\ MaxCalls \in Nat
      BY <1>p DEF TypeInv, TasksInv, DataInv
<1>u. p \in OpRec /\ p.then \in Pcs
      BY <1>t DEF OpRec

<1>1. CASE /\ p.pc \in {"current", "restore"} /\ p.kind = "reconfigure"
           /\ op' = [op EXCEPT ![o].pc = "enter", ![o].old = (p.pc = "restore")]
  <2>1. PICK r : r = [p EXCEPT !.pc = "enter", !.old = (p.pc = "restore")]
        OBVIOUS
  <2>2. r \in OpRec
        BY <1>u, <1>1, <2>1, PcOldTyped, PcNames
  <2>3. Shape(o, r) /\ r.pc # "idle" /\ Running(p)
        BY <1>t, <2>1, <2>2, <1>1 DEF OpRec, Shape, Running, AtRest, StartShape, ReconfigureShape, CallShape, Calls,
         InTargets, StartPcs, ReconfigurePcs, OwnHandle, AfterFailure
  <2> QED BY <1>p, <1>t, <1>1, <2>1, <2>2, <2>3, Acting
<1>2. CASE /\ p.pc \in {"current", "restore"} /\ p.kind = "reconfigure"
           /\ op' = [op EXCEPT ![o].pc = "end"]
  <2>1. PICK r : r = [p EXCEPT !.pc = "end"]
        OBVIOUS
  <2>2. r \in OpRec
        BY <1>u, <1>2, <2>1, PcTyped, PcNames
  <2>3. Shape(o, r) /\ r.pc # "idle" /\ Running(p)
        BY <1>t, <2>1, <2>2, <1>2 DEF OpRec, Shape, Running, AtRest, StartShape, ReconfigureShape, CallShape, Calls,
         InTargets, StartPcs, ReconfigurePcs, OwnHandle, AfterFailure
  <2> QED BY <1>p, <1>t, <1>2, <2>1, <2>2, <2>3, Acting
<1> QED BY <1>p, <1>1, <1>2 DEF CheckCurrent, Go

(* ReconfigureEnter is a step of one task that leaves it well formed. *)
LEMMA ReconfigureEnterActs ==
  ASSUME TypeInv, NEW o \in Procs, ReconfigureEnter(o)
  PROVE  Acts(o)
<1>p. PICK p : p = op[o]
      OBVIOUS
<1>t. /\ p \in OpRec /\ Shape(o, p) /\ op \in [Procs -> OpRec] /\ TasksInv /\ DataInv
      /\ MaxRequests \in Nat /\ MaxCalls \in Nat
      BY <1>p DEF TypeInv, TasksInv, DataInv
<1>u. p \in OpRec /\ p.then \in Pcs
      BY <1>t DEF OpRec
<1>o. p.pc \in {"enter"} => o \in Requests /\ o \in Numbers /\ p.kind \in {"start", "reconfigure"} /\ 0 \in HandleNumbers
      BY <1>t DEF Shape, Running, AtRest, Calls, CallShape, Requests, InTargets, Numbers, HandleNumbers
<1>h. o \in Requests => OwnHandle(o, p) \in HandleNumbers
      BY <1>t, OwnHandles
<1>1. CASE /\ p.pc = "enter" /\ p.kind = "reconfigure"
           /\ op' = [op EXCEPT ![o].pc = IF p.old THEN "prepare" ELSE "retire"]
  <2>1. PICK r : r = [p EXCEPT !.pc = IF p.old THEN "prepare" ELSE "retire"]
        OBVIOUS
  <2>2. r \in OpRec
        BY <1>u, <1>1, <2>1, PcTyped, PcNames
  <2>3. Shape(o, r) /\ r.pc # "idle" /\ Running(p)
        BY <1>t, <2>1, <2>2, <1>1 DEF OpRec, Shape, Running, AtRest, StartShape, ReconfigureShape, CallShape, Calls,
         InTargets, StartPcs, ReconfigurePcs, OwnHandle, AfterFailure
  <2> QED BY <1>p, <1>t, <1>1, <2>1, <2>2, <2>3, Acting
<1>2. CASE /\ p.pc = "enter" /\ p.kind = "reconfigure" /\ p.old
           /\ op' = [op EXCEPT ![o].pc = "input", ![o].h = 0]
  <2>1. PICK r : r = [p EXCEPT !.pc = "input", !.h = 0]
        OBVIOUS
  <2>2. r \in OpRec
        BY <1>u, <1>2, <2>1, PcHandleTyped, PcNames, <1>o
  <2>3. Shape(o, r) /\ r.pc # "idle" /\ Running(p)
        BY <1>t, <2>1, <2>2, <1>2, <1>o DEF OpRec, Shape, Running, AtRest, StartShape, ReconfigureShape, CallShape, Calls,
         InTargets, StartPcs, ReconfigurePcs, OwnHandle, AfterFailure
  <2> QED BY <1>p, <1>t, <1>2, <2>1, <2>2, <2>3, Acting
<1>3. CASE /\ p.pc = "enter" /\ p.kind = "reconfigure"
           /\ op' = [op EXCEPT ![o].pc = "end"]
  <2>1. PICK r : r = [p EXCEPT !.pc = "end"]
        OBVIOUS
  <2>2. r \in OpRec
        BY <1>u, <1>3, <2>1, PcTyped, PcNames
  <2>3. Shape(o, r) /\ r.pc # "idle" /\ Running(p)
        BY <1>t, <2>1, <2>2, <1>3 DEF OpRec, Shape, Running, AtRest, StartShape, ReconfigureShape, CallShape, Calls,
         InTargets, StartPcs, ReconfigurePcs, OwnHandle, AfterFailure
  <2> QED BY <1>p, <1>t, <1>3, <2>1, <2>2, <2>3, Acting
<1> QED BY <1>p, <1>1, <1>2, <1>3 DEF ReconfigureEnter, Go, At

(* RetireOld is a step of one task that leaves it well formed. *)
LEMMA RetireOldActs ==
  ASSUME TypeInv, NEW o \in Procs, RetireOld(o)
  PROVE  Acts(o)
<1>p. PICK p : p = op[o]
      OBVIOUS
<1>t. /\ p \in OpRec /\ Shape(o, p) /\ op \in [Procs -> OpRec] /\ TasksInv /\ DataInv
      /\ MaxRequests \in Nat /\ MaxCalls \in Nat
      BY <1>p DEF TypeInv, TasksInv, DataInv
<1>u. p \in OpRec /\ p.then \in Pcs
      BY <1>t DEF OpRec

<1>1. CASE /\ p.pc = "retire" /\ p.kind = "reconfigure"
           /\ op' = [op EXCEPT ![o].pc = "prepare"]
  <2>1. PICK r : r = [p EXCEPT !.pc = "prepare"]
        OBVIOUS
  <2>2. r \in OpRec
        BY <1>u, <1>1, <2>1, PcTyped, PcNames
  <2>3. Shape(o, r) /\ r.pc # "idle" /\ Running(p)
        BY <1>t, <2>1, <2>2, <1>1 DEF OpRec, Shape, Running, AtRest, StartShape, ReconfigureShape, CallShape, Calls,
         InTargets, StartPcs, ReconfigurePcs, OwnHandle, AfterFailure
  <2> QED BY <1>p, <1>t, <1>1, <2>1, <2>2, <2>3, Acting
<1>2. CASE /\ p.pc = "retire" /\ p.kind = "reconfigure"
           /\ op' = [op EXCEPT ![o].pc = "leave", ![o].then = "end"]
  <2>1. PICK r : r = [p EXCEPT !.pc = "leave", !.then = "end"]
        OBVIOUS
  <2>2. r \in OpRec
        BY <1>u, <1>2, <2>1, PcThenTyped, PcNames
  <2>3. Shape(o, r) /\ r.pc # "idle" /\ Running(p)
        BY <1>t, <2>1, <2>2, <1>2 DEF OpRec, Shape, Running, AtRest, StartShape, ReconfigureShape, CallShape, Calls,
         InTargets, StartPcs, ReconfigurePcs, OwnHandle, AfterFailure
  <2> QED BY <1>p, <1>t, <1>2, <2>1, <2>2, <2>3, Acting
<1> QED BY <1>p, <1>1, <1>2 DEF RetireOld, Go, At

(* ApplyInput is a step of one task that leaves it well formed. *)
LEMMA ApplyInputActs ==
  ASSUME TypeInv, NEW o \in Procs, ApplyInput(o)
  PROVE  Acts(o)
<1>p. PICK p : p = op[o]
      OBVIOUS
<1>t. /\ p \in OpRec /\ Shape(o, p) /\ op \in [Procs -> OpRec] /\ TasksInv /\ DataInv
      /\ MaxRequests \in Nat /\ MaxCalls \in Nat
      BY <1>p DEF TypeInv, TasksInv, DataInv
<1>u. p \in OpRec /\ p.then \in Pcs
      BY <1>t DEF OpRec

<1>1. CASE /\ p.pc = "input" /\ p.kind = "reconfigure"
           /\ op' = [op EXCEPT ![o].pc = "commit", ![o].on = TRUE]
  <2>1. PICK r : r = [p EXCEPT !.pc = "commit", !.on = TRUE]
        OBVIOUS
  <2>2. r \in OpRec
        BY <1>u, <1>1, <2>1, PcOnTyped, PcNames
  <2>3. Shape(o, r) /\ r.pc # "idle" /\ Running(p)
        BY <1>t, <2>1, <2>2, <1>1 DEF OpRec, Shape, Running, AtRest, StartShape, ReconfigureShape, CallShape, Calls,
         InTargets, StartPcs, ReconfigurePcs, OwnHandle, AfterFailure
  <2> QED BY <1>p, <1>t, <1>1, <2>1, <2>2, <2>3, Acting
<1>2. CASE /\ p.pc = "input" /\ p.kind = "reconfigure"
           /\ op' = [op EXCEPT ![o].pc = "commit", ![o].on = FALSE]
  <2>1. PICK r : r = [p EXCEPT !.pc = "commit", !.on = FALSE]
        OBVIOUS
  <2>2. r \in OpRec
        BY <1>u, <1>2, <2>1, PcOnTyped, PcNames
  <2>3. Shape(o, r) /\ r.pc # "idle" /\ Running(p)
        BY <1>t, <2>1, <2>2, <1>2 DEF OpRec, Shape, Running, AtRest, StartShape, ReconfigureShape, CallShape, Calls,
         InTargets, StartPcs, ReconfigurePcs, OwnHandle, AfterFailure
  <2> QED BY <1>p, <1>t, <1>2, <2>1, <2>2, <2>3, Acting
<1> QED BY <1>p, <1>1, <1>2 DEF ApplyInput, At

(* Commit is a step of one task that leaves it well formed. *)
LEMMA CommitActs ==
  ASSUME TypeInv, NEW o \in Procs, Commit(o)
  PROVE  Acts(o)
<1>p. PICK p : p = op[o]
      OBVIOUS
<1>t. /\ p \in OpRec /\ Shape(o, p) /\ op \in [Procs -> OpRec] /\ TasksInv /\ DataInv
      /\ MaxRequests \in Nat /\ MaxCalls \in Nat
      BY <1>p DEF TypeInv, TasksInv, DataInv
<1>u. p \in OpRec /\ p.then \in Pcs
      BY <1>t DEF OpRec
<1>o. p.pc \in {"commit"} => o \in Requests /\ o \in Numbers /\ p.kind \in {"start", "reconfigure"} /\ 0 \in HandleNumbers
      BY <1>t DEF Shape, Running, AtRest, Calls, CallShape, Requests, InTargets, Numbers, HandleNumbers
<1>h. o \in Requests => OwnHandle(o, p) \in HandleNumbers
      BY <1>t, OwnHandles
<1>1. CASE /\ p.pc = "commit" /\ p.kind = "reconfigure"
           /\ op' = [op EXCEPT ![o].pc = "end"]
  <2>1. PICK r : r = [p EXCEPT !.pc = "end"]
        OBVIOUS
  <2>2. r \in OpRec
        BY <1>u, <1>1, <2>1, PcTyped, PcNames
  <2>3. Shape(o, r) /\ r.pc # "idle" /\ Running(p)
        BY <1>t, <2>1, <2>2, <1>1 DEF OpRec, Shape, Running, AtRest, StartShape, ReconfigureShape, CallShape, Calls,
         InTargets, StartPcs, ReconfigurePcs, OwnHandle, AfterFailure
  <2> QED BY <1>p, <1>t, <1>1, <2>1, <2>2, <2>3, Acting
<1>2. CASE /\ p.pc = "commit" /\ p.kind = "reconfigure"
           /\ op' = [op EXCEPT ![o].pc = "cleanup", ![o].own = o, ![o].then = "end"]
  <2>1. PICK r : r = [p EXCEPT !.pc = "cleanup", !.own = o, !.then = "end"]
        OBVIOUS
  <2>2. r \in OpRec
        BY <1>u, <1>2, <2>1, CleanupTyped, PcNames, <1>o
  <2>3. Shape(o, r) /\ r.pc # "idle" /\ Running(p)
        BY <1>t, <2>1, <2>2, <1>2, <1>o DEF OpRec, Shape, Running, AtRest, StartShape, ReconfigureShape, CallShape, Calls,
         InTargets, StartPcs, ReconfigurePcs, OwnHandle, AfterFailure
  <2> QED BY <1>p, <1>t, <1>2, <2>1, <2>2, <2>3, Acting
<1>3. CASE /\ p.pc = "commit" /\ p.kind = "reconfigure" /\ p.h # 0
           /\ op' = [op EXCEPT ![o].pc = "discard", ![o].then = "end"]
  <2>1. PICK r : r = [p EXCEPT !.pc = "discard", !.then = "end"]
        OBVIOUS
  <2>2. r \in OpRec
        BY <1>u, <1>3, <2>1, PcThenTyped, PcNames
  <2>3. Shape(o, r) /\ r.pc # "idle" /\ Running(p)
        BY <1>t, <2>1, <2>2, <1>3 DEF OpRec, Shape, Running, AtRest, StartShape, ReconfigureShape, CallShape, Calls,
         InTargets, StartPcs, ReconfigurePcs, OwnHandle, AfterFailure
  <2> QED BY <1>p, <1>t, <1>3, <2>1, <2>2, <2>3, Acting
<1> QED BY <1>p, <1>1, <1>2, <1>3 DEF Commit, Go, GoDiscard, GoCleanup, At

(* Silence is a step of one task that leaves it well formed. *)
LEMMA SilenceActs ==
  ASSUME TypeInv, NEW o \in Procs, Silence(o)
  PROVE  Acts(o)
<1>p. PICK p : p = op[o]
      OBVIOUS
<1>t. /\ p \in OpRec /\ Shape(o, p) /\ op \in [Procs -> OpRec] /\ TasksInv /\ DataInv
      /\ MaxRequests \in Nat /\ MaxCalls \in Nat
      BY <1>p DEF TypeInv, TasksInv, DataInv
<1>u. p \in OpRec /\ p.then \in Pcs
      BY <1>t DEF OpRec
<1>w. p.kind \in {"force", "sweep"} /\ Running(p) => p.own \in Numbers /\ p.own \in Requests
      BY <1>t DEF Shape, CallShape, Calls, Numbers, Requests
<1>1. CASE /\ p.pc = "silence" /\ p.kind = "force"
           /\ op' = [op EXCEPT ![o].pc = "cleanup", ![o].own = p.own, ![o].then = "end"]
  <2>1. PICK r : r = [p EXCEPT !.pc = "cleanup", !.own = p.own, !.then = "end"]
        OBVIOUS
  <2>2. r \in OpRec
        BY <1>u, <1>1, <2>1, CleanupTyped, PcNames, <1>w DEF Running, AtRest
  <2>3. Shape(o, r) /\ r.pc # "idle" /\ Running(p)
        BY <1>t, <2>1, <2>2, <1>1, <1>w DEF OpRec, Shape, Running, AtRest, StartShape, ReconfigureShape, CallShape, Calls,
         InTargets, StartPcs, ReconfigurePcs, OwnHandle, AfterFailure, Running, AtRest
  <2> QED BY <1>p, <1>t, <1>1, <2>1, <2>2, <2>3, Acting
<1> QED BY <1>p, <1>1 DEF Silence, GoCleanup, At

(* SweepRetire is a step of one task that leaves it well formed. *)
LEMMA SweepRetireActs ==
  ASSUME TypeInv, NEW o \in Procs, SweepRetire(o)
  PROVE  Acts(o)
<1>p. PICK p : p = op[o]
      OBVIOUS
<1>t. /\ p \in OpRec /\ Shape(o, p) /\ op \in [Procs -> OpRec] /\ TasksInv /\ DataInv
      /\ MaxRequests \in Nat /\ MaxCalls \in Nat
      BY <1>p DEF TypeInv, TasksInv, DataInv
<1>u. p \in OpRec /\ p.then \in Pcs
      BY <1>t DEF OpRec

<1>1. CASE /\ p.pc = "retire" /\ p.kind = "sweep"
           /\ op' = [op EXCEPT ![o].pc = "remove"]
  <2>1. PICK r : r = [p EXCEPT !.pc = "remove"]
        OBVIOUS
  <2>2. r \in OpRec
        BY <1>u, <1>1, <2>1, PcTyped, PcNames
  <2>3. Shape(o, r) /\ r.pc # "idle" /\ Running(p)
        BY <1>t, <2>1, <2>2, <1>1 DEF OpRec, Shape, Running, AtRest, StartShape, ReconfigureShape, CallShape, Calls,
         InTargets, StartPcs, ReconfigurePcs, OwnHandle, AfterFailure
  <2> QED BY <1>p, <1>t, <1>1, <2>1, <2>2, <2>3, Acting
<1>2. CASE /\ p.pc = "retire" /\ p.kind = "sweep"
           /\ op' = [op EXCEPT ![o].pc = "end"]
  <2>1. PICK r : r = [p EXCEPT !.pc = "end"]
        OBVIOUS
  <2>2. r \in OpRec
        BY <1>u, <1>2, <2>1, PcTyped, PcNames
  <2>3. Shape(o, r) /\ r.pc # "idle" /\ Running(p)
        BY <1>t, <2>1, <2>2, <1>2 DEF OpRec, Shape, Running, AtRest, StartShape, ReconfigureShape, CallShape, Calls,
         InTargets, StartPcs, ReconfigurePcs, OwnHandle, AfterFailure
  <2> QED BY <1>p, <1>t, <1>2, <2>1, <2>2, <2>3, Acting
<1> QED BY <1>p, <1>1, <1>2 DEF SweepRetire, Go, At

(* SweepRemove is a step of one task that leaves it well formed. *)
LEMMA SweepRemoveActs ==
  ASSUME TypeInv, NEW o \in Procs, SweepRemove(o)
  PROVE  Acts(o)
<1>p. PICK p : p = op[o]
      OBVIOUS
<1>t. /\ p \in OpRec /\ Shape(o, p) /\ op \in [Procs -> OpRec] /\ TasksInv /\ DataInv
      /\ MaxRequests \in Nat /\ MaxCalls \in Nat
      BY <1>p DEF TypeInv, TasksInv, DataInv
<1>u. p \in OpRec /\ p.then \in Pcs
      BY <1>t DEF OpRec
<1>w. p.kind \in {"force", "sweep"} /\ Running(p) => p.own \in Numbers /\ p.own \in Requests
      BY <1>t DEF Shape, CallShape, Calls, Numbers, Requests
<1>1. CASE /\ p.pc = "remove" /\ p.kind = "sweep"
           /\ op' = [op EXCEPT ![o].pc = "cleanup", ![o].own = p.own, ![o].then = "end"]
  <2>1. PICK r : r = [p EXCEPT !.pc = "cleanup", !.own = p.own, !.then = "end"]
        OBVIOUS
  <2>2. r \in OpRec
        BY <1>u, <1>1, <2>1, CleanupTyped, PcNames, <1>w DEF Running, AtRest
  <2>3. Shape(o, r) /\ r.pc # "idle" /\ Running(p)
        BY <1>t, <2>1, <2>2, <1>1, <1>w DEF OpRec, Shape, Running, AtRest, StartShape, ReconfigureShape, CallShape, Calls,
         InTargets, StartPcs, ReconfigurePcs, OwnHandle, AfterFailure, Running, AtRest
  <2> QED BY <1>p, <1>t, <1>1, <2>1, <2>2, <2>3, Acting
<1>2. CASE /\ p.pc = "remove" /\ p.kind = "sweep"
           /\ op' = [op EXCEPT ![o].pc = "end"]
  <2>1. PICK r : r = [p EXCEPT !.pc = "end"]
        OBVIOUS
  <2>2. r \in OpRec
        BY <1>u, <1>2, <2>1, PcTyped, PcNames
  <2>3. Shape(o, r) /\ r.pc # "idle" /\ Running(p)
        BY <1>t, <2>1, <2>2, <1>2 DEF OpRec, Shape, Running, AtRest, StartShape, ReconfigureShape, CallShape, Calls,
         InTargets, StartPcs, ReconfigurePcs, OwnHandle, AfterFailure
  <2> QED BY <1>p, <1>t, <1>2, <2>1, <2>2, <2>3, Acting
<1> QED BY <1>p, <1>1, <1>2 DEF SweepRemove, Go, GoCleanup, At

(* Collect is a step of one task that leaves it well formed. *)
LEMMA CollectActs ==
  ASSUME TypeInv, NEW o \in Procs, Collect(o)
  PROVE  Acts(o)
<1>p. PICK p : p = op[o]
      OBVIOUS
<1>t. /\ p \in OpRec /\ Shape(o, p) /\ op \in [Procs -> OpRec] /\ TasksInv /\ DataInv
      /\ MaxRequests \in Nat /\ MaxCalls \in Nat
      BY <1>p DEF TypeInv, TasksInv, DataInv
<1>u. p \in OpRec /\ p.then \in Pcs
      BY <1>t DEF OpRec
<1>s. {Target(s) : s \in DOMAIN live} \subseteq TargetRec
      BY <1>t, TargetTypes
<1>1. CASE /\ p.pc = "collect" /\ p.kind = "revoke"
           /\ op' = [op EXCEPT ![o].pc = "targets", ![o].set = {Target(s) : s \in DOMAIN live}]
  <2>1. PICK r : r = [p EXCEPT !.pc = "targets", !.set = {Target(s) : s \in DOMAIN live}]
        OBVIOUS
  <2>2. r \in OpRec
        BY <1>u, <1>1, <2>1, PcSetTyped, PcNames, <1>s DEF Collections
  <2>3. Shape(o, r) /\ r.pc # "idle" /\ Running(p)
        BY <1>t, <2>1, <2>2, <1>1, <1>s DEF OpRec, Shape, Running, AtRest, StartShape, ReconfigureShape, CallShape, Calls,
         InTargets, StartPcs, ReconfigurePcs, OwnHandle, AfterFailure, Collections
  <2> QED BY <1>p, <1>t, <1>1, <2>1, <2>2, <2>3, Acting
<1> QED BY <1>p, <1>1 DEF Collect, At

(* InputStore is a step of one task that leaves it well formed. *)
LEMMA InputStoreActs ==
  ASSUME TypeInv, NEW o \in Procs, InputStore(o)
  PROVE  Acts(o)
<1>p. PICK p : p = op[o]
      OBVIOUS
<1>t. /\ p \in OpRec /\ Shape(o, p) /\ op \in [Procs -> OpRec] /\ TasksInv /\ DataInv
      /\ MaxRequests \in Nat /\ MaxCalls \in Nat
      BY <1>p DEF TypeInv, TasksInv, DataInv
<1>u. p \in OpRec /\ p.then \in Pcs
      BY <1>t DEF OpRec

<1>1. CASE /\ p.pc = "store" /\ p.kind = "input"
           /\ op' = [op EXCEPT ![o].pc = "end"]
  <2>1. PICK r : r = [p EXCEPT !.pc = "end"]
        OBVIOUS
  <2>2. r \in OpRec
        BY <1>u, <1>1, <2>1, PcTyped, PcNames
  <2>3. Shape(o, r) /\ r.pc # "idle" /\ Running(p)
        BY <1>t, <2>1, <2>2, <1>1 DEF OpRec, Shape, Running, AtRest, StartShape, ReconfigureShape, CallShape, Calls,
         InTargets, StartPcs, ReconfigurePcs, OwnHandle, AfterFailure
  <2> QED BY <1>p, <1>t, <1>1, <2>1, <2>2, <2>3, Acting
<1> QED BY <1>p, <1>1 DEF InputStore, Go, At

(* Targets is a step of one task that leaves it well formed. *)
LEMMA TargetsActs ==
  ASSUME TypeInv, NEW o \in Procs, Targets(o)
  PROVE  Acts(o)
<1>p. PICK p : p = op[o]
      OBVIOUS
<1>t. /\ p \in OpRec /\ Shape(o, p) /\ op \in [Procs -> OpRec] /\ TasksInv /\ DataInv
      /\ p.pc = "targets" /\ Running(p)
      BY <1>p DEF TypeInv, TasksInv, Targets, Running, AtRest
<1>k. p.kind \in {"start", "stop", "revoke"} /\ p.set \subseteq TargetRec
      BY <1>t DEF Shape, StartShape, ReconfigureShape, CallShape, Calls, InTargets, Running, AtRest,
         ReconfigurePcs, OpRec, Kinds
<1>1. CASE op' = [op EXCEPT ![o].pc = IF p.kind = "start" THEN "prepare" ELSE "end"]
  <2>1. PICK r : r = [p EXCEPT !.pc = IF p.kind = "start" THEN "prepare" ELSE "end"]
        OBVIOUS
  <2>2. r \in OpRec
        BY <1>t, <2>1, PcTyped, PcNames
  <2>3. Shape(o, r) /\ r.pc # "idle"
        BY <1>t, <1>k, <2>1, <2>2 DEF OpRec, Shape, Running, AtRest, StartShape, ReconfigureShape, CallShape,
           Calls, InTargets, StartPcs, ReconfigurePcs
  <2> QED BY <1>p, <1>t, <1>1, <2>1, <2>2, <2>3, Acting
<1>2. ASSUME NEW t \in p.set, NEW pc \in {"cleanup", "end"}, pc = "end" => p.kind = "stop",
             op' = [op EXCEPT ![o].set = p.set \ {t}, ![o].ep = t.ep, ![o].own = t.own,
                              ![o].pc = pc, ![o].then = "targets"]
      PROVE  Acts(o)
  <2>0. t \in TargetRec /\ t.ep \in Places /\ t.own \in Numbers /\ p.set \ {t} \in Collections
        /\ t.ep \in Endpoints /\ t.own \in Requests
        BY <1>k DEF TargetRec, Places, Numbers, Collections, Requests
  <2>1. PICK r : r = [p EXCEPT !.set = p.set \ {t}, !.ep = t.ep, !.own = t.own, !.pc = pc, !.then = "targets"]
        OBVIOUS
  <2>2. r \in OpRec
        BY <1>t, <2>0, <2>1, TargetTyped, PcNames
  <2>4. /\ r.set = p.set \ {t} /\ r.ep = t.ep /\ r.own = t.own /\ r.pc = pc /\ r.then = "targets"
        /\ r.kind = p.kind /\ r.old = p.old
        BY <1>t, <2>1 DEF OpRec
  <2>3. Shape(o, r) /\ r.pc # "idle"
    <3>1. CASE p.kind = "start"
      <4>1. t.ep = p.ep /\ p.set \subseteq {u \in TargetRec : u.ep = p.ep} /\ ~p.old /\ pc = "cleanup"
            BY <1>t, <1>2, <3>1 DEF Shape, StartShape, InTargets
      <4> QED BY <1>t, <2>0, <2>4, <3>1, <4>1 DEF Shape, Running, AtRest, StartShape, InTargets, StartPcs, Calls
    <3>2. CASE p.kind \in {"stop", "revoke"}
          BY <1>t, <1>k, <1>2, <2>0, <2>4, <3>2 DEF Shape, Running, AtRest, CallShape, InTargets, Calls
    <3> QED BY <1>k, <3>1, <3>2
  <2> QED BY <1>p, <1>t, <1>2, <2>1, <2>2, <2>3, Acting
<1> QED BY <1>p, <1>1, <1>2 DEF Targets, Go

(* Tombstone is a step of one task that leaves it well formed. *)
LEMMA TombstoneActs ==
  ASSUME TypeInv, NEW o \in Procs \ Requests, NEW s \in DOMAIN live, Tombstone(o, s)
  PROVE  /\ op' \in [Procs -> OpRec] /\ \A q \in Procs \ {o} : op'[q] = op[q]
         /\ op'[o].kind = "force" /\ op'[o].pc = "silence" /\ op'[o].sid = s /\ op'[o].ep = live[s].ep
         /\ op'[o].h = live[s].handle /\ op'[o].own = live[s].owner
         /\ op'[o].old = op[o].old /\ op'[o].set = op[o].set
         /\ Shape(o, op'[o])
<1>p. PICK p : p = op[o]
      OBVIOUS
<1>t. /\ p \in OpRec /\ Shape(o, p) /\ op \in [Procs -> OpRec] /\ live[s] \in Session
      /\ s \in Requests
      BY <1>p DEF TypeInv, TasksInv, DataInv
<1>s. /\ s \in Numbers /\ live[s].ep \in Places /\ live[s].handle \in HandleNumbers /\ live[s].owner \in Numbers
      /\ live[s].ep \in Endpoints /\ live[s].handle \in Handles /\ live[s].owner \in Requests
      BY <1>t DEF Session, Numbers, Places, HandleNumbers, Handles, Requests, TypeInv, DataInv
<1>1. PICK r : r = [p EXCEPT !.kind = "force", !.pc = "silence", !.sid = s,
                             !.ep = live[s].ep, !.h = live[s].handle, !.own = live[s].owner]
      OBVIOUS
<1>2. /\ r \in OpRec /\ r.kind = "force" /\ r.pc = "silence" /\ r.sid = s /\ r.ep = live[s].ep
      /\ r.h = live[s].handle /\ r.own = live[s].owner /\ r.old = p.old /\ r.set = p.set
  <2>1. "force" \in Kinds /\ "silence" \in Pcs
        BY DEF Kinds, Pcs
  <2> QED BY <1>t, <1>s, <1>1, <2>1 DEF OpRec
<1>3. Shape(o, r)
      BY <1>t, <1>s, <1>2 DEF Shape, Running, AtRest, CallShape, InTargets, Calls
<1> QED BY <1>p, <1>t, <1>1, <1>2, <1>3 DEF Tombstone

(* InputApply is a step of one task that leaves it well formed. *)
LEMMA InputApplyActs ==
  ASSUME TypeInv, NEW o \in Procs, InputApply(o)
  PROVE  Acts(o)
<1>p. PICK p : p = op[o]
      OBVIOUS
<1>t. /\ p \in OpRec /\ Shape(o, p) /\ op \in [Procs -> OpRec] /\ TasksInv /\ DataInv
      /\ p.pc = "apply" /\ p.kind = "input" /\ Running(p)
      BY <1>p DEF TypeInv, TasksInv, InputApply, At, Running, AtRest
<1>1. ASSUME NEW pc \in {"store", "end"}, op' = [op EXCEPT ![o].pc = pc]
      PROVE  Acts(o)
  <2>1. PICK r : r = [p EXCEPT !.pc = pc]
        OBVIOUS
  <2>2. r \in OpRec
        BY <1>t, <2>1, PcTyped, PcNames
  <2>3. Shape(o, r) /\ r.pc # "idle"
        BY <1>t, <2>1, <2>2 DEF OpRec, Shape, Running, AtRest, StartShape, ReconfigureShape, CallShape,
           Calls, InTargets, StartPcs, ReconfigurePcs
  <2> QED BY <1>p, <1>t, <1>1, <2>1, <2>2, <2>3, Acting
<1>2. CASE p.sid \in DOMAIN live /\ Tombstone(o, p.sid)
  <2>1. o \notin Requests
        BY <1>t DEF Shape
  <2> QED BY <1>p, <1>t, <1>2, <2>1, TombstoneActs DEF Acts
<1> QED BY <1>p, <1>1, <1>2 DEF InputApply, Go

(* End is a step of one task that leaves it well formed. *)
LEMMA EndActs ==
  ASSUME TypeInv, NEW o \in Procs, End(o)
  PROVE  Acts(o)
<1>p. PICK p : p = op[o]
      OBVIOUS
<1>t. /\ p \in OpRec /\ Shape(o, p) /\ op \in [Procs -> OpRec] /\ TasksInv /\ DataInv
      /\ p.pc = "end" /\ Running(p)
      BY <1>p DEF TypeInv, TasksInv, End, Running, AtRest
<1>1. PICK r : r = [IdleOp EXCEPT !.pc = "done", !.kind = p.kind]
      OBVIOUS
<1>2. /\ r \in OpRec /\ r.pc = "done" /\ r.kind = p.kind /\ r.own = 0 /\ ~r.old
  <2>1. IdleOp \in OpRec
        BY <1>t DEF IdleOp, OpRec, Kinds, Pcs, Places, Numbers, HandleNumbers, Collections, DataInv
  <2>2. p.kind \in Kinds /\ "done" \in Pcs
        BY <1>t DEF OpRec, Pcs
  <2>3. r.own = 0 /\ ~r.old
        BY <1>1 DEF IdleOp
  <2> QED BY <1>1, <2>1, <2>2, <2>3 DEF OpRec
<1>3. Shape(o, r) /\ r.pc # "idle"
      BY <1>t, <1>2 DEF Shape, Running, AtRest
<1> QED BY <1>p, <1>t, <1>1, <1>2, <1>3, Acting DEF End

(* The number of the next request is one more than how many have begun. *)
LEMMA NextIsIdle ==
  ASSUME TypeInv, NEW o \in Requests, o = Begun + 1
  PROVE  /\ o \in Procs /\ op[o].pc = "idle"
         /\ \A q \in Requests : op[q].pc # "idle" <=> q < o
<1>1. PICK n \in 0..MaxRequests : \A q \in Requests : op[q].pc # "idle" <=> q <= n
      BY DEF TypeInv, TasksInv
<1>2. MaxRequests \in Nat /\ n \in Nat
      BY DEF TypeInv, DataInv
<1>3. {q \in Requests : op[q].pc # "idle"} = 1..n
      BY <1>1, <1>2 DEF Requests
<1>4. Begun = n
  <2>1. Cardinality(1..n) = IF 1 > n THEN 0 ELSE n - 1 + 1
        BY <1>2, FS_Interval
  <2>2. Cardinality(1..n) = n
        BY <1>2, <2>1
  <2>3. Begun = Cardinality({q \in Requests : op[q].pc # "idle"})
        BY DEF Begun
  <2> QED BY <1>3, <2>2, <2>3
<1> QED BY <1>1, <1>2, <1>4, RequestsAreProcs DEF Requests, TypeInv

(* A task begins, and no other task takes a step. *)
Starts(o) ==
  /\ op[o].pc = "idle"
  /\ op' \in [Procs -> OpRec]
  /\ \A q \in Procs \ {o} : op'[q] = op[q]
  /\ Running(op'[o])
  /\ Shape(o, op'[o])
  /\ o \in Requests => \A q \in Requests : op[q].pc # "idle" <=> q < o

(* A task that begins leaves every task well formed. *)
LEMMA StartsKeepsTasks ==
  ASSUME DataInv, TasksInv, NEW o \in Procs, Starts(o)
  PROVE  TasksInv'
<1>1. \A q \in Procs : Shape(q, op'[q])
      BY DEF TasksInv, Starts
<1>2. op'[o].pc # "idle"
      BY DEF Starts, Running, AtRest
<1>3. \E n \in 0..MaxRequests : \A q \in Requests : op'[q].pc # "idle" <=> q <= n
  <2>1. CASE o \in Requests
    <3>1. \A q \in Requests : op'[q].pc # "idle" <=> q <= o
      <4>1. ASSUME NEW q \in Requests PROVE op'[q].pc # "idle" <=> q <= o
        <5>1. CASE q = o
              BY <1>2, <5>1 DEF Requests, DataInv
        <5>2. CASE q # o
          <6>1. op'[q] = op[q] /\ (op[q].pc # "idle" <=> q < o)
                BY <2>1, <5>2, RequestsAreProcs DEF Starts
          <6> QED BY <2>1, <5>2, <6>1 DEF Requests, DataInv
        <5> QED BY <5>1, <5>2
      <4> QED BY <4>1
    <3> QED BY <2>1, <3>1 DEF Requests, DataInv
  <2>2. CASE o \notin Requests
        BY <2>2, RequestsAreProcs DEF Starts, TasksInv
  <2> QED BY <2>1, <2>2
<1> QED BY <1>1, <1>3 DEF TasksInv, Starts

(* An idle task whose record is replaced by a well formed running one begins. *)
LEMMA Starting ==
  ASSUME TypeInv, NEW o \in Procs, op[o].pc = "idle", NEW r \in OpRec, Running(r), Shape(o, r),
         o \in Requests => o = Begun + 1,
         op' = [op EXCEPT ![o] = r]
  PROVE  Starts(o)
BY NextIsIdle DEF TypeInv, TasksInv, Starts

(* The fields of a registered session are well typed. *)
LEMMA SessionTypes ==
  ASSUME DataInv, NEW s \in DOMAIN live
  PROVE  /\ s \in Requests /\ s \in Numbers /\ live[s] \in Session
         /\ live[s].ep \in Endpoints /\ live[s].ep \in Places
         /\ live[s].handle \in Handles /\ live[s].handle \in HandleNumbers
         /\ live[s].owner \in Requests /\ live[s].owner \in Numbers
         /\ live[s].rev \in Nat
<1>1. live[s] \in Session /\ s \in Requests
      BY DEF DataInv
<1> QED BY <1>1 DEF Session, Numbers, Places, HandleNumbers, Handles, Requests, DataInv

(* StartBegin begins one task, well formed. *)
LEMMA StartBeginStarts ==
  ASSUME TypeInv, NEW o \in Requests, NEW e \in Endpoints, StartBegin(o, e)
  PROVE  o \in Procs /\ Starts(o)
<1>p. PICK p : p = op[o]
      OBVIOUS
<1>n. o \in Procs /\ op[o].pc = "idle" /\ o = Begun + 1
      BY NextIsIdle DEF StartBegin
<1>t. p \in OpRec /\ Shape(o, p) /\ p.pc = "idle"
      BY <1>p, <1>n DEF TypeInv, TasksInv
<1>1. PICK r : r = [p EXCEPT !.kind = "start", !.ep = e, !.pc = "claim"]
      OBVIOUS
<1>2. /\ r \in OpRec /\ r.kind = "start" /\ r.ep = e /\ r.pc = "claim" /\ r.old = p.old
  <2>1. "start" \in Kinds /\ "claim" \in Pcs /\ e \in Places
        BY DEF Kinds, Pcs, Places
  <2> QED BY <1>t, <1>1, <2>1 DEF OpRec
<1>3. Shape(o, r) /\ Running(r)
      BY <1>t, <1>2 DEF Shape, Running, AtRest, StartShape, StartPcs, InTargets, Calls
<1> QED BY <1>p, <1>n, <1>1, <1>2, <1>3, Starting DEF StartBegin

(* ReconfigureBegin begins one task, well formed. *)
LEMMA ReconfigureBeginStarts ==
  ASSUME TypeInv, NEW o \in Requests, NEW s \in DOMAIN live, NEW moved \in BOOLEAN,
         ReconfigureBegin(o, s, moved)
  PROVE  o \in Procs /\ Starts(o)
<1>p. PICK p : p = op[o]
      OBVIOUS
<1>n. o \in Procs /\ op[o].pc = "idle" /\ o = Begun + 1
      BY NextIsIdle DEF ReconfigureBegin
<1>t. p \in OpRec /\ Shape(o, p) /\ p.pc = "idle"
      BY <1>p, <1>n DEF TypeInv, TasksInv
<1>s. /\ s \in Requests /\ s \in Numbers
      /\ live[s].ep \in Endpoints /\ live[s].ep \in Places
      /\ live[s].handle \in Handles /\ live[s].handle \in HandleNumbers /\ live[s].rev + 1 \in Nat
      BY SessionTypes DEF TypeInv
<1>1. PICK r : r = [p EXCEPT !.kind = "reconfigure", !.ep = live[s].ep, !.pc = "claim", !.sid = s,
                             !.base = live[s].handle, !.rev = live[s].rev + 1, !.on = moved]
      OBVIOUS
<1>2. /\ r \in OpRec /\ r.kind = "reconfigure" /\ r.ep = live[s].ep /\ r.pc = "claim" /\ r.old = p.old
      /\ r.sid = s /\ r.base = live[s].handle
  <2>1. "reconfigure" \in Kinds /\ "claim" \in Pcs
        BY DEF Kinds, Pcs
  <2> QED BY <1>t, <1>s, <1>1, <2>1 DEF OpRec
<1>3. Shape(o, r) /\ Running(r)
      BY <1>t, <1>s, <1>2 DEF Shape, Running, AtRest, ReconfigureShape, ReconfigurePcs, InTargets, Calls
<1>4. op' = [op EXCEPT ![o] = r]
      BY <1>p, <1>1 DEF ReconfigureBegin
<1> QED BY <1>p, <1>n, <1>2, <1>3, <1>4, Starting

(* StopStream begins one task, well formed. *)
LEMMA StopStreamStarts ==
  ASSUME TypeInv, NEW o \in Procs \ Requests, NEW s \in DOMAIN live, StopStream(o, s)
  PROVE  Starts(o)
<1>p. PICK p : p = op[o]
      OBVIOUS
<1>t. p \in OpRec /\ Shape(o, p) /\ p.pc = "idle" /\ Target(s) \in TargetRec
      BY <1>p, TargetTypes DEF TypeInv, TasksInv, StopStream, MayCall
<1>1. PICK r : r = [p EXCEPT !.kind = "stop", !.pc = "targets", !.set = {Target(s)}]
      OBVIOUS
<1>2. /\ r \in OpRec /\ r.kind = "stop" /\ r.pc = "targets" /\ r.set = {Target(s)} /\ r.old = p.old
  <2>1. "stop" \in Kinds /\ "targets" \in Pcs /\ {Target(s)} \in Collections
        BY <1>t DEF Kinds, Pcs, Collections
  <2> QED BY <1>t, <1>1, <2>1 DEF OpRec
<1>3. Shape(o, r) /\ Running(r)
      BY <1>t, <1>2 DEF Shape, Running, AtRest, CallShape, InTargets, Calls
<1> QED BY <1>p, <1>t, <1>1, <1>2, <1>3, Starting DEF StopStream

(* ForceStop begins one task, well formed. *)
LEMMA ForceStopStarts ==
  ASSUME TypeInv, NEW o \in Procs \ Requests, NEW s \in DOMAIN live, ForceStop(o, s)
  PROVE  Starts(o)
<1>1. Tombstone(o, s) /\ op[o].pc = "idle"
      BY DEF ForceStop, MayCall
<1> QED BY <1>1, TombstoneActs DEF Starts, Running, AtRest

(* Sweep begins one task, well formed. *)
LEMMA SweepStarts ==
  ASSUME TypeInv, NEW o \in Procs \ Requests, NEW s \in DOMAIN live, Sweep(o, s)
  PROVE  Starts(o)
<1>p. PICK p : p = op[o]
      OBVIOUS
<1>t. p \in OpRec /\ Shape(o, p) /\ p.pc = "idle"
      BY <1>p DEF TypeInv, TasksInv, Sweep, MayCall
<1>s. /\ s \in Requests /\ s \in Numbers
      /\ live[s].ep \in Endpoints /\ live[s].ep \in Places /\ live[s].rev \in Nat
      /\ live[s].handle \in Handles /\ live[s].handle \in HandleNumbers
      /\ live[s].owner \in Requests /\ live[s].owner \in Numbers
      BY SessionTypes DEF TypeInv
<1>c. PICK pc \in {"remove", "retire"} : pc = IF live[s].released THEN "remove" ELSE "retire"
      OBVIOUS
<1>1. PICK r : r = [p EXCEPT !.kind = "sweep", !.sid = s, !.ep = live[s].ep, !.h = live[s].handle,
                             !.own = live[s].owner, !.rev = live[s].rev, !.pc = pc]
      OBVIOUS
<1>2. /\ r \in OpRec /\ r.kind = "sweep" /\ r.sid = s /\ r.ep = live[s].ep /\ r.pc = pc /\ r.old = p.old
      /\ r.h = live[s].handle /\ r.own = live[s].owner
  <2>1. "sweep" \in Kinds /\ pc \in Pcs
        BY PcNames DEF Kinds
  <2> QED BY <1>t, <1>s, <1>1, <2>1 DEF OpRec
<1>3. Shape(o, r) /\ Running(r)
      BY <1>t, <1>s, <1>2 DEF Shape, Running, AtRest, CallShape, InTargets, Calls
<1>4. op' = [op EXCEPT ![o] = r]
      BY <1>p, <1>c, <1>1 DEF Sweep
<1> QED BY <1>p, <1>t, <1>2, <1>3, <1>4, Starting

(* Revoke begins one task, well formed. *)
LEMMA RevokeStarts ==
  ASSUME TypeInv, NEW o \in Procs \ Requests, Revoke(o)
  PROVE  Starts(o)
<1>p. PICK p : p = op[o]
      OBVIOUS
<1>t. p \in OpRec /\ Shape(o, p) /\ p.pc = "idle"
      BY <1>p DEF TypeInv, TasksInv, Revoke, MayCall
<1>1. PICK r : r = [p EXCEPT !.kind = "revoke", !.pc = "collect"]
      OBVIOUS
<1>2. r \in OpRec /\ r.kind = "revoke" /\ r.pc = "collect" /\ r.old = p.old
  <2>1. "revoke" \in Kinds /\ "collect" \in Pcs
        BY DEF Kinds, Pcs
  <2> QED BY <1>t, <1>1, <2>1 DEF OpRec
<1>3. Shape(o, r) /\ Running(r)
      BY <1>t, <1>2 DEF Shape, Running, AtRest, CallShape, InTargets, Calls
<1> QED BY <1>p, <1>t, <1>1, <1>2, <1>3, Starting DEF Revoke

(* InputCall begins one task, well formed. *)
LEMMA InputCallStarts ==
  ASSUME TypeInv, NEW o \in Procs \ Requests, NEW s \in DOMAIN live, NEW on \in BOOLEAN,
         InputCall(o, s, on)
  PROVE  Starts(o)
<1>p. PICK p : p = op[o]
      OBVIOUS
<1>t. p \in OpRec /\ Shape(o, p) /\ p.pc = "idle"
      BY <1>p DEF TypeInv, TasksInv, InputCall, MayCall
<1>s. /\ s \in Requests /\ s \in Numbers
      /\ live[s].handle \in Handles /\ live[s].handle \in HandleNumbers
      BY SessionTypes DEF TypeInv
<1>c. PICK pc \in {"end", "apply"} : pc = IF retired[s] = live[s].handle \/ ~LeaseCurrent(s)
                                          THEN "end" ELSE "apply"
      OBVIOUS
<1>1. PICK r : r = [p EXCEPT !.kind = "input", !.sid = s, !.h = live[s].handle, !.on = on, !.pc = pc]
      OBVIOUS
<1>2. /\ r \in OpRec /\ r.kind = "input" /\ r.sid = s /\ r.pc = pc /\ r.old = p.old /\ r.h = live[s].handle
  <2>1. "input" \in Kinds /\ pc \in Pcs
        BY PcNames DEF Kinds
  <2> QED BY <1>t, <1>s, <1>1, <2>1 DEF OpRec
<1>3. Shape(o, r) /\ Running(r)
      BY <1>t, <1>s, <1>2 DEF Shape, Running, AtRest, CallShape, InTargets, Calls
<1> QED BY <1>p, <1>t, <1>c, <1>1, <1>2, <1>3, Starting, ZenonT(30) DEF InputCall

(***************************************************************************)
(* What the steps do to the data.                                          *)
(***************************************************************************)

(* The steps that write the books of Starts. *)
LEMMA EntrySteps ==
  ASSUME NEW o \in Procs, Step(o)
  PROVE  \/ entry' = entry
         \/ CleanupBegin(o) \/ CleanupDo(o) \/ Prepare(o) \/ LeaveSetup(o) \/ Claim(o)
         \/ StartEnter(o) \/ Register(o) \/ ReconfigureEnter(o) \/ Commit(o) \/ End(o)
BY DEF Step, Steps, CleanupBegin, CleanupDo, Prepare, LeaveSetup, Discard, Backend, FirstFrame, SetupFailed,
   Claim, StartEnter, Policy, Register, Enable, FlagEnabled, DisableOthers, CheckCurrent, ReconfigureEnter,
   RetireOld, ApplyInput, Silence, SweepRetire, SweepRemove, Collect, InputApply, InputStore, End, Targets,
   Displace, Commit, books, captures, guards

(* The steps that write the map of the sessions. *)
LEMMA LiveSteps ==
  ASSUME NEW o \in Procs, Step(o)
  PROVE  \/ live' = live
         \/ StartEnter(o) \/ Register(o) \/ FlagEnabled(o) \/ Displace(o) \/ Commit(o) \/ Silence(o)
         \/ SweepRemove(o) \/ Collect(o) \/ InputApply(o) \/ InputStore(o)
BY DEF Step, Steps, CleanupBegin, CleanupDo, Prepare, LeaveSetup, Discard, Backend, FirstFrame, SetupFailed,
   Claim, StartEnter, Policy, Register, Enable, FlagEnabled, DisableOthers, CheckCurrent, ReconfigureEnter,
   RetireOld, ApplyInput, Silence, SweepRetire, SweepRemove, Collect, InputApply, InputStore, End, Targets,
   Displace, Commit, books, captures, guards

(* The steps that write the captures. *)
LEMMA CaptureSteps ==
  ASSUME NEW o \in Procs, Step(o)
  PROVE  \/ UNCHANGED captures
         \/ Targets(o) \/ Discard(o) \/ Backend(o) \/ RetireOld(o) \/ Silence(o) \/ SweepRetire(o)
         \/ ((Enable(o) \/ DisableOthers(o) \/ ApplyInput(o) \/ InputApply(o)) /\ UNCHANGED <<native, pendingRet>>)
BY DEF Step, Steps, CleanupBegin, CleanupDo, Prepare, LeaveSetup, Discard, Backend, FirstFrame, SetupFailed,
   Claim, StartEnter, Policy, Register, Enable, FlagEnabled, DisableOthers, CheckCurrent, ReconfigureEnter,
   RetireOld, ApplyInput, Silence, SweepRetire, SweepRemove, Collect, InputApply, InputStore, End, Targets,
   Displace, Commit, books, captures, guards

(* The steps that write the guards. *)
LEMMA GuardSteps ==
  ASSUME NEW o \in Procs, Step(o)
  PROVE  /\ UNCHANGED <<active, busySess>> \/ End(o)
         /\ retired' = retired \/ End(o) \/ RetireOld(o) \/ Commit(o)
         /\ inputLock' = inputLock \/ End(o) \/ ApplyInput(o)
         /\ policy' = policy \/ InputStore(o)
         /\ phys' = phys \/ CleanupDo(o) \/ Prepare(o) \/ LeaveSetup(o)
         /\ fenced' = fenced \/ StartEnter(o) \/ Collect(o) \/ InputApply(o)
         /\ past' = past \/ Targets(o) \/ Displace(o) \/ DisableOthers(o) \/ Commit(o)
BY DEF Step, Steps, CleanupBegin, CleanupDo, Prepare, LeaveSetup, Discard, Backend, FirstFrame, SetupFailed,
   Claim, StartEnter, Policy, Register, Enable, FlagEnabled, DisableOthers, CheckCurrent, ReconfigureEnter,
   RetireOld, ApplyInput, Silence, SweepRetire, SweepRemove, Collect, InputApply, InputStore, End, Targets,
   Displace, Commit, books, captures, guards

(* What a task that begins leaves alone. *)
LEMMA BeginsKeep ==
  ASSUME Begins \/ (\E o \in Procs \ Requests, s \in DOMAIN live, on \in BOOLEAN : InputCall(o, s, on))
  PROVE  /\ UNCHANGED <<entry, phys, retired, pendingRet>>
         /\ UNCHANGED <<native, nativeIn>> \/ (\E h \in Handles : CaptureEnds(h))
<1>1. ASSUME NEW o \in Requests, NEW e \in Endpoints, StartBegin(o, e)
      PROVE  UNCHANGED <<entry, phys, retired, pendingRet, native, nativeIn>>
      BY <1>1 DEF StartBegin, captures, guards
<1>2. ASSUME NEW o \in Requests, NEW s \in DOMAIN live, NEW moved \in BOOLEAN, ReconfigureBegin(o, s, moved)
      PROVE  UNCHANGED <<entry, phys, retired, pendingRet, native, nativeIn>>
      BY <1>2 DEF ReconfigureBegin, captures
<1>3. ASSUME NEW o \in Procs \ Requests, NEW s \in DOMAIN live,
             StopStream(o, s) \/ ForceStop(o, s) \/ Sweep(o, s)
      PROVE  UNCHANGED <<entry, phys, retired, pendingRet, native, nativeIn>>
      BY <1>3 DEF StopStream, ForceStop, Sweep, books, captures, guards
<1>4. ASSUME NEW o \in Procs \ Requests, Revoke(o)
      PROVE  UNCHANGED <<entry, phys, retired, pendingRet, native, nativeIn>>
      BY <1>4 DEF Revoke, books, captures, guards
<1>5. ASSUME NEW o \in Procs \ Requests, NEW s \in DOMAIN live, NEW on \in BOOLEAN, InputCall(o, s, on)
      PROVE  UNCHANGED <<entry, phys, retired, pendingRet, native, nativeIn>>
      BY <1>5 DEF InputCall, books, captures
<1>6. ASSUME NEW h \in Handles, CaptureEnds(h)
      PROVE  UNCHANGED <<entry, phys, retired, pendingRet>>
      BY <1>6 DEF CaptureEnds, books, guards
<1> QED BY <1>1, <1>2, <1>3, <1>4, <1>5, <1>6 DEF Begins

(* A step keeps the books of Starts well typed. *)
LEMMA EntryStays ==
  ASSUME TypeInv, NEW o \in Procs, Step(o)
  PROVE  entry' \in [Endpoints -> Entry]
<1>p. PICK p : p = op[o]
      OBVIOUS
<1>t. /\ p \in OpRec /\ Shape(o, p) /\ entry \in [Endpoints -> Entry] /\ DataInv
      /\ active \in SUBSET Requests
      /\ MaxRequests \in Nat /\ MaxCalls \in Nat
      BY <1>p DEF TypeInv, TasksInv, DataInv
<1>z. /\ 0 \in 0..MaxRequests /\ (o \in Requests => o \in 0..MaxRequests)
      /\ \A e \in Endpoints : entry[e].owner \in 0..MaxRequests /\ entry[e].reg \in 0..MaxRequests
      BY <1>t DEF Requests, Entry
<1>q. o \notin Requests => p.pc \notin {"prepare", "leave", "claim", "enter", "register", "commit"}
      BY <1>t DEF Shape, Running, AtRest, Calls, CallShape
<1>e. o \in Requests /\ Running(p) => p.ep \in Endpoints
      BY <1>t DEF Shape, StartShape, ReconfigureShape, Running, AtRest
<1>c. p.pc \in {"cleanup", "cleaning"} => p.ep \in Endpoints
      BY <1>t DEF Shape, StartShape, ReconfigureShape, CallShape, Running, AtRest, OpRec, Kinds, Calls
<1>u. \A en \in [Endpoints -> Entry], e \in Endpoints : \A k : Unregistered(en, e, k) \in [Endpoints -> Entry]
  <2>1. SUFFICES ASSUME NEW en \in [Endpoints -> Entry], NEW e \in Endpoints, NEW k
                 PROVE  Unregistered(en, e, k) \in [Endpoints -> Entry]
        OBVIOUS
  <2>2. (IF en[e].reg = k THEN 0 ELSE en[e].reg) \in 0..MaxRequests
        BY <1>t, <1>z DEF Entry
  <2>3. [en EXCEPT ![e].reg = IF en[e].reg = k THEN 0 ELSE en[e].reg] \in [Endpoints -> Entry]
        BY <1>t, <2>2, EntryTypes, ZenonT(30)
  <2> QED BY <2>3 DEF Unregistered
<1>1. CASE CleanupBegin(o)
  <2>1. p.ep \in Endpoints
        BY <1>p, <1>1, <1>c DEF CleanupBegin
  <2>2. [entry EXCEPT ![p.ep].busy = TRUE] \in [Endpoints -> Entry]
        BY <1>t, <1>z, <2>1, EntryTypes
  <2>3. [entry EXCEPT ![p.ep].pending = TRUE] \in [Endpoints -> Entry]
        BY <1>t, <1>z, <2>1, EntryTypes
  <2>4. /\ Prune(Unregistered([entry EXCEPT ![p.ep].pending = TRUE], p.ep, p.own), active) \in [Endpoints -> Entry]
        /\ Prune(Unregistered(entry, p.ep, p.own), active) \in [Endpoints -> Entry]
        BY <1>t, <1>u, <2>1, <2>3, PruneIsTyped
  <2> QED BY <1>p, <1>1, <2>2, <2>4 DEF CleanupBegin
<1>2. CASE CleanupDo(o)
  <2>1. p.ep \in Endpoints
        BY <1>p, <1>2, <1>c DEF CleanupDo
  <2>2. (IF entry[p.ep].owner = p.own THEN 0 ELSE entry[p.ep].owner) \in 0..MaxRequests
        BY <1>z, <2>1
  <2>3. [entry EXCEPT ![p.ep].busy = FALSE,
                      ![p.ep].owner = IF entry[p.ep].owner = p.own THEN 0 ELSE entry[p.ep].owner,
                      ![p.ep].pending = FALSE] \in [Endpoints -> Entry]
        BY <1>t, <2>1, <2>2, EntryTypes
  <2>4. PICK freed \in [Endpoints -> Entry] :
          freed = [entry EXCEPT ![p.ep].busy = FALSE, ![p.ep].owner = IF @ = p.own THEN 0 ELSE @, ![p.ep].pending = FALSE]
        BY <1>t, <2>1, <2>3
  <2>5. Prune(Unregistered(freed, p.ep, p.own), active) \in [Endpoints -> Entry]
        BY <1>t, <1>u, <2>1, PruneIsTyped
  <2> QED BY <1>p, <1>2, <2>4, <2>5 DEF CleanupDo
<1>3. CASE Prepare(o)
  <2>1. p.ep \in Endpoints /\ o \in 0..MaxRequests
        BY <1>p, <1>3, <1>q, <1>e, <1>z DEF Prepare, Running, AtRest
  <2>2. \A k \in 0..MaxRequests : [entry EXCEPT ![p.ep].owner = k, ![p.ep].pending = FALSE] \in [Endpoints -> Entry]
        BY <1>t, <2>1, EntryTypes
  <2> QED BY <1>p, <1>3, <1>z, <2>1, <2>2 DEF Prepare
<1>4. CASE LeaveSetup(o)
  <2>1. p.ep \in Endpoints
        BY <1>p, <1>4, <1>q, <1>e DEF LeaveSetup, Running, AtRest
  <2>2. (IF Drains(p.ep) THEN 0 ELSE entry[p.ep].owner) \in 0..MaxRequests
        BY <1>z, <2>1
  <2>3. [entry EXCEPT ![p.ep].busy = FALSE, ![p.ep].pending = FALSE,
                      ![p.ep].owner = IF Drains(p.ep) THEN 0 ELSE entry[p.ep].owner] \in [Endpoints -> Entry]
        BY <1>t, <2>1, <2>2, EntryTypes
  <2>4. PICK freed \in [Endpoints -> Entry] :
          freed = [entry EXCEPT ![p.ep].busy = FALSE, ![p.ep].pending = FALSE, ![p.ep].owner = IF Drains(p.ep) THEN 0 ELSE @]
        BY <1>t, <2>1, <2>3
  <2>5. Prune(freed, active) \in [Endpoints -> Entry]
        BY <1>t, PruneIsTyped
  <2> QED BY <1>p, <1>4, <2>4, <2>5 DEF LeaveSetup
<1>5. CASE Claim(o)
  <2>1. p.ep \in Endpoints /\ o \in 0..MaxRequests
        BY <1>p, <1>5, <1>q, <1>e, <1>z DEF Claim, Running, AtRest
  <2>2. [entry EXCEPT ![p.ep].newest = o] \in [Endpoints -> Entry]
        BY <1>t, <2>1, EntryTypes
  <2> QED BY <1>p, <1>5, <1>t, <2>2 DEF Claim
<1>6. CASE StartEnter(o)
  <2>1. p.ep \in Endpoints /\ o \in 0..MaxRequests
        BY <1>p, <1>6, <1>q, <1>e, <1>z DEF StartEnter, At, Running, AtRest
  <2>2. [entry EXCEPT ![p.ep].busy = TRUE] \in [Endpoints -> Entry]
        BY <1>t, <2>1, EntryTypes
  <2> QED BY <1>p, <1>6, <1>t, <2>2 DEF StartEnter
<1>7. CASE Register(o) \/ Commit(o)
  <2>1. p.ep \in Endpoints /\ o \in 0..MaxRequests
        BY <1>p, <1>7, <1>q, <1>e, <1>z DEF Register, Commit, At, Running, AtRest
  <2>2. [entry EXCEPT ![p.ep].reg = o] \in [Endpoints -> Entry]
        BY <1>t, <2>1, EntryTypes
  <2> QED BY <1>p, <1>7, <1>t, <2>2 DEF Register, Commit
<1>8. CASE ReconfigureEnter(o)
  <2>1. p.ep \in Endpoints /\ o \in 0..MaxRequests
        BY <1>p, <1>8, <1>q, <1>e, <1>z DEF ReconfigureEnter, At, Running, AtRest
  <2>2. [entry EXCEPT ![p.ep].busy = TRUE] \in [Endpoints -> Entry]
        BY <1>t, <2>1, EntryTypes
  <2> QED BY <1>p, <1>8, <1>t, <2>2 DEF ReconfigureEnter
<1>9. CASE End(o)
  <2>1. Prune(entry, active \ {o}) \in [Endpoints -> Entry]
        BY <1>t, PruneIsTyped
  <2> QED BY <1>9, <2>1 DEF End
<1> QED BY <1>t, <1>1, <1>2, <1>3, <1>4, <1>5, <1>6, <1>7, <1>8, <1>9, EntrySteps

(* A session with some of its fields changed is a session. *)
LEMMA SessionTyped ==
  ASSUME DataInv, NEW s \in DOMAIN live, NEW b \in BOOLEAN
  PROVE  /\ [live[s] EXCEPT !.input = b] \in Session
         /\ [live[s] EXCEPT !.released = b] \in Session
         /\ [live[s] EXCEPT !.rev = @ + 1] \in Session
         /\ [live[s] EXCEPT !.input = FALSE, !.released = TRUE, !.rev = @ + 1] \in Session
         /\ [live[s] EXCEPT !.stopped = TRUE, !.rev = @ + 1, !.input = FALSE, !.released = TRUE] \in Session
<1>1. live[s] \in Session
      BY DEF DataInv
<1>2. live[s].rev + 1 \in Nat
      BY <1>1 DEF Session
<1>3. PICK n \in Nat : n = live[s].rev + 1
      BY <1>2
<1>4. PICK x \in Session : x = live[s]
      BY <1>1
<1>5. [x EXCEPT !.input = b] \in Session /\ [x EXCEPT !.released = b] \in Session
      BY DEF Session
<1>6. [x EXCEPT !.rev = n] \in Session
      BY DEF Session
<1>7. [x EXCEPT !.input = FALSE, !.released = TRUE, !.rev = n] \in Session
      BY DEF Session
<1>8. [x EXCEPT !.stopped = TRUE, !.rev = n, !.input = FALSE, !.released = TRUE] \in Session
      BY DEF Session
<1> QED BY <1>3, <1>4, <1>5, <1>6, <1>7, <1>8

(* A published session is a session. *)
LEMMA PublishedTyped ==
  ASSUME DataInv, NEW s \in DOMAIN live, NEW h \in Handles, NEW o \in Requests, NEW b \in BOOLEAN
  PROVE  [live[s] EXCEPT !.handle = h, !.owner = o, !.input = b] \in Session
<1>1. live[s] \in Session
      BY DEF DataInv
<1> QED BY <1>1 DEF Session

(* Changing one session, and leaving sessions out. *)
LEMMA LiveTypes ==
  ASSUME DataInv
  PROVE  /\ \A S : DOMAIN Drop(S) \subseteq Requests /\ Drop(S) \in [DOMAIN Drop(S) -> Session]
         /\ \A s \in DOMAIN live, x \in Session :
              LET f == [live EXCEPT ![s] = x] IN
              DOMAIN f \subseteq Requests /\ f \in [DOMAIN f -> Session]
BY DEF DataInv, Drop

(* A tombstone is a session. *)
LEMMA TombstoneLive ==
  ASSUME TypeInv, NEW o \in Procs \ Requests, NEW s \in DOMAIN live, Tombstone(o, s)
  PROVE  DOMAIN live' \subseteq Requests /\ live' \in [DOMAIN live' -> Session]
<1>1. PICK x \in Session : x = [live[s] EXCEPT !.stopped = TRUE, !.rev = @ + 1, !.input = FALSE, !.released = TRUE]
      BY SessionTyped DEF TypeInv
<1>2. live' = [live EXCEPT ![s] = x]
      BY <1>1 DEF Tombstone
<1> QED BY <1>2, LiveTypes DEF TypeInv

(* A step keeps the map of the sessions well typed. *)
LEMMA LiveStays ==
  ASSUME TypeInv, NEW o \in Procs, Step(o)
  PROVE  DOMAIN live' \subseteq Requests /\ live' \in [DOMAIN live' -> Session]
<1>p. PICK p : p = op[o]
      OBVIOUS
<1>t. /\ p \in OpRec /\ Shape(o, p) /\ DataInv
      /\ DOMAIN live \subseteq Requests /\ live \in [DOMAIN live -> Session]
      BY <1>p DEF TypeInv, TasksInv, DataInv
<1>k. /\ p.kind = "start" /\ Running(p) => o \in Requests /\ p.ep \in Endpoints
      /\ p.kind = "reconfigure" /\ Running(p) => o \in Requests /\ p.ep \in Endpoints
      /\ p.kind = "input" /\ Running(p) => o \notin Requests
      /\ p.on \in BOOLEAN
      BY <1>t DEF Shape, StartShape, ReconfigureShape, Calls, OpRec
<1>1. CASE StartEnter(o) \/ SweepRemove(o) \/ Collect(o)
      BY <1>1, <1>t, LiveTypes DEF StartEnter, SweepRemove, Collect
<1>2. CASE Register(o)
  <2>1. o \in Requests /\ p.ep \in Endpoints /\ p.h \in Handles
        BY <1>p, <1>2, <1>k, <1>t, OwnHandles DEF Register, At, Running, AtRest, Shape, StartShape
  <2>2. NewSession(o) \in Session
        BY <1>p, <2>1 DEF NewSession, NewHandle, Session
  <2> QED BY <1>2, <1>t, <2>1, <2>2 DEF Register
<1>3. CASE FlagEnabled(o)
  <2>1. CASE o \in DOMAIN live /\ live' = [live EXCEPT ![o].input = TRUE]
    <3>1. PICK x \in Session : x = [live[o] EXCEPT !.input = TRUE]
          BY <2>1, <1>t, SessionTyped
    <3>2. live' = [live EXCEPT ![o] = x]
          BY <2>1, <3>1
    <3> QED BY <2>1, <1>t, <3>2, LiveTypes
  <2> QED BY <1>3, <1>t, <2>1 DEF FlagEnabled
<1>4. CASE Displace(o)
  <2>1. \A s \in DOMAIN live : [live[s] EXCEPT !.input = @ /\ s \notin Displaced(o)] \in Session
    <3>1. ASSUME NEW s \in DOMAIN live PROVE [live[s] EXCEPT !.input = @ /\ s \notin Displaced(o)] \in Session
      <4>1. (live[s].input /\ s \notin Displaced(o)) \in BOOLEAN
            OBVIOUS
      <4> QED BY <1>t, <4>1, SessionTyped
    <3> QED BY <3>1
  <2> QED BY <1>4, <1>t, <2>1 DEF Displace
<1>5. CASE Commit(o)
  <2>1. p.kind = "reconfigure" /\ p.pc = "commit" /\ o \in Requests
        BY <1>p, <1>5, <1>k DEF Commit, At, Running, AtRest
  <2>2. p.h # 0 => p.h \in Handles
        BY <2>1, <1>t, OwnHandles DEF Shape, ReconfigureShape, Running, AtRest
  <2>3. CASE /\ p.sid \in DOMAIN live /\ p.h # 0
             /\ live' = [live EXCEPT ![p.sid].handle = p.h, ![p.sid].owner = o, ![p.sid].input = p.on]
    <3>1. PICK x \in Session : x = [live[p.sid] EXCEPT !.handle = p.h, !.owner = o, !.input = p.on]
          BY <2>1, <2>2, <2>3, <1>t, <1>k, PublishedTyped
    <3>2. live' = [live EXCEPT ![p.sid] = x]
          BY <2>3, <3>1
    <3> QED BY <2>3, <1>t, <3>2, LiveTypes
  <2>4. CASE /\ p.sid \in DOMAIN live
             /\ live' = [live EXCEPT ![p.sid].input = FALSE, ![p.sid].released = TRUE, ![p.sid].rev = @ + 1]
    <3>1. PICK x \in Session : x = [live[p.sid] EXCEPT !.input = FALSE, !.released = TRUE, !.rev = @ + 1]
          BY <2>4, <1>t, SessionTyped
    <3>2. live' = [live EXCEPT ![p.sid] = x]
          BY <2>4, <3>1
    <3> QED BY <2>4, <1>t, <3>2, LiveTypes
  <2> QED BY <1>p, <1>5, <1>t, <2>3, <2>4 DEF Commit, Current, Accepting
<1>6. CASE Silence(o)
  <2>1. CASE p.sid \in DOMAIN live /\ live' = [live EXCEPT ![p.sid].released = FALSE]
    <3>1. PICK x \in Session : x = [live[p.sid] EXCEPT !.released = FALSE]
          BY <2>1, <1>t, SessionTyped
    <3>2. live' = [live EXCEPT ![p.sid] = x]
          BY <2>1, <3>1
    <3> QED BY <2>1, <1>t, <3>2, LiveTypes
  <2> QED BY <1>p, <1>6, <1>t, <2>1 DEF Silence, Stranded
<1>7. CASE InputApply(o)
  <2>1. o \in Procs \ Requests
        BY <1>p, <1>7, <1>k DEF InputApply, At, Running, AtRest
  <2> QED BY <1>p, <1>7, <1>t, <2>1, TombstoneLive DEF InputApply
<1>8. CASE InputStore(o)
  <2>1. CASE p.sid \in DOMAIN live /\ live' = [live EXCEPT ![p.sid].input = p.on]
    <3>1. PICK x \in Session : x = [live[p.sid] EXCEPT !.input = p.on]
          BY <2>1, <1>t, <1>k, SessionTyped
    <3>2. live' = [live EXCEPT ![p.sid] = x]
          BY <2>1, <3>1
    <3> QED BY <2>1, <1>t, <3>2, LiveTypes
  <2> QED BY <1>p, <1>8, <1>t, <2>1 DEF InputStore, Usable
<1> QED BY <1>t, <1>1, <1>2, <1>3, <1>4, <1>5, <1>6, <1>7, <1>8, LiveSteps

(* A step keeps the captures well typed. *)
LEMMA CapturesStay ==
  ASSUME TypeInv, NEW o \in Procs, Step(o)
  PROVE  /\ native' \in [Handles -> {"none", "running", "ended", "stopped"}]
         /\ nativeIn' \subseteq Handles /\ pendingRet' \subseteq Handles
<1>p. PICK p : p = op[o]
      OBVIOUS
<1>t. /\ p \in OpRec /\ Shape(o, p) /\ DataInv
      /\ native \in [Handles -> {"none", "running", "ended", "stopped"}]
      /\ nativeIn \subseteq Handles /\ pendingRet \subseteq Handles
      BY <1>p DEF TypeInv, TasksInv, DataInv
<1>s. \A h \in Handles : Stopped(h) \/ StopFails(h)
        => /\ native' \in [Handles -> {"none", "running", "ended", "stopped"}]
           /\ nativeIn' \subseteq Handles /\ pendingRet' \subseteq Handles
      BY <1>t DEF Stopped, StopFails
<1>r. \A s, h : Retires(s, h) => UNCHANGED captures \/ Stopped(h)
      BY DEF Retires
<1>1. CASE UNCHANGED captures
      BY <1>1, <1>t DEF captures
<1>2. CASE Targets(o)
  <2>1. p.pc = "targets" => p.set \subseteq TargetRec
        BY <1>t DEF Shape, StartShape, ReconfigureShape, CallShape, Calls, InTargets, Running, AtRest,
           ReconfigurePcs, OpRec, Kinds
  <2>2. \A t \in TargetRec : t.h \in Handles
        BY DEF TargetRec
  <2>3. CASE \E t \in p.set : Retires(t.sid, t.h) \/ StopFails(t.h)
        BY <1>p, <1>2, <1>1, <1>s, <1>r, <2>1, <2>2, <2>3 DEF Targets
  <2>4. CASE UNCHANGED captures
        BY <2>4, <1>1
  <2> QED BY <1>p, <1>2, <2>3, <2>4 DEF Targets, captures
<1>3. CASE Discard(o)
  <2>1. p.h \in Handles
        BY <1>p, <1>3, <1>t, OwnHandles DEF Discard, Shape, Running, AtRest, Calls, CallShape, InTargets, StartShape,
           ReconfigureShape
  <2> QED BY <1>p, <1>3, <1>t, <1>s, <2>1 DEF Discard, Discarded, Stranded
<1>4. CASE Backend(o)
  <2>1. p.pc = "backend"
        BY <1>p, <1>4 DEF Backend
  <2>2. o \in Requests
        BY <2>1, <1>t DEF Shape, Running, AtRest, Calls, CallShape
  <2>3. (IF p.old THEN 2 * o - 1 ELSE 2 * o) \in Handles
        BY <2>2, <1>t, OwnHandles DEF OwnHandle
  <2> QED BY <1>p, <1>4, <1>t, <2>3 DEF Backend
<1>5. CASE RetireOld(o)
  <2>1. p.base \in Handles
        BY <1>p, <1>5, <1>t DEF RetireOld, At, Shape, ReconfigureShape, Running, AtRest
  <2> QED BY <1>p, <1>5, <1>s, <2>1 DEF RetireOld
<1>6. CASE Silence(o) \/ SweepRetire(o)
  <2>1. p.h \in Handles
        BY <1>p, <1>6, <1>t DEF Silence, SweepRetire, At, Shape, CallShape, Running, AtRest, Calls
  <2> QED BY <1>p, <1>6, <1>1, <1>t, <1>r, <1>s, <2>1 DEF Silence, Stranded, SweepRetire
<1>7. CASE Enable(o) \/ ApplyInput(o) \/ InputApply(o)
  <2>1. p.h # 0 => p.h \in Handles
        BY <1>p, <1>7, <1>t, OwnHandles DEF Enable, ApplyInput, InputApply, At, Shape, CallShape, StartShape,
           ReconfigureShape, Running, AtRest, Calls
  <2>2. CASE Enable(o) \/ InputApply(o)
    <3>1. p.h \in Handles
          BY <1>p, <2>2, <1>t, OwnHandles DEF Enable, InputApply, At, Shape, CallShape, StartShape, Running, AtRest, Calls
    <3> QED BY <1>p, <2>2, <1>t, <3>1 DEF Enable, InputApply, SetInput
  <2>3. CASE ApplyInput(o)
        BY <1>p, <2>3, <1>t, <2>1 DEF ApplyInput, SetInput, CarriesInput
  <2> QED BY <1>7, <2>2, <2>3
<1>8. CASE DisableOthers(o)
      BY <1>8, <1>t DEF DisableOthers, SetInput
<1> QED BY <1>1, <1>2, <1>3, <1>4, <1>5, <1>6, <1>7, <1>8, <1>t, CaptureSteps

(* A step keeps the guards, the fences and the policy well typed. *)
LEMMA GuardsStay ==
  ASSUME TypeInv, NEW o \in Procs, Step(o)
  PROVE  /\ active' \subseteq Requests /\ busySess' \subseteq Requests /\ fenced' \subseteq Requests
         /\ retired' \in [Requests -> 0..2 * MaxRequests]
         /\ inputLock' \in 0..MaxRequests + MaxCalls
         /\ phys' \in [Endpoints -> 0..MaxRequests]
         /\ policy' \in [paired : BOOLEAN, denied : BOOLEAN]
<1>p. PICK p : p = op[o]
      OBVIOUS
<1>t. /\ p \in OpRec /\ Shape(o, p) /\ DataInv
      BY <1>p DEF TypeInv, TasksInv, DataInv
<1>d. /\ active \subseteq Requests /\ busySess \subseteq Requests /\ fenced \subseteq Requests
      /\ retired \in [Requests -> 0..2 * MaxRequests]
      /\ inputLock \in 0..MaxRequests + MaxCalls
      /\ phys \in [Endpoints -> 0..MaxRequests]
      /\ policy \in [paired : BOOLEAN, denied : BOOLEAN]
      /\ DOMAIN live \subseteq Requests /\ MaxRequests \in Nat /\ MaxCalls \in Nat
      BY <1>t DEF DataInv
<1>1. active' \subseteq Requests /\ busySess' \subseteq Requests
      BY <1>d, GuardSteps DEF End
<1>2. fenced' \subseteq Requests
  <2>1. CASE StartEnter(o) \/ Collect(o)
        BY <2>1, <1>d DEF StartEnter, Collect, Stale
  <2>2. CASE InputApply(o)
    <3>1. p.sid \in Requests
          BY <1>p, <2>2, <1>t DEF InputApply, At, Shape, CallShape, Running, AtRest, Calls
    <3> QED BY <1>p, <2>2, <1>d, <3>1 DEF InputApply, Tombstone
  <2> QED BY <1>d, <2>1, <2>2, GuardSteps
<1>3. retired' \in [Requests -> 0..2 * MaxRequests]
  <2>1. CASE End(o) \/ Commit(o)
        BY <2>1, <1>d, SMTT(20) DEF End, Commit
  <2>2. CASE RetireOld(o)
    <3>1. p.base \in 0..2 * MaxRequests
          BY <1>p, <1>t DEF OpRec, HandleNumbers
    <3> QED BY <1>p, <2>2, <1>d, <3>1 DEF RetireOld
  <2> QED BY <1>d, <2>1, <2>2, GuardSteps
<1>4. inputLock' \in 0..MaxRequests + MaxCalls
  <2>1. o \in 0..MaxRequests + MaxCalls /\ 0 \in 0..MaxRequests + MaxCalls
        BY <1>d DEF Procs
  <2> QED BY <1>d, <2>1, GuardSteps DEF End, ApplyInput
<1>5. phys' \in [Endpoints -> 0..MaxRequests]
  <2>1. CASE CleanupDo(o) \/ LeaveSetup(o)
        BY <2>1, <1>d DEF CleanupDo, LeaveSetup
  <2>2. CASE Prepare(o)
    <3>1. o \in 0..MaxRequests
          BY <1>p, <2>2, <1>t, <1>d DEF Prepare, Shape, Running, AtRest, Calls, CallShape, Requests
    <3> QED BY <2>2, <1>d, <3>1 DEF Prepare
  <2> QED BY <1>d, <2>1, <2>2, GuardSteps
<1>6. policy' \in [paired : BOOLEAN, denied : BOOLEAN]
      BY <1>d, GuardSteps DEF InputStore
<1> QED BY <1>1, <1>2, <1>3, <1>4, <1>5, <1>6

(* Every step of a task is one of its actions, and acts for it alone. *)
LEMMA StepActs ==
  ASSUME TypeInv, NEW o \in Procs, Step(o)
  PROVE  Acts(o)
BY CleanupBeginActs, CleanupDoActs, PrepareActs, LeaveSetupActs, DiscardActs, BackendActs, FirstFrameActs,
   SetupFailedActs, ClaimActs, StartEnterActs, PolicyActs, RegisterActs, EnableActs, FlagEnabledActs,
   DisplaceActs, DisableOthersActs, CheckCurrentActs, ReconfigureEnterActs, RetireOldActs, ApplyInputActs,
   CommitActs, SilenceActs, SweepRetireActs, SweepRemoveActs, CollectActs, InputApplyActs, InputStoreActs,
   TargetsActs, EndActs DEF Step, Steps

(* A step of a task keeps the types. *)
LEMMA StepTypes ==
  ASSUME TypeInv, NEW o \in Procs, Step(o)
  PROVE  TypeInv'
<1>1. TasksInv'
      BY StepActs, ActsKeepsTasks DEF TypeInv
<1>2. MaxRequests \in Nat /\ MaxCalls \in Nat
      BY DEF TypeInv, DataInv
<1>3. DataInv'
      BY <1>2, EntryStays, LiveStays, CapturesStay, GuardsStay DEF DataInv
<1> QED BY <1>1, <1>3 DEF TypeInv

(* StartBegin keeps the types. *)
LEMMA StartBeginTypes ==
  ASSUME TypeInv, NEW o \in Requests, NEW e \in Endpoints, StartBegin(o, e)
  PROVE  TypeInv'
<1>1. TasksInv'
      BY StartBeginStarts, StartsKeepsTasks DEF TypeInv
<1>2. DataInv'
      BY DEF TypeInv, DataInv, StartBegin, captures, guards
<1> QED BY <1>1, <1>2 DEF TypeInv

(* ReconfigureBegin keeps the types. *)
LEMMA ReconfigureBeginTypes ==
  ASSUME TypeInv, NEW o \in Requests, NEW s \in DOMAIN live, NEW moved \in BOOLEAN, ReconfigureBegin(o, s, moved)
  PROVE  TypeInv'
<1>1. TasksInv'
      BY ReconfigureBeginStarts, StartsKeepsTasks DEF TypeInv
<1>2. DOMAIN live' \subseteq Requests /\ live' \in [DOMAIN live' -> Session]
  <2>1. PICK x \in Session : x = [live[s] EXCEPT !.rev = @ + 1]
        BY SessionTyped DEF TypeInv
  <2>2. live' = [live EXCEPT ![s] = x]
        BY <2>1 DEF ReconfigureBegin
  <2> QED BY <2>2, LiveTypes DEF TypeInv
<1>3. DataInv'
      BY <1>2 DEF TypeInv, DataInv, ReconfigureBegin, captures
<1> QED BY <1>1, <1>3 DEF TypeInv

(* A stop, a forced stop or a sweep that begins keeps the types. *)
LEMMA EndingsTypes ==
  ASSUME TypeInv, NEW o \in Procs \ Requests, NEW s \in DOMAIN live,
         StopStream(o, s) \/ ForceStop(o, s) \/ Sweep(o, s)
  PROVE  TypeInv'
<1>1. TasksInv'
      BY StopStreamStarts, ForceStopStarts, SweepStarts, StartsKeepsTasks DEF TypeInv
<1>2. s \in Requests /\ DataInv
      BY DEF TypeInv, DataInv
<1>3. CASE StopStream(o, s)
  <2>1. DOMAIN live' \subseteq Requests /\ live' \in [DOMAIN live' -> Session]
        BY <1>2, <1>3, LiveTypes DEF StopStream
  <2>2. DataInv'
        BY <1>2, <1>3, <2>1 DEF DataInv, StopStream, books, captures, guards
  <2> QED BY <1>1, <2>2 DEF TypeInv
<1>4. CASE ForceStop(o, s)
  <2>1. DOMAIN live' \subseteq Requests /\ live' \in [DOMAIN live' -> Session]
        BY <1>4, TombstoneLive DEF ForceStop
  <2>2. DataInv'
        BY <1>2, <1>4, <2>1 DEF DataInv, ForceStop, Tombstone, books, captures, guards
  <2> QED BY <1>1, <2>2 DEF TypeInv
<1>5. CASE Sweep(o, s)
  <2>1. DataInv'
        BY <1>2, <1>5 DEF DataInv, Sweep, books, captures, guards
  <2> QED BY <1>1, <2>1 DEF TypeInv
<1> QED BY <1>3, <1>4, <1>5

(* Revoke keeps the types. *)
LEMMA RevokeTypes ==
  ASSUME TypeInv, NEW o \in Procs \ Requests, Revoke(o)
  PROVE  TypeInv'
<1>1. TasksInv'
      BY RevokeStarts, StartsKeepsTasks DEF TypeInv
<1>2. policy' \in [paired : BOOLEAN, denied : BOOLEAN]
      BY DEF TypeInv, DataInv, Revoke
<1>3. DataInv'
      BY <1>2 DEF TypeInv, DataInv, Revoke, books, captures, guards
<1> QED BY <1>1, <1>3 DEF TypeInv

(* InputCall keeps the types. *)
LEMMA InputCallTypes ==
  ASSUME TypeInv, NEW o \in Procs \ Requests, NEW s \in DOMAIN live, NEW on \in BOOLEAN, InputCall(o, s, on)
  PROVE  TypeInv'
<1>1. TasksInv'
      BY InputCallStarts, StartsKeepsTasks DEF TypeInv
<1>2. DOMAIN live' \subseteq Requests /\ live' \in [DOMAIN live' -> Session]
  <2>0. (live[s].input /\ on) \in BOOLEAN
        OBVIOUS
  <2>1. PICK x \in Session : x = [live[s] EXCEPT !.input = @ /\ on]
        BY <2>0, SessionTyped DEF TypeInv
  <2>2. live' = [live EXCEPT ![s] = x]
        BY <2>1 DEF InputCall
  <2> QED BY <2>2, LiveTypes DEF TypeInv
<1>3. inputLock' \in 0..MaxRequests + MaxCalls
      BY DEF TypeInv, DataInv, InputCall, Procs
<1>4. DataInv'
      BY <1>2, <1>3 DEF TypeInv, DataInv, InputCall, books, captures
<1> QED BY <1>1, <1>4 DEF TypeInv

(* A capture that ends by itself keeps the types. *)
LEMMA CaptureEndsTypes ==
  ASSUME TypeInv, NEW h \in Handles, CaptureEnds(h)
  PROVE  TypeInv'
<1>1. TasksInv'
      BY DEF TypeInv, TasksInv, CaptureEnds
<1>2. DataInv'
      BY DEF TypeInv, DataInv, CaptureEnds, books, guards
<1> QED BY <1>1, <1>2 DEF TypeInv

(* A step is that of a task, or one that begins a task, or the end of a capture. *)
LEMMA NextSteps ==
  ASSUME Next
  PROVE  \/ \E o \in Procs : Step(o)
         \/ UNCHANGED past /\ \E o \in Requests, e \in Endpoints : StartBegin(o, e)
         \/ UNCHANGED past /\ \E o \in Requests, s \in DOMAIN live, moved \in BOOLEAN : ReconfigureBegin(o, s, moved)
         \/ UNCHANGED past /\ \E o \in Procs \ Requests, s \in DOMAIN live :
              StopStream(o, s) \/ ForceStop(o, s) \/ Sweep(o, s)
         \/ UNCHANGED past /\ \E o \in Procs \ Requests : Revoke(o)
         \/ UNCHANGED past /\ \E h \in Handles : CaptureEnds(h)
         \/ \E o \in Procs \ Requests, s \in DOMAIN live, on \in BOOLEAN : InputCall(o, s, on)
BY DEF Next, Begins

(* Every step keeps the types. *)
LEMMA TypeStep ==
  ASSUME TypeInv, [Next]_vars
  PROVE  TypeInv'
<1>1. CASE UNCHANGED vars
      BY <1>1 DEF vars, TypeInv, DataInv, TasksInv
<1>2. CASE Next
      BY <1>2, NextSteps, StepTypes, StartBeginTypes, ReconfigureBeginTypes, EndingsTypes, RevokeTypes,
         InputCallTypes, CaptureEndsTypes
<1> QED BY <1>1, <1>2

(* The types hold at first. *)
LEMMA TypeInit ==
  ASSUME MaxRequests \in Nat, MaxCalls \in Nat, Init
  PROVE  TypeInv
<1>1. DataInv
  <2>1. FreshEntry \in Entry
        BY DEF FreshEntry, Entry
  <2>2. DOMAIN live = {} /\ live \in [DOMAIN live -> Session]
        BY DEF Init
  <2> QED BY <2>1, <2>2 DEF Init, DataInv
<1>2. IdleOp \in OpRec /\ IdleOp.pc = "idle" /\ IdleOp.kind = "none" /\ IdleOp.own = 0 /\ ~IdleOp.old
      BY DEF IdleOp, OpRec, Kinds, Pcs, Places, Numbers, HandleNumbers, Collections
<1>3. \A o \in Procs : op[o] = IdleOp
      BY DEF Init
<1>4. \A o \in Procs : Shape(o, op[o])
      BY <1>2, <1>3 DEF Shape, Running, AtRest
<1>5. \A o \in Requests : op[o].pc # "idle" <=> o <= 0
      BY <1>1, <1>2, <1>3, RequestsAreProcs DEF Requests
<1> QED BY <1>1, <1>2, <1>4, <1>5 DEF Init, TypeInv, TasksInv

(* Every state is one the module's types describe. *)
THEOREM TypeCorrect ==
  ASSUME MaxRequests \in Nat, MaxCalls \in Nat
  PROVE  Spec => []TypeInv
<1>1. Init => TypeInv
      BY TypeInit
<1>2. TypeInv /\ [Next]_vars => TypeInv'
      BY TypeStep
<1> QED BY <1>1, <1>2, PTL DEF Spec

-----------------------------------------------------------------------------
(***************************************************************************)
(* A superseded session is never brought back.                             *)
(***************************************************************************)

(* Only a registration adds a session, and only a publication gives one another capture or owner. *)
LEMMA SessionsKept ==
  ASSUME TypeInv, NEW o \in Procs, Step(o), ~Register(o), ~Commit(o)
  PROVE  /\ DOMAIN live' \subseteq DOMAIN live
         /\ \A s \in DOMAIN live' : /\ live'[s].handle = live[s].handle /\ live'[s].ep = live[s].ep
                                    /\ live'[s].owner = live[s].owner
<1>t. live \in [DOMAIN live -> Session]
      BY DEF TypeInv, DataInv
<1>1. CASE live' = live
      BY <1>1
<1>2. CASE StartEnter(o) \/ SweepRemove(o) \/ Collect(o)
      BY <1>2 DEF StartEnter, SweepRemove, Collect, Drop
<1>3. CASE FlagEnabled(o) \/ Silence(o) \/ InputStore(o)
      BY <1>3, <1>t DEF FlagEnabled, Silence, InputStore, Session
<1>4. CASE Displace(o)
  <2>1. \A s \in DOMAIN live : LET x == [live[s] EXCEPT !.input = @ /\ s \notin Displaced(o)] IN
          x.handle = live[s].handle /\ x.ep = live[s].ep /\ x.owner = live[s].owner
        BY <1>t DEF Session
  <2>2. DOMAIN live' = DOMAIN live /\ \A s \in DOMAIN live : live'[s] = [live[s] EXCEPT !.input = @ /\ s \notin Displaced(o)]
        BY <1>4 DEF Displace
  <2> QED BY <2>1, <2>2
<1>5. CASE InputApply(o)
      BY <1>5, <1>t DEF InputApply, Tombstone, Session
<1> QED BY <1>1, <1>2, <1>3, <1>4, <1>5, LiveSteps

(* A task that begins gives no session another capture, place or owner. *)
LEMMA BeginsKeepSessions ==
  ASSUME TypeInv,
         Begins \/ (\E o \in Procs \ Requests, s \in DOMAIN live, on \in BOOLEAN : InputCall(o, s, on))
  PROVE  /\ DOMAIN live' \subseteq DOMAIN live
         /\ \A s \in DOMAIN live' : /\ live'[s].handle = live[s].handle /\ live'[s].ep = live[s].ep
                                    /\ live'[s].owner = live[s].owner
<1>t. live \in [DOMAIN live -> Session]
      BY DEF TypeInv, DataInv
<1> DEFINE Kept == /\ DOMAIN live' \subseteq DOMAIN live
                   /\ \A s \in DOMAIN live' : /\ live'[s].handle = live[s].handle /\ live'[s].ep = live[s].ep
                                              /\ live'[s].owner = live[s].owner
<1>0. CASE live' = live
      BY <1>0
<1>1. ASSUME NEW o \in Requests, NEW e \in Endpoints, StartBegin(o, e) PROVE Kept
      BY <1>0, <1>1 DEF StartBegin
<1>2. ASSUME NEW o \in Requests, NEW s \in DOMAIN live, NEW moved \in BOOLEAN, ReconfigureBegin(o, s, moved)
      PROVE  Kept
      BY <1>2, <1>t DEF ReconfigureBegin, Session
<1>3. ASSUME NEW o \in Procs \ Requests, NEW s \in DOMAIN live, StopStream(o, s) PROVE Kept
      BY <1>3 DEF StopStream, Drop
<1>4. ASSUME NEW o \in Procs \ Requests, NEW s \in DOMAIN live, ForceStop(o, s) PROVE Kept
      BY <1>4, <1>t DEF ForceStop, Tombstone, Session
<1>5. ASSUME NEW o \in Procs \ Requests, NEW s \in DOMAIN live, Sweep(o, s) PROVE Kept
      BY <1>5, <1>0 DEF Sweep
<1>6. ASSUME NEW o \in Procs \ Requests, Revoke(o) PROVE Kept
      BY <1>6, <1>0 DEF Revoke
<1>7. ASSUME NEW h \in Handles, CaptureEnds(h) PROVE Kept
      BY <1>7, <1>0 DEF CaptureEnds
<1>8. ASSUME NEW o \in Procs \ Requests, NEW s \in DOMAIN live, NEW on \in BOOLEAN, InputCall(o, s, on)
      PROVE Kept
  <2>1. PICK b \in BOOLEAN : b = (live[s].input /\ on)
        OBVIOUS
  <2>2. live' = [live EXCEPT ![s].input = b]
        BY <1>8, <2>1 DEF InputCall
  <2> QED BY <1>t, <2>2 DEF Session
<1> QED BY <1>1, <1>2, <1>3, <1>4, <1>5, <1>6, <1>7, <1>8 DEF Begins

(* A stopped or superseded session is never brought back: what a step publishes is  *)
(* for a session whose lease is still good (control.rs:2268-2305).                  *)
THEOREM NothingIsRevived ==
  ASSUME MaxRequests \in Nat, MaxCalls \in Nat
  PROVE  Spec => NoRevival
<1> DEFINE Publishes ==
      \A s \in DOMAIN live' :
        live'[s].handle # 0 /\ (s \notin DOMAIN live \/ live'[s].handle # live[s].handle)
          => s \notin fenced /\ policy.paired
<1>1. ASSUME TypeInv, NEW o \in Procs, Step(o) PROVE Publishes
  <2>t. live \in [DOMAIN live -> Session]
        BY <1>1 DEF TypeInv, DataInv
  <2>1. CASE Register(o)
        BY <2>t, <2>1 DEF Register, MayRegister, LeaseCurrent
  <2>2. CASE Commit(o)
        BY <2>t, <2>2 DEF Commit, Current, LeaseCurrent, Session
  <2>3. CASE ~Register(o) /\ ~Commit(o)
        BY <1>1, <2>3, SessionsKept
  <2> QED BY <2>1, <2>2, <2>3
<1>2. TypeInv /\ [Next]_vars => [Publishes]_vars
  <2>1. ASSUME TypeInv, Next PROVE Publishes
        BY <2>1, <1>1, BeginsKeepSessions DEF Next
  <2> QED BY <2>1
<1>3. Spec => []TypeInv
      BY TypeCorrect
<1>4. [][Publishes]_vars => NoRevival
      BY PTL DEF NoRevival
<1> QED BY <1>2, <1>3, <1>4, PTL DEF Spec

(* The step at which each action is taken. *)
LEMMA ActionPcs ==
  ASSUME NEW o \in Procs
  PROVE  LET p == op[o] IN
         /\ CleanupBegin(o) => p.pc = "cleanup"
         /\ CleanupDo(o) => p.pc = "cleaning"
         /\ Prepare(o) => p.pc = "prepare"
         /\ LeaveSetup(o) => p.pc = "leave"
         /\ Discard(o) => p.pc = "discard"
         /\ Backend(o) => p.pc = "backend"
         /\ FirstFrame(o) => p.pc = "frame"
         /\ SetupFailed(o) => p.pc = "failed"
         /\ Claim(o) => p.pc = "claim"
         /\ StartEnter(o) => p.kind = "start" /\ p.pc = "enter"
         /\ Policy(o) => p.kind = "start" /\ p.pc = "policy"
         /\ Register(o) => p.kind = "start" /\ p.pc = "register"
         /\ Enable(o) => p.kind = "start" /\ p.pc = "enable"
         /\ FlagEnabled(o) => p.kind = "start" /\ p.pc = "flag"
         /\ Displace(o) => p.kind = "start" /\ p.pc = "displace"
         /\ DisableOthers(o) => p.kind = "start" /\ p.pc = "disable"
         /\ CheckCurrent(o) => p.kind = "reconfigure" /\ p.pc \in {"current", "restore"}
         /\ ReconfigureEnter(o) => p.kind = "reconfigure" /\ p.pc = "enter"
         /\ RetireOld(o) => p.kind = "reconfigure" /\ p.pc = "retire"
         /\ ApplyInput(o) => p.kind = "reconfigure" /\ p.pc = "input"
         /\ Commit(o) => p.kind = "reconfigure" /\ p.pc = "commit"
         /\ Silence(o) => p.kind = "force" /\ p.pc = "silence"
         /\ SweepRetire(o) => p.kind = "sweep" /\ p.pc = "retire"
         /\ SweepRemove(o) => p.kind = "sweep" /\ p.pc = "remove"
         /\ Collect(o) => p.kind = "revoke" /\ p.pc = "collect"
         /\ InputApply(o) => p.kind = "input" /\ p.pc = "apply"
         /\ InputStore(o) => p.kind = "input" /\ p.pc = "store"
         /\ Targets(o) => p.pc = "targets"
         /\ End(o) => p.pc = "end"
BY DEF CleanupBegin, CleanupDo, Prepare, LeaveSetup, Discard, Backend, FirstFrame, SetupFailed, Claim,
   StartEnter, Policy, Register, Enable, FlagEnabled, Displace, DisableOthers, CheckCurrent,
   ReconfigureEnter, RetireOld, ApplyInput, Commit, Silence, SweepRetire, SweepRemove, Collect, InputApply,
   InputStore, Targets, End, At

(* From which step to which each action goes. *)
Moves(o) ==
  LET p == op[o]  next == op'[o].pc IN
  \/ CleanupBegin(o) /\ p.pc = "cleanup" /\ next \in {"cleaning", p.then}
  \/ CleanupDo(o) /\ p.pc = "cleaning" /\ next = p.then
  \/ Prepare(o) /\ p.pc = "prepare" /\ next = "leave"
  \/ LeaveSetup(o) /\ p.pc = "leave" /\ next = p.then
  \/ Discard(o) /\ p.pc = "discard" /\ next \in {"input", "cleanup"}
  \/ Backend(o) /\ p.pc = "backend" /\ next \in {"frame", "input", "cleanup"}
  \/ FirstFrame(o) /\ p.pc = "frame" /\ next \in {"policy", "input", "discard"}
  \/ SetupFailed(o) /\ p.pc = "failed" /\ next \in {"input", "end", "restore"}
  \/ Claim(o) /\ p.pc = "claim" /\ next \in {"enter", "current", "end"}
  \/ StartEnter(o) /\ p.kind = "start" /\ p.pc = "enter" /\ next \in {"targets", "end"}
  \/ Policy(o) /\ p.kind = "start" /\ p.pc = "policy" /\ next \in {"register", "discard"}
  \/ Register(o) /\ p.kind = "start" /\ p.pc = "register" /\ next \in {"enable", "end", "discard"}
  \/ Enable(o) /\ p.kind = "start" /\ p.pc = "enable" /\ next \in {"flag", "end"}
  \/ FlagEnabled(o) /\ p.kind = "start" /\ p.pc = "flag" /\ next \in {"displace", "end"}
  \/ Displace(o) /\ p.kind = "start" /\ p.pc = "displace" /\ next = "disable"
  \/ DisableOthers(o) /\ p.kind = "start" /\ p.pc = "disable" /\ next \in {"disable", "end"}
  \/ CheckCurrent(o) /\ p.kind = "reconfigure" /\ p.pc \in {"current", "restore"} /\ next \in {"enter", "end"}
  \/ ReconfigureEnter(o) /\ p.kind = "reconfigure" /\ p.pc = "enter" /\ next \in {"prepare", "retire", "input", "end"}
  \/ RetireOld(o) /\ p.kind = "reconfigure" /\ p.pc = "retire" /\ next \in {"prepare", "leave"}
  \/ ApplyInput(o) /\ p.kind = "reconfigure" /\ p.pc = "input" /\ next = "commit"
  \/ Commit(o) /\ p.kind = "reconfigure" /\ p.pc = "commit" /\ next \in {"end", "cleanup", "discard"}
  \/ Silence(o) /\ p.kind = "force" /\ p.pc = "silence" /\ next = "cleanup"
  \/ SweepRetire(o) /\ p.kind = "sweep" /\ p.pc = "retire" /\ next \in {"remove", "end"}
  \/ SweepRemove(o) /\ p.kind = "sweep" /\ p.pc = "remove" /\ next \in {"cleanup", "end"}
  \/ Collect(o) /\ p.kind = "revoke" /\ p.pc = "collect" /\ next = "targets"
  \/ InputApply(o) /\ p.kind = "input" /\ p.pc = "apply" /\ next \in {"store", "end", "silence"}
  \/ InputStore(o) /\ p.kind = "input" /\ p.pc = "store" /\ next = "end"
  \/ Targets(o) /\ p.pc = "targets" /\ next \in {"prepare", "end", "cleanup"}
  \/ End(o) /\ p.pc = "end" /\ next = "done"

(* Each step of a task is one of the moves. *)
LEMMA StepMoves ==
  ASSUME TypeInv, NEW o \in Procs, Step(o)
  PROVE  Moves(o)
<1>p. PICK p : p = op[o]
      OBVIOUS
<1>t. p \in OpRec /\ op \in [Procs -> OpRec]
      BY <1>p DEF TypeInv, TasksInv
<1>d. p = [f \in DOMAIN p |-> p[f]] /\ DOMAIN p = {"kind", "pc", "ep", "sid", "h", "base", "rev", "own", "set", "on", "old", "then"}
      BY <1>t DEF OpRec
<1>1. CleanupBegin(o) => op[o].pc = "cleanup" /\ op'[o].pc \in {"cleaning", op[o].then}
      BY <1>p, <1>t, <1>d DEF CleanupBegin, Go
<1>2. CleanupDo(o) => op[o].pc = "cleaning" /\ op'[o].pc = op[o].then
      BY <1>p, <1>t, <1>d DEF CleanupDo, Go
<1>3. Prepare(o) => op[o].pc = "prepare" /\ op'[o].pc = "leave"
      BY <1>p, <1>t, <1>d DEF Prepare
<1>4. LeaveSetup(o) => op[o].pc = "leave" /\ op'[o].pc = op[o].then
      BY <1>p, <1>t, <1>d DEF LeaveSetup, Go
<1>5. Discard(o) => op[o].pc = "discard" /\ op'[o].pc \in {"input", "cleanup"}
      BY <1>p, <1>t, <1>d DEF Discard, GoCleanup
<1>6. Backend(o) => op[o].pc = "backend" /\ op'[o].pc \in {"frame", "input", "cleanup"}
      BY <1>p, <1>t, <1>d DEF Backend, GoCleanup
<1>7. FirstFrame(o) => op[o].pc = "frame" /\ op'[o].pc \in {"policy", "input", "discard"}
      BY <1>p, <1>t, <1>d DEF FirstFrame, Go, GoDiscard
<1>8. SetupFailed(o) => op[o].pc = "failed" /\ op'[o].pc \in {"input", "end", "restore"}
      BY <1>p, <1>t, <1>d DEF SetupFailed, Go, AfterFailure
<1>9. Claim(o) => op[o].pc = "claim" /\ op'[o].pc \in {"enter", "current", "end"}
      BY <1>p, <1>t, <1>d DEF Claim, Go
<1>10. StartEnter(o) => op[o].kind = "start" /\ op[o].pc = "enter" /\ op'[o].pc \in {"targets", "end"}
      BY <1>p, <1>t, <1>d DEF StartEnter, Go, At
<1>11. Policy(o) => op[o].kind = "start" /\ op[o].pc = "policy" /\ op'[o].pc \in {"register", "discard"}
      BY <1>p, <1>t, <1>d DEF Policy, GoDiscard, At
<1>12. Register(o) => op[o].kind = "start" /\ op[o].pc = "register" /\ op'[o].pc \in {"enable", "end", "discard"}
      BY <1>p, <1>t, <1>d DEF Register, Go, GoDiscard, At
<1>13. Enable(o) => op[o].kind = "start" /\ op[o].pc = "enable" /\ op'[o].pc \in {"flag", "end"}
  <2>1. Enable(o) => At(o, "start", "enable") /\ (Go(o, "flag") \/ Go(o, "end"))
        BY DEF Enable
  <2> QED BY <1>p, <1>t, <1>d, <2>1 DEF Go, At
<1>14. FlagEnabled(o) => op[o].kind = "start" /\ op[o].pc = "flag" /\ op'[o].pc \in {"displace", "end"}
      BY <1>p, <1>t, <1>d DEF FlagEnabled, Go, At
<1>15. Displace(o) => op[o].kind = "start" /\ op[o].pc = "displace" /\ op'[o].pc = "disable"
      BY <1>p, <1>t, <1>d DEF Displace, At
<1>16. DisableOthers(o) => op[o].kind = "start" /\ op[o].pc = "disable" /\ op'[o].pc \in {"disable", "end"}
  <2>1. DisableOthers(o) => /\ At(o, "start", "disable")
                            /\ Go(o, "end") \/ \E h \in op[o].set : op' = [op EXCEPT ![o].set = @ \ {h}]
        BY DEF DisableOthers
  <2> QED BY <1>p, <1>t, <1>d, <2>1 DEF Go, At
<1>17. CheckCurrent(o) => op[o].kind = "reconfigure" /\ op[o].pc \in {"current", "restore"} /\ op'[o].pc \in {"enter", "end"}
      BY <1>p, <1>t, <1>d DEF CheckCurrent, Go
<1>18. ReconfigureEnter(o) => op[o].kind = "reconfigure" /\ op[o].pc = "enter" /\ op'[o].pc \in {"prepare", "retire", "input", "end"}
      BY <1>p, <1>t, <1>d DEF ReconfigureEnter, Go, At
<1>19. RetireOld(o) => op[o].kind = "reconfigure" /\ op[o].pc = "retire" /\ op'[o].pc \in {"prepare", "leave"}
      BY <1>p, <1>t, <1>d DEF RetireOld, Go, At
<1>20. ApplyInput(o) => op[o].kind = "reconfigure" /\ op[o].pc = "input" /\ op'[o].pc = "commit"
  <2>1. ApplyInput(o) => /\ At(o, "reconfigure", "input")
                          /\ \/ op' = [op EXCEPT ![o].pc = "commit", ![o].on = TRUE]
                             \/ op' = [op EXCEPT ![o].pc = "commit", ![o].on = FALSE]
        BY DEF ApplyInput
  <2> QED BY <1>p, <1>t, <1>d, <2>1 DEF At
<1>21. Commit(o) => op[o].kind = "reconfigure" /\ op[o].pc = "commit" /\ op'[o].pc \in {"end", "cleanup", "discard"}
      BY <1>p, <1>t, <1>d DEF Commit, Go, GoCleanup, GoDiscard, At
<1>22. Silence(o) => op[o].kind = "force" /\ op[o].pc = "silence" /\ op'[o].pc = "cleanup"
      BY <1>p, <1>t, <1>d DEF Silence, GoCleanup, At
<1>23. SweepRetire(o) => op[o].kind = "sweep" /\ op[o].pc = "retire" /\ op'[o].pc \in {"remove", "end"}
      BY <1>p, <1>t, <1>d DEF SweepRetire, Go, At
<1>24. SweepRemove(o) => op[o].kind = "sweep" /\ op[o].pc = "remove" /\ op'[o].pc \in {"cleanup", "end"}
      BY <1>p, <1>t, <1>d DEF SweepRemove, Go, GoCleanup, At
<1>25. Collect(o) => op[o].kind = "revoke" /\ op[o].pc = "collect" /\ op'[o].pc = "targets"
      BY <1>p, <1>t, <1>d DEF Collect, At
<1>26. InputApply(o) => op[o].kind = "input" /\ op[o].pc = "apply" /\ op'[o].pc \in {"store", "end", "silence"}
      BY <1>p, <1>t, <1>d DEF InputApply, Go, At, Tombstone
<1>27. InputStore(o) => op[o].kind = "input" /\ op[o].pc = "store" /\ op'[o].pc = "end"
      BY <1>p, <1>t, <1>d DEF InputStore, Go, At
<1>28. Targets(o) => op[o].pc = "targets" /\ op'[o].pc \in {"prepare", "end", "cleanup"}
  <2>1. CASE op' = [op EXCEPT ![o].pc = IF p.kind = "start" THEN "prepare" ELSE "end"]
        BY <1>p, <1>t, <1>d, <2>1 DEF Targets
  <2>2. ASSUME NEW t \in p.set, NEW pc \in {"cleanup", "end"},
               op' = [op EXCEPT ![o].set = p.set \ {t}, ![o].ep = t.ep, ![o].own = t.own,
                                ![o].pc = pc, ![o].then = "targets"]
        PROVE  op'[o].pc = pc
        BY <1>p, <1>t, <1>d, <2>2
  <2> QED BY <1>p, <2>1, <2>2 DEF Targets, Go
<1>29. End(o) => op[o].pc = "end" /\ op'[o].pc = "done"
  <2>1. [IdleOp EXCEPT !.pc = "done", !.kind = p.kind].pc = "done"
        BY DEF IdleOp
  <2> QED BY <1>p, <1>t, <2>1 DEF End
<1> QED BY <1>1, <1>2, <1>3, <1>4, <1>5, <1>6, <1>7, <1>8, <1>9, <1>10, <1>11, <1>12, <1>13, <1>14, <1>15, <1>16, <1>17, <1>18, <1>19, <1>20, <1>21, <1>22, <1>23, <1>24, <1>25, <1>26, <1>27, <1>28, <1>29 DEF Step, Steps, Moves

(* Which actions write which field of a task. *)
LEMMA StepFields ==
  ASSUME TypeInv, NEW o \in Procs, Step(o)
  PROVE  LET p == op[o]  r == op'[o] IN
         /\ r.kind = p.kind \/ InputApply(o) \/ End(o)
         /\ r.ep = p.ep \/ InputApply(o) \/ Targets(o) \/ End(o)
         /\ r.sid = p.sid \/ InputApply(o) \/ End(o)
         /\ r.h = p.h \/ Discard(o) \/ Backend(o) \/ SetupFailed(o) \/ ReconfigureEnter(o) \/ InputApply(o)
                    \/ End(o)
         /\ r.base = p.base \/ End(o)
         /\ r.rev = p.rev \/ End(o)
         /\ r.own = p.own \/ Discard(o) \/ Backend(o) \/ Commit(o) \/ Silence(o) \/ SweepRemove(o)
                    \/ InputApply(o) \/ Targets(o) \/ End(o)
         /\ r.set = p.set \/ StartEnter(o) \/ Displace(o) \/ DisableOthers(o) \/ Collect(o) \/ Targets(o) \/ End(o)
         /\ r.on = p.on \/ Policy(o) \/ ApplyInput(o) \/ End(o)
         /\ r.old = p.old \/ CheckCurrent(o) \/ End(o)
         /\ r.then = p.then \/ Prepare(o) \/ Discard(o) \/ Backend(o) \/ FirstFrame(o) \/ Policy(o)
                    \/ Register(o) \/ RetireOld(o) \/ Commit(o) \/ Silence(o) \/ SweepRemove(o)
                    \/ Targets(o) \/ End(o)
<1>p. PICK p : p = op[o]
      OBVIOUS
<1>t. p \in OpRec /\ op \in [Procs -> OpRec]
      BY <1>p DEF TypeInv, TasksInv
<1>d. p = [f \in DOMAIN p |-> p[f]]
      /\ DOMAIN p = {"kind", "pc", "ep", "sid", "h", "base", "rev", "own", "set", "on", "old", "then"}
      BY <1>t DEF OpRec
<1>1. CleanupBegin(o) =>
         /\ op'[o].kind = op[o].kind /\ op'[o].ep = op[o].ep /\ op'[o].sid = op[o].sid /\ op'[o].h = op[o].h
         /\ op'[o].base = op[o].base /\ op'[o].rev = op[o].rev /\ op'[o].own = op[o].own
         /\ op'[o].set = op[o].set /\ op'[o].on = op[o].on /\ op'[o].old = op[o].old
         /\ op'[o].then = op[o].then
      BY <1>p, <1>t, <1>d DEF CleanupBegin, Go
<1>2. CleanupDo(o) =>
         /\ op'[o].kind = op[o].kind /\ op'[o].ep = op[o].ep /\ op'[o].sid = op[o].sid /\ op'[o].h = op[o].h
         /\ op'[o].base = op[o].base /\ op'[o].rev = op[o].rev /\ op'[o].own = op[o].own
         /\ op'[o].set = op[o].set /\ op'[o].on = op[o].on /\ op'[o].old = op[o].old
         /\ op'[o].then = op[o].then
      BY <1>p, <1>t, <1>d DEF CleanupDo, Go
<1>3. Prepare(o) =>
         /\ op'[o].kind = op[o].kind /\ op'[o].ep = op[o].ep /\ op'[o].sid = op[o].sid /\ op'[o].h = op[o].h
         /\ op'[o].base = op[o].base /\ op'[o].rev = op[o].rev /\ op'[o].own = op[o].own
         /\ op'[o].set = op[o].set /\ op'[o].on = op[o].on /\ op'[o].old = op[o].old
      BY <1>p, <1>t, <1>d DEF Prepare
<1>4. LeaveSetup(o) =>
         /\ op'[o].kind = op[o].kind /\ op'[o].ep = op[o].ep /\ op'[o].sid = op[o].sid /\ op'[o].h = op[o].h
         /\ op'[o].base = op[o].base /\ op'[o].rev = op[o].rev /\ op'[o].own = op[o].own
         /\ op'[o].set = op[o].set /\ op'[o].on = op[o].on /\ op'[o].old = op[o].old
         /\ op'[o].then = op[o].then
      BY <1>p, <1>t, <1>d DEF LeaveSetup, Go
<1>5. Discard(o) =>
         /\ op'[o].kind = op[o].kind /\ op'[o].ep = op[o].ep /\ op'[o].sid = op[o].sid
         /\ op'[o].base = op[o].base /\ op'[o].rev = op[o].rev /\ op'[o].set = op[o].set
         /\ op'[o].on = op[o].on /\ op'[o].old = op[o].old
      BY <1>p, <1>t, <1>d DEF Discard, GoCleanup
<1>6. Backend(o) =>
         /\ op'[o].kind = op[o].kind /\ op'[o].ep = op[o].ep /\ op'[o].sid = op[o].sid
         /\ op'[o].base = op[o].base /\ op'[o].rev = op[o].rev /\ op'[o].set = op[o].set
         /\ op'[o].on = op[o].on /\ op'[o].old = op[o].old
      BY <1>p, <1>t, <1>d DEF Backend, GoCleanup
<1>7. FirstFrame(o) =>
         /\ op'[o].kind = op[o].kind /\ op'[o].ep = op[o].ep /\ op'[o].sid = op[o].sid /\ op'[o].h = op[o].h
         /\ op'[o].base = op[o].base /\ op'[o].rev = op[o].rev /\ op'[o].own = op[o].own
         /\ op'[o].set = op[o].set /\ op'[o].on = op[o].on /\ op'[o].old = op[o].old
      BY <1>p, <1>t, <1>d DEF FirstFrame, Go, GoDiscard
<1>8. SetupFailed(o) =>
         /\ op'[o].kind = op[o].kind /\ op'[o].ep = op[o].ep /\ op'[o].sid = op[o].sid
         /\ op'[o].base = op[o].base /\ op'[o].rev = op[o].rev /\ op'[o].own = op[o].own
         /\ op'[o].set = op[o].set /\ op'[o].on = op[o].on /\ op'[o].old = op[o].old
         /\ op'[o].then = op[o].then
      BY <1>p, <1>t, <1>d DEF SetupFailed, Go, AfterFailure
<1>9. Claim(o) =>
         /\ op'[o].kind = op[o].kind /\ op'[o].ep = op[o].ep /\ op'[o].sid = op[o].sid /\ op'[o].h = op[o].h
         /\ op'[o].base = op[o].base /\ op'[o].rev = op[o].rev /\ op'[o].own = op[o].own
         /\ op'[o].set = op[o].set /\ op'[o].on = op[o].on /\ op'[o].old = op[o].old
         /\ op'[o].then = op[o].then
      BY <1>p, <1>t, <1>d DEF Claim, Go
<1>10. StartEnter(o) =>
         /\ op'[o].kind = op[o].kind /\ op'[o].ep = op[o].ep /\ op'[o].sid = op[o].sid /\ op'[o].h = op[o].h
         /\ op'[o].base = op[o].base /\ op'[o].rev = op[o].rev /\ op'[o].own = op[o].own
         /\ op'[o].on = op[o].on /\ op'[o].old = op[o].old /\ op'[o].then = op[o].then
      BY <1>p, <1>t, <1>d DEF StartEnter, Go, At
<1>11. Policy(o) =>
         /\ op'[o].kind = op[o].kind /\ op'[o].ep = op[o].ep /\ op'[o].sid = op[o].sid /\ op'[o].h = op[o].h
         /\ op'[o].base = op[o].base /\ op'[o].rev = op[o].rev /\ op'[o].own = op[o].own
         /\ op'[o].set = op[o].set /\ op'[o].old = op[o].old
      BY <1>p, <1>t, <1>d DEF Policy, GoDiscard, At
<1>12. Register(o) =>
         /\ op'[o].kind = op[o].kind /\ op'[o].ep = op[o].ep /\ op'[o].sid = op[o].sid /\ op'[o].h = op[o].h
         /\ op'[o].base = op[o].base /\ op'[o].rev = op[o].rev /\ op'[o].own = op[o].own
         /\ op'[o].set = op[o].set /\ op'[o].on = op[o].on /\ op'[o].old = op[o].old
      BY <1>p, <1>t, <1>d DEF Register, Go, GoDiscard, At
<1>13. Enable(o) =>
         /\ op'[o].kind = op[o].kind /\ op'[o].ep = op[o].ep /\ op'[o].sid = op[o].sid /\ op'[o].h = op[o].h
         /\ op'[o].base = op[o].base /\ op'[o].rev = op[o].rev /\ op'[o].own = op[o].own
         /\ op'[o].set = op[o].set /\ op'[o].on = op[o].on /\ op'[o].old = op[o].old
         /\ op'[o].then = op[o].then
  <2>1. Enable(o) => Go(o, "flag") \/ Go(o, "end")
        BY DEF Enable
  <2> QED BY <1>p, <1>t, <1>d, <2>1 DEF Go
<1>14. FlagEnabled(o) =>
         /\ op'[o].kind = op[o].kind /\ op'[o].ep = op[o].ep /\ op'[o].sid = op[o].sid /\ op'[o].h = op[o].h
         /\ op'[o].base = op[o].base /\ op'[o].rev = op[o].rev /\ op'[o].own = op[o].own
         /\ op'[o].set = op[o].set /\ op'[o].on = op[o].on /\ op'[o].old = op[o].old
         /\ op'[o].then = op[o].then
      BY <1>p, <1>t, <1>d DEF FlagEnabled, Go, At
<1>15. Displace(o) =>
         /\ op'[o].kind = op[o].kind /\ op'[o].ep = op[o].ep /\ op'[o].sid = op[o].sid /\ op'[o].h = op[o].h
         /\ op'[o].base = op[o].base /\ op'[o].rev = op[o].rev /\ op'[o].own = op[o].own
         /\ op'[o].on = op[o].on /\ op'[o].old = op[o].old /\ op'[o].then = op[o].then
      BY <1>p, <1>t, <1>d DEF Displace, At
<1>16. DisableOthers(o) =>
         /\ op'[o].kind = op[o].kind /\ op'[o].ep = op[o].ep /\ op'[o].sid = op[o].sid /\ op'[o].h = op[o].h
         /\ op'[o].base = op[o].base /\ op'[o].rev = op[o].rev /\ op'[o].own = op[o].own
         /\ op'[o].on = op[o].on /\ op'[o].old = op[o].old
         /\ op'[o].then = op[o].then
  <2>1. DisableOthers(o) => Go(o, "end") \/ \E h \in op[o].set : op' = [op EXCEPT ![o].set = @ \ {h}]
        BY DEF DisableOthers
  <2> QED BY <1>p, <1>t, <1>d, <2>1 DEF Go
<1>17. CheckCurrent(o) =>
         /\ op'[o].kind = op[o].kind /\ op'[o].ep = op[o].ep /\ op'[o].sid = op[o].sid /\ op'[o].h = op[o].h
         /\ op'[o].base = op[o].base /\ op'[o].rev = op[o].rev /\ op'[o].own = op[o].own
         /\ op'[o].set = op[o].set /\ op'[o].on = op[o].on /\ op'[o].then = op[o].then
      BY <1>p, <1>t, <1>d DEF CheckCurrent, Go
<1>18. ReconfigureEnter(o) =>
         /\ op'[o].kind = op[o].kind /\ op'[o].ep = op[o].ep /\ op'[o].sid = op[o].sid
         /\ op'[o].base = op[o].base /\ op'[o].rev = op[o].rev /\ op'[o].own = op[o].own
         /\ op'[o].set = op[o].set /\ op'[o].on = op[o].on /\ op'[o].old = op[o].old
         /\ op'[o].then = op[o].then
      BY <1>p, <1>t, <1>d DEF ReconfigureEnter, Go, At
<1>19. RetireOld(o) =>
         /\ op'[o].kind = op[o].kind /\ op'[o].ep = op[o].ep /\ op'[o].sid = op[o].sid /\ op'[o].h = op[o].h
         /\ op'[o].base = op[o].base /\ op'[o].rev = op[o].rev /\ op'[o].own = op[o].own
         /\ op'[o].set = op[o].set /\ op'[o].on = op[o].on /\ op'[o].old = op[o].old
      BY <1>p, <1>t, <1>d DEF RetireOld, Go, At
<1>20. ApplyInput(o) =>
         /\ op'[o].kind = op[o].kind /\ op'[o].ep = op[o].ep /\ op'[o].sid = op[o].sid /\ op'[o].h = op[o].h
         /\ op'[o].base = op[o].base /\ op'[o].rev = op[o].rev /\ op'[o].own = op[o].own
         /\ op'[o].set = op[o].set /\ op'[o].old = op[o].old /\ op'[o].then = op[o].then
  <2>1. ApplyInput(o) => \/ op' = [op EXCEPT ![o].pc = "commit", ![o].on = TRUE]
                           \/ op' = [op EXCEPT ![o].pc = "commit", ![o].on = FALSE]
        BY DEF ApplyInput
  <2> QED BY <1>p, <1>t, <1>d, <2>1
<1>21. Commit(o) =>
         /\ op'[o].kind = op[o].kind /\ op'[o].ep = op[o].ep /\ op'[o].sid = op[o].sid /\ op'[o].h = op[o].h
         /\ op'[o].base = op[o].base /\ op'[o].rev = op[o].rev /\ op'[o].set = op[o].set
         /\ op'[o].on = op[o].on /\ op'[o].old = op[o].old
      BY <1>p, <1>t, <1>d DEF Commit, Go, GoCleanup, GoDiscard, At
<1>22. Silence(o) =>
         /\ op'[o].kind = op[o].kind /\ op'[o].ep = op[o].ep /\ op'[o].sid = op[o].sid /\ op'[o].h = op[o].h
         /\ op'[o].base = op[o].base /\ op'[o].rev = op[o].rev /\ op'[o].set = op[o].set
         /\ op'[o].on = op[o].on /\ op'[o].old = op[o].old
      BY <1>p, <1>t, <1>d DEF Silence, GoCleanup, At
<1>23. SweepRetire(o) =>
         /\ op'[o].kind = op[o].kind /\ op'[o].ep = op[o].ep /\ op'[o].sid = op[o].sid /\ op'[o].h = op[o].h
         /\ op'[o].base = op[o].base /\ op'[o].rev = op[o].rev /\ op'[o].own = op[o].own
         /\ op'[o].set = op[o].set /\ op'[o].on = op[o].on /\ op'[o].old = op[o].old
         /\ op'[o].then = op[o].then
      BY <1>p, <1>t, <1>d DEF SweepRetire, Go, At
<1>24. SweepRemove(o) =>
         /\ op'[o].kind = op[o].kind /\ op'[o].ep = op[o].ep /\ op'[o].sid = op[o].sid /\ op'[o].h = op[o].h
         /\ op'[o].base = op[o].base /\ op'[o].rev = op[o].rev /\ op'[o].set = op[o].set
         /\ op'[o].on = op[o].on /\ op'[o].old = op[o].old
      BY <1>p, <1>t, <1>d DEF SweepRemove, Go, GoCleanup, At
<1>25. Collect(o) =>
         /\ op'[o].kind = op[o].kind /\ op'[o].ep = op[o].ep /\ op'[o].sid = op[o].sid /\ op'[o].h = op[o].h
         /\ op'[o].base = op[o].base /\ op'[o].rev = op[o].rev /\ op'[o].own = op[o].own
         /\ op'[o].on = op[o].on /\ op'[o].old = op[o].old /\ op'[o].then = op[o].then
      BY <1>p, <1>t, <1>d DEF Collect, At
<1>26. InputApply(o) =>
         /\ op'[o].base = op[o].base /\ op'[o].rev = op[o].rev /\ op'[o].set = op[o].set
         /\ op'[o].on = op[o].on /\ op'[o].old = op[o].old /\ op'[o].then = op[o].then
      BY <1>p, <1>t, <1>d DEF InputApply, Go, At, Tombstone
<1>27. InputStore(o) =>
         /\ op'[o].kind = op[o].kind /\ op'[o].ep = op[o].ep /\ op'[o].sid = op[o].sid /\ op'[o].h = op[o].h
         /\ op'[o].base = op[o].base /\ op'[o].rev = op[o].rev /\ op'[o].own = op[o].own
         /\ op'[o].set = op[o].set /\ op'[o].on = op[o].on /\ op'[o].old = op[o].old
         /\ op'[o].then = op[o].then
      BY <1>p, <1>t, <1>d DEF InputStore, Go, At
<1>28. Targets(o) =>
         /\ op'[o].kind = op[o].kind /\ op'[o].sid = op[o].sid /\ op'[o].h = op[o].h
         /\ op'[o].base = op[o].base /\ op'[o].rev = op[o].rev /\ op'[o].on = op[o].on
         /\ op'[o].old = op[o].old
  <2>1. CASE op' = [op EXCEPT ![o].pc = IF p.kind = "start" THEN "prepare" ELSE "end"]
        BY <1>p, <1>t, <1>d, <2>1 DEF Targets
  <2>2. ASSUME NEW t \in p.set, NEW pc \in {"cleanup", "end"},
               op' = [op EXCEPT ![o].set = p.set \ {t}, ![o].ep = t.ep, ![o].own = t.own,
                                ![o].pc = pc, ![o].then = "targets"]
        PROVE  op'[o].kind = op[o].kind /\ op'[o].sid = op[o].sid /\ op'[o].h = op[o].h
               /\ op'[o].base = op[o].base /\ op'[o].rev = op[o].rev /\ op'[o].on = op[o].on
               /\ op'[o].old = op[o].old
        BY <1>p, <1>t, <1>d, <2>2
  <2> QED BY <1>p, <2>1, <2>2, ZenonT(30) DEF Targets, Go
<1> QED BY <1>1, <1>2, <1>3, <1>4, <1>5, <1>6, <1>7, <1>8, <1>9, <1>10, <1>11, <1>12, <1>13, <1>14, <1>15, <1>16, <1>17, <1>18, <1>19, <1>20, <1>21, <1>22, <1>23, <1>24, <1>25, <1>26, <1>27, <1>28 DEF Step, Steps

-----------------------------------------------------------------------------
(***************************************************************************)
(* The guards: which task holds a session's reconfiguration guard, who is  *)
(* active, and who holds input_changes.                                    *)
(***************************************************************************)

(* A task keeps what it was begun for until it ends or a denial turns it into a tombstone. *)
Keeps(o) ==
  /\ Running(op'[o]) /\ ~End(o)
  /\ op'[o].kind = op[o].kind /\ op'[o].sid = op[o].sid /\ op'[o].base = op[o].base /\ op'[o].rev = op[o].rev
Ends(o) == End(o) /\ op'[o].pc = "done" /\ op'[o].kind = op[o].kind
Buries(o) == InputApply(o) /\ op[o].sid \in DOMAIN live /\ ~live[op[o].sid].released /\ Tombstone(o, op[o].sid)

(* A step keeps what a task is about, ends it, or turns a denial into a tombstone. *)
LEMMA StepKeeps ==
  ASSUME TypeInv, NEW o \in Procs, Step(o)
  PROVE  Keeps(o) \/ Ends(o) \/ Buries(o)
<1>p. PICK p : p = op[o]
      OBVIOUS
<1>t. /\ p \in OpRec /\ Shape(o, p) /\ op \in [Procs -> OpRec]
      BY <1>p DEF TypeInv, TasksInv
<1>d. p = [f \in DOMAIN p |-> p[f]]
      /\ DOMAIN p = {"kind", "pc", "ep", "sid", "h", "base", "rev", "own", "set", "on", "old", "then"}
      BY <1>t DEF OpRec
<1>w. p.pc \in {"cleanup", "cleaning", "leave"} => p.then \notin AtRest
      BY <1>t DEF Shape, StartShape, ReconfigureShape, CallShape, Running, AtRest, OpRec, Kinds, Calls
<1>1. CASE End(o)
  <2>1. [IdleOp EXCEPT !.pc = "done", !.kind = p.kind].kind = p.kind
        BY DEF IdleOp
  <2> QED BY <1>p, <1>t, <1>1, <2>1, StepMoves DEF Ends, End, Moves
<1>2. CASE InputApply(o)
  <2>1. p.pc = "apply" /\ ~End(o)
        BY <1>p, <1>2 DEF InputApply, At, End
  <2>2. CASE \E pc \in {"store", "end"} : op' = [op EXCEPT ![o].pc = pc]
        BY <1>p, <1>t, <1>d, <2>1, <2>2 DEF Keeps, Running, AtRest
  <2> QED BY <1>p, <1>2, <2>2 DEF InputApply, Go, Buries
<1>3. CASE ~End(o) /\ ~InputApply(o)
  <2>1. op'[o].pc \notin AtRest
        BY <1>p, <1>w, <1>3, StepMoves DEF Moves, AtRest
  <2> QED BY <1>3, <2>1, StepFields DEF Keeps, Running
<1> QED BY <1>1, <1>2, <1>3

Guarded(p) == Running(p) /\ p.kind \in {"reconfigure", "sweep"}
(* Works under input_changes. *)
Locked(p) == Running(p) /\ (p.kind = "input" \/ (p.kind = "reconfigure" /\ p.pc = "commit"))

GuardInv ==
  /\ \A o \in Procs : Guarded(op[o]) => op[o].sid \in busySess
  /\ \A o, q \in Procs : Guarded(op[o]) /\ Guarded(op[q]) /\ op[o].sid = op[q].sid => o = q
  /\ \A s \in busySess : \E o \in Procs : Guarded(op[o]) /\ op[o].sid = s
  /\ \A s \in Requests : retired[s] # 0 => \E o \in Procs : Guarded(op[o]) /\ op[o].sid = s
  /\ active = {o \in Requests : Running(op[o])}
  /\ inputLock # 0 => inputLock \in Procs /\ Running(op[inputLock])
  /\ \A o \in Procs : Locked(op[o]) => inputLock = o

(* The steps that come to a commit, or to work of a decision. *)
LEMMA ToCommit ==
  ASSUME TypeInv, NEW o \in Procs, Step(o), op'[o].pc = "commit"
  PROVE  ApplyInput(o) /\ op[o].kind = "reconfigure"
<1>p. PICK p : p = op[o]
      OBVIOUS
<1>t. p \in OpRec /\ Shape(o, p)
      BY <1>p DEF TypeInv, TasksInv
<1>1. p.pc \in {"cleanup", "cleaning", "leave"} => p.then # "commit"
      BY <1>t DEF Shape, StartShape, ReconfigureShape, CallShape, Running, AtRest, OpRec, Kinds, Calls
<1> QED BY <1>p, <1>1, StepMoves DEF Moves

(* A step of a task keeps the guards right. *)
LEMMA GuardStep ==
  ASSUME TypeInv, GuardInv, NEW o \in Procs, Step(o)
  PROVE  GuardInv'
<1>a. /\ \A q \in Procs \ {o} : op'[q] = op[q]
      /\ Running(op[o]) /\ op[o] \in OpRec /\ o # 0 /\ Requests \subseteq Procs
  <2>1. Acts(o) /\ DataInv /\ TasksInv
        BY StepActs DEF TypeInv
  <2>2. o # 0
        BY DEF Procs, TypeInv, DataInv
  <2>3. op[o] \in OpRec
        BY <2>1 DEF TasksInv
  <2> QED BY <2>1, <2>2, <2>3, RequestsAreProcs DEF Acts
<1>1. CASE Keeps(o)
  <2>1. \A q \in Procs : (Guarded(op'[q]) <=> Guarded(op[q])) /\ op'[q].sid = op[q].sid
                         /\ (Running(op'[q]) <=> Running(op[q]))
        BY <1>1, <1>a DEF Keeps, Guarded
  <2>2. UNCHANGED <<active, busySess>>
        BY <1>1, GuardSteps DEF Keeps
  <2>3. \A s \in Requests : retired'[s] # 0 => \E q \in Procs : Guarded(op'[q]) /\ op'[q].sid = s
    <3>1. CASE retired' = retired
          BY <2>1, <3>1 DEF GuardInv
    <3>2. CASE RetireOld(o)
      <4>1. Guarded(op[o])
            BY <1>a, <3>2 DEF RetireOld, At, Guarded
      <4>2. \A s \in Requests : retired'[s] = retired[s] \/ s = op[o].sid
            BY <3>2 DEF RetireOld, TypeInv, DataInv
      <4> QED BY <2>1, <4>1, <4>2 DEF GuardInv
    <3>3. CASE Commit(o)
      <4>1. \A s \in Requests : retired'[s] = retired[s] \/ retired'[s] = 0
            BY <3>3 DEF Commit, TypeInv, DataInv
      <4> QED BY <2>1, <4>1 DEF GuardInv
    <3> QED BY <1>1, <3>1, <3>2, <3>3, GuardSteps DEF Keeps
  <2>4. /\ inputLock' # 0 => inputLock' \in Procs /\ Running(op'[inputLock'])
        /\ \A q \in Procs : Locked(op'[q]) => inputLock' = q
    <3>1. CASE ApplyInput(o)
      <4>1. inputLock = 0 /\ inputLock' = o
            BY <3>1 DEF ApplyInput
      <4>2. \A q \in Procs : ~Locked(op[q])
            BY <4>1 DEF GuardInv, Procs
      <4> QED BY <1>a, <2>1, <4>1, <4>2
    <3>2. CASE ~ApplyInput(o) /\ inputLock' = inputLock
      <4>1. \A q \in Procs : Locked(op'[q]) => Locked(op[q])
            BY <1>1, <1>a, <3>2, ToCommit DEF Locked, Keeps
      <4> QED BY <2>1, <3>2, <4>1 DEF GuardInv
    <3> QED BY <1>1, <3>1, <3>2, GuardSteps DEF Keeps
  <2>5. active' = {q \in Requests : Running(op'[q])}
        BY <1>a, <2>1, <2>2 DEF GuardInv
  <2> QED BY <2>1, <2>2, <2>3, <2>4, <2>5 DEF GuardInv
<1>2. CASE Ends(o)
  <2>1. ~Running(op'[o]) /\ ~Guarded(op'[o]) /\ ~Locked(op'[o])
        BY <1>2 DEF Ends, Running, AtRest, Guarded, Locked
  <2>2. /\ active' = active \ {o}
        /\ busySess' = IF Guarded(op[o]) THEN busySess \ {op[o].sid} ELSE busySess
        /\ retired' = IF Guarded(op[o]) THEN [retired EXCEPT ![op[o].sid] = 0] ELSE retired
        /\ inputLock' = IF inputLock = o THEN 0 ELSE inputLock
        BY <1>2, <1>a DEF Ends, End, Guarded
  <2>3. \A q \in Procs : Guarded(op'[q]) => q # o /\ Guarded(op[q]) /\ op'[q].sid = op[q].sid
        BY <1>a, <2>1
  <2>4. \A q \in Procs : Guarded(op'[q]) => op'[q].sid \in busySess'
        BY <2>2, <2>3 DEF GuardInv
  <2>5. \A q1, q2 \in Procs : Guarded(op'[q1]) /\ Guarded(op'[q2]) /\ op'[q1].sid = op'[q2].sid => q1 = q2
        BY <2>3 DEF GuardInv
  <2>6. \A s \in busySess' : \E q \in Procs : Guarded(op'[q]) /\ op'[q].sid = s
    <3>1. ASSUME NEW s \in busySess' PROVE \E q \in Procs : Guarded(op'[q]) /\ op'[q].sid = s
      <4>1. PICK q \in Procs : Guarded(op[q]) /\ op[q].sid = s
            BY <2>2 DEF GuardInv
      <4>2. q # o
            BY <2>2, <4>1
      <4> QED BY <1>a, <4>1, <4>2
    <3> QED BY <3>1
  <2>7. \A s \in Requests : retired'[s] # 0 => \E q \in Procs : Guarded(op'[q]) /\ op'[q].sid = s
    <3>1. ASSUME NEW s \in Requests, retired'[s] # 0 PROVE \E q \in Procs : Guarded(op'[q]) /\ op'[q].sid = s
      <4>0. retired \in [Requests -> 0..2 * MaxRequests]
            BY DEF TypeInv, DataInv
      <4>1. retired[s] # 0
            BY <2>2, <3>1, <4>0
      <4>2. PICK q \in Procs : Guarded(op[q]) /\ op[q].sid = s
            BY <4>1 DEF GuardInv
      <4>3. q # o
            BY <2>2, <3>1, <4>0, <4>2
      <4> QED BY <1>a, <4>2, <4>3
    <3> QED BY <3>1
  <2>8. active' = {q \in Requests : Running(op'[q])}
    <3>1. \A q \in Requests : Running(op'[q]) <=> Running(op[q]) /\ q # o
          BY <1>a, <2>1
    <3> QED BY <2>2, <3>1 DEF GuardInv
  <2>9. inputLock' # 0 => inputLock' \in Procs /\ Running(op'[inputLock'])
        BY <1>a, <2>2 DEF GuardInv
  <2>10. \A q \in Procs : Locked(op'[q]) => inputLock' = q
    <3>1. ASSUME NEW q \in Procs, Locked(op'[q]) PROVE inputLock' = q
      <4>1. q # o /\ Locked(op[q])
            BY <1>a, <2>1, <3>1
      <4>2. inputLock = q
            BY <4>1 DEF GuardInv
      <4> QED BY <2>2, <4>1, <4>2
    <3> QED BY <3>1
  <2> QED BY <2>4, <2>5, <2>6, <2>7, <2>8, <2>9, <2>10 DEF GuardInv
<1>3. CASE Buries(o)
  <2>0. op[o].kind = "input" /\ o \notin Requests
        BY <1>3, <1>a DEF Buries, InputApply, At, TypeInv, TasksInv, Shape
  <2>1. op'[o].kind = "force" /\ op'[o].pc = "silence"
        BY <1>3, <2>0, TombstoneActs DEF Buries
  <2>2. /\ ~Guarded(op[o]) /\ ~Guarded(op'[o]) /\ Running(op'[o]) /\ ~Locked(op'[o])
        BY <2>0, <2>1 DEF Guarded, Running, AtRest, Locked
  <2>3. UNCHANGED <<active, guards>>
        BY <1>3 DEF Buries, InputApply, books
  <2>4. \A q \in Procs : (Guarded(op'[q]) <=> Guarded(op[q])) /\ (Guarded(op[q]) => op'[q].sid = op[q].sid)
                         /\ (Running(op'[q]) <=> Running(op[q])) /\ (Locked(op'[q]) => Locked(op[q]))
        BY <1>a, <2>2
  <2>5. active' = {q \in Requests : Running(op'[q])}
        BY <1>a, <2>3, <2>4 DEF GuardInv
  <2> QED BY <2>3, <2>4, <2>5 DEF GuardInv, guards
<1> QED BY <1>1, <1>2, <1>3, StepKeeps

(* The kind, session and place a task is begun with. *)
LEMMA BegunWith ==
  ASSUME TypeInv
  PROVE  /\ \A o \in Requests, e \in Endpoints : StartBegin(o, e) =>
              /\ op'[o].kind = "start" /\ op'[o].pc = "claim" /\ op'[o].ep = e /\ op'[o].own = op[o].own
              /\ op'[o].on = op[o].on
         /\ \A o \in Requests, s \in DOMAIN live, moved \in BOOLEAN : ReconfigureBegin(o, s, moved) =>
              /\ op'[o].kind = "reconfigure" /\ op'[o].pc = "claim" /\ op'[o].sid = s
              /\ op'[o].ep = live[s].ep /\ op'[o].base = live[s].handle /\ op'[o].rev = live[s].rev + 1
              /\ op'[o].own = op[o].own
         /\ \A o \in Procs \ Requests, s \in DOMAIN live : StopStream(o, s) =>
              /\ op'[o].kind = "stop" /\ op'[o].pc = "targets" /\ op'[o].set = {Target(s)}
              /\ op'[o].own = op[o].own
         /\ \A o \in Procs \ Requests, s \in DOMAIN live : Sweep(o, s) =>
              /\ op'[o].kind = "sweep" /\ op'[o].sid = s /\ op'[o].ep = live[s].ep
              /\ op'[o].h = live[s].handle /\ op'[o].own = live[s].owner /\ op'[o].rev = live[s].rev
              /\ op'[o].pc = IF live[s].released THEN "remove" ELSE "retire"
         /\ \A o \in Procs \ Requests : Revoke(o) =>
              op'[o].kind = "revoke" /\ op'[o].pc = "collect" /\ op'[o].own = op[o].own
         /\ \A o \in Procs \ Requests, s \in DOMAIN live, on \in BOOLEAN : InputCall(o, s, on) =>
              /\ op'[o].kind = "input" /\ op'[o].sid = s /\ op'[o].h = live[s].handle
              /\ op'[o].on = on /\ op'[o].own = op[o].own
              /\ op'[o].pc = IF retired[s] = live[s].handle \/ ~LeaseCurrent(s) THEN "end" ELSE "apply"
<1>t. op \in [Procs -> OpRec] /\ Requests \subseteq Procs
      BY RequestsAreProcs DEF TypeInv, TasksInv
<1>1. ASSUME NEW o \in Requests, NEW e \in Endpoints, StartBegin(o, e)
      PROVE  /\ op'[o].kind = "start" /\ op'[o].pc = "claim" /\ op'[o].ep = e /\ op'[o].own = op[o].own
             /\ op'[o].on = op[o].on
      BY <1>t, <1>1 DEF StartBegin, OpRec
<1>2. ASSUME NEW o \in Requests, NEW s \in DOMAIN live, NEW moved \in BOOLEAN, ReconfigureBegin(o, s, moved)
      PROVE  /\ op'[o].kind = "reconfigure" /\ op'[o].pc = "claim" /\ op'[o].sid = s
             /\ op'[o].ep = live[s].ep /\ op'[o].base = live[s].handle /\ op'[o].rev = live[s].rev + 1
             /\ op'[o].own = op[o].own
      BY <1>t, <1>2 DEF ReconfigureBegin, OpRec
<1>3. ASSUME NEW o \in Procs \ Requests, NEW s \in DOMAIN live, StopStream(o, s)
      PROVE  /\ op'[o].kind = "stop" /\ op'[o].pc = "targets" /\ op'[o].set = {Target(s)}
             /\ op'[o].own = op[o].own
      BY <1>t, <1>3 DEF StopStream, OpRec
<1>4. ASSUME NEW o \in Procs \ Requests, NEW s \in DOMAIN live, Sweep(o, s)
      PROVE  /\ op'[o].kind = "sweep" /\ op'[o].sid = s /\ op'[o].ep = live[s].ep
             /\ op'[o].h = live[s].handle /\ op'[o].own = live[s].owner /\ op'[o].rev = live[s].rev
             /\ op'[o].pc = IF live[s].released THEN "remove" ELSE "retire"
      BY <1>t, <1>4 DEF Sweep, OpRec
<1>5. ASSUME NEW o \in Procs \ Requests, Revoke(o)
      PROVE  op'[o].kind = "revoke" /\ op'[o].pc = "collect" /\ op'[o].own = op[o].own
      BY <1>t, <1>5 DEF Revoke, OpRec
<1>6. ASSUME NEW o \in Procs \ Requests, NEW s \in DOMAIN live, NEW on \in BOOLEAN, InputCall(o, s, on)
      PROVE  /\ op'[o].kind = "input" /\ op'[o].sid = s /\ op'[o].h = live[s].handle
             /\ op'[o].on = on /\ op'[o].own = op[o].own
             /\ op'[o].pc = IF retired[s] = live[s].handle \/ ~LeaseCurrent(s) THEN "end" ELSE "apply"
      BY <1>t, <1>6 DEF InputCall, OpRec
<1> QED BY <1>1, <1>2, <1>3, <1>4, <1>5, <1>6

(* A guarded task begins only for a session that no other one guards. *)
LEMMA GuardBegins ==
  ASSUME TypeInv, GuardInv, NEW o \in Procs, Starts(o), retired' = retired,
         o \in Requests => active' = active \cup {o},
         o \notin Requests => active' = active,
         \/ busySess' = busySess /\ ~Guarded(op'[o])
         \/ /\ op'[o].sid \notin busySess /\ busySess' = busySess \cup {op'[o].sid} /\ Guarded(op'[o]),
         \/ inputLock' = inputLock /\ ~Locked(op'[o])
         \/ inputLock = 0 /\ inputLock' = o
  PROVE  GuardInv'
<1>a. /\ \A q \in Procs \ {o} : op'[q] = op[q]
      /\ ~Running(op[o]) /\ Running(op'[o]) /\ ~Guarded(op[o]) /\ ~Locked(op[o])
      BY DEF Starts, Running, AtRest, Guarded, Locked
<1>b. o # 0 /\ Requests \subseteq Procs
      BY RequestsAreProcs DEF Procs, TypeInv, DataInv
<1>1. \A q \in Procs : Guarded(op'[q]) => op'[q].sid \in busySess'
      BY <1>a DEF GuardInv
<1>2. \A q1, q2 \in Procs : Guarded(op'[q1]) /\ Guarded(op'[q2]) /\ op'[q1].sid = op'[q2].sid => q1 = q2
      BY <1>a DEF GuardInv
<1>3. \A s \in busySess' : \E q \in Procs : Guarded(op'[q]) /\ op'[q].sid = s
      BY <1>a DEF GuardInv
<1>4. \A s \in Requests : retired'[s] # 0 => \E q \in Procs : Guarded(op'[q]) /\ op'[q].sid = s
      BY <1>a DEF GuardInv
<1>5. active' = {q \in Requests : Running(op'[q])}
  <2>1. \A q \in Requests : Running(op'[q]) <=> Running(op[q]) \/ q = o
        BY <1>a, <1>b
  <2> QED BY <2>1 DEF GuardInv
<1>6. inputLock' # 0 => inputLock' \in Procs /\ Running(op'[inputLock'])
      BY <1>a DEF GuardInv
<1>7. \A q \in Procs : Locked(op'[q]) => inputLock' = q
  <2>1. ASSUME NEW q \in Procs, Locked(op'[q]) PROVE inputLock' = q
    <3>1. CASE q = o
          BY <1>b, <2>1, <3>1
    <3>2. CASE q # o
      <4>1. Locked(op[q])
            BY <1>a, <2>1, <3>2
      <4>2. inputLock = q /\ q # 0
            BY <4>1 DEF GuardInv, Procs, TypeInv, DataInv
      <4> QED BY <4>2
    <3> QED BY <3>1, <3>2
  <2> QED BY <2>1
<1> QED BY <1>1, <1>2, <1>3, <1>4, <1>5, <1>6, <1>7 DEF GuardInv

(* Every step keeps the guards right. *)
LEMMA GuardNext ==
  ASSUME TypeInv, GuardInv, [Next]_vars
  PROVE  GuardInv'
<1>r. Requests \subseteq Procs
      BY RequestsAreProcs DEF TypeInv
<1>1. CASE UNCHANGED vars
      BY <1>1 DEF vars, GuardInv
<1>2. ASSUME NEW o \in Requests, NEW e \in Endpoints, StartBegin(o, e) PROVE GuardInv'
  <2>1. Starts(o) /\ ~Guarded(op'[o]) /\ ~Locked(op'[o])
        BY <1>2, StartBeginStarts, BegunWith DEF Guarded, Locked
  <2> QED BY <1>r, <1>2, <2>1, GuardBegins DEF StartBegin, guards
<1>3. ASSUME NEW o \in Requests, NEW s \in DOMAIN live, NEW moved \in BOOLEAN, ReconfigureBegin(o, s, moved)
      PROVE  GuardInv'
  <2>1. Starts(o) /\ Guarded(op'[o]) /\ ~Locked(op'[o]) /\ op'[o].sid = s
        BY <1>3, ReconfigureBeginStarts, BegunWith DEF Guarded, Locked, Starts
  <2> QED BY <1>r, <1>3, <2>1, GuardBegins DEF ReconfigureBegin
<1>4. ASSUME NEW o \in Procs \ Requests, NEW s \in DOMAIN live, StopStream(o, s) PROVE GuardInv'
  <2>1. Starts(o) /\ ~Guarded(op'[o]) /\ ~Locked(op'[o])
        BY <1>4, StopStreamStarts, BegunWith DEF Guarded, Locked
  <2> QED BY <1>4, <2>1, GuardBegins DEF StopStream, guards, books
<1>5. ASSUME NEW o \in Procs \ Requests, NEW s \in DOMAIN live, ForceStop(o, s) PROVE GuardInv'
  <2>1. Starts(o) /\ ~Guarded(op'[o]) /\ ~Locked(op'[o])
        BY <1>5, ForceStopStarts, TombstoneActs DEF Guarded, Locked, ForceStop
  <2> QED BY <1>5, <2>1, GuardBegins DEF ForceStop, guards, books
<1>6. ASSUME NEW o \in Procs \ Requests, NEW s \in DOMAIN live, Sweep(o, s) PROVE GuardInv'
  <2>1. Starts(o) /\ Guarded(op'[o]) /\ ~Locked(op'[o]) /\ op'[o].sid = s
        BY <1>6, SweepStarts, BegunWith DEF Guarded, Locked, Starts
  <2> QED BY <1>6, <2>1, GuardBegins DEF Sweep, books
<1>7. ASSUME NEW o \in Procs \ Requests, Revoke(o) PROVE GuardInv'
  <2>1. Starts(o) /\ ~Guarded(op'[o]) /\ ~Locked(op'[o])
        BY <1>7, RevokeStarts, BegunWith DEF Guarded, Locked
  <2> QED BY <1>7, <2>1, GuardBegins DEF Revoke, guards, books
<1>8. ASSUME NEW h \in Handles, CaptureEnds(h) PROVE GuardInv'
      BY <1>8 DEF CaptureEnds, GuardInv, guards, books
<1>9. ASSUME NEW o \in Procs \ Requests, NEW s \in DOMAIN live, NEW on \in BOOLEAN, InputCall(o, s, on)
      PROVE  GuardInv'
  <2>1. Starts(o) /\ ~Guarded(op'[o])
        BY <1>9, InputCallStarts, BegunWith DEF Guarded
  <2> QED BY <1>9, <2>1, GuardBegins DEF InputCall, books
<1> QED BY <1>1, <1>2, <1>3, <1>4, <1>5, <1>6, <1>7, <1>8, <1>9, GuardStep, NextSteps

(* The guards are right at first. *)
LEMMA GuardInit ==
  ASSUME TypeInv, Init
  PROVE  GuardInv
<1>1. \A o \in Procs : ~Running(op[o])
      BY DEF Init, IdleOp, Running, AtRest
<1> QED BY <1>1, RequestsAreProcs DEF Init, TypeInv, GuardInv, Guarded, Locked

-----------------------------------------------------------------------------
(***************************************************************************)
(* The captures: which are made, and who speaks of them.                   *)
(***************************************************************************)

(* Started by a task that has not published it yet. *)
Making(p) ==
  /\ p.h # 0
  /\ \/ p.kind = "start" /\ p.pc \in {"frame", "policy", "register", "discard"}
     \/ p.kind = "reconfigure" /\ p.pc \in {"frame", "input", "commit", "discard"}

(* The captures a task may still stop, feed or publish. *)
Names(p, h) ==
  \/ InTargets(p) /\ \E t \in p.set : t.h = h
  \/ Running(p) /\ p.kind \in {"force", "sweep", "input"} /\ p.h = h
  \/ Running(p) /\ p.kind = "reconfigure" /\ p.base = h
  \/ Making(p) /\ p.h = h

BeforeBackend(p) ==
  \/ p.pc \in {"claim", "current", "enter", "retire", "prepare", "leave", "failed", "backend"}
  \/ InTargets(p)

(* A capture nobody has started is nobody's. *)
BornInv ==
  /\ \A h \in Handles : native[h] = "none" =>
       /\ \A s \in DOMAIN live : live[s].handle # h
       /\ \A o \in Procs : ~Names(op[o], h)
  /\ \A o \in Requests : op[o].pc = "idle" => native[2 * o] = "none" /\ native[2 * o - 1] = "none"
  /\ \A o \in Requests : Running(op[o]) /\ BeforeBackend(op[o]) => native[OwnHandle(o, op[o])] = "none"
  /\ \A o \in Requests : Running(op[o]) /\ op[o].kind = "reconfigure" /\ ~op[o].old => native[2 * o - 1] = "none"

(* What a step does to a capture. *)
LEMMA NativeStep ==
  ASSUME TypeInv, NEW o \in Procs, Step(o), NEW h \in Handles
  PROVE  /\ \/ native'[h] = native[h]
            \/ native'[h] = "stopped" /\ Names(op[o], h)
            \/ native'[h] = "running" /\ Backend(o) /\ op[o].pc = "backend" /\ o \in Requests
               /\ h = OwnHandle(o, op[o]) /\ op'[o].pc = "frame" /\ op'[o].h = h
         /\ h \in pendingRet /\ h \notin pendingRet' => native'[h] = "stopped"
<1>p. PICK p : p = op[o]
      OBVIOUS
<1>t. /\ p \in OpRec /\ Shape(o, p) /\ op \in [Procs -> OpRec] /\ DataInv
      /\ native \in [Handles -> {"none", "running", "ended", "stopped"}]
      BY <1>p DEF TypeInv, TasksInv, DataInv
<1> DEFINE Holds == /\ \/ native'[h] = native[h]
                       \/ native'[h] = "stopped" /\ Names(op[o], h)
                       \/ native'[h] = "running" /\ Backend(o) /\ op[o].pc = "backend" /\ o \in Requests
                          /\ h = OwnHandle(o, op[o]) /\ op'[o].pc = "frame" /\ op'[o].h = h
                    /\ h \in pendingRet /\ h \notin pendingRet' => native'[h] = "stopped"
<1>n. ASSUME UNCHANGED native, pendingRet \subseteq pendingRet' PROVE Holds
      BY <1>n
<1>s. \A x : Names(p, x) /\ (Stopped(x) \/ UNCHANGED captures) => Holds
      BY <1>t, <1>p DEF Stopped, captures
<1>f. \A x : StopFails(x) => Holds
      BY DEF StopFails
<1>r. \A s, x : Names(p, x) /\ Retires(s, x) => Holds
      BY <1>s DEF Retires
<1>1. CASE Targets(o)
  <2>1. p.pc = "targets" => \A t \in p.set : Names(p, t.h)
        BY DEF Names, InTargets
  <2>2. CASE \E t \in p.set : Retires(t.sid, t.h) \/ StopFails(t.h)
    <3>1. PICK t \in p.set : Retires(t.sid, t.h) \/ StopFails(t.h)
          BY <2>2
    <3> QED BY <1>p, <1>1, <1>r, <1>f, <2>1, <3>1 DEF Targets
  <2>3. CASE UNCHANGED captures
        BY <2>3 DEF captures
  <2> QED BY <1>p, <1>1, <2>2, <2>3 DEF Targets, captures
<1>2. CASE Discard(o)
  <2>1. Names(p, p.h)
        BY <1>p, <1>2, <1>t DEF Discard, Shape, StartShape, ReconfigureShape, CallShape, Running, AtRest, OpRec, Kinds, Calls,
           InTargets, Names, Making, OwnHandle, Requests, TypeInv, DataInv
  <2>2. CASE Stopped(p.h)
        BY <1>s, <2>1, <2>2
  <2>3. CASE pendingRet' = pendingRet \cup {p.h} /\ UNCHANGED native
        BY <1>n, <2>3
  <2> QED BY <1>p, <1>2, <2>2, <2>3 DEF Discard, Discarded, Stranded
<1>3. CASE Backend(o)
  <2>1. p.pc = "backend" /\ pendingRet' = pendingRet
        BY <1>p, <1>3 DEF Backend
  <2>2. o \in Requests
        BY <2>1, <1>t DEF Shape, Running, AtRest, Calls, CallShape, InTargets
  <2>3. CASE UNCHANGED native
        BY <1>n, <2>1, <2>3
  <2>4. CASE /\ native' = [native EXCEPT ![OwnHandle(o, p)] = "running"]
             /\ op' = [op EXCEPT ![o].pc = "frame", ![o].h = OwnHandle(o, p)]
    <3>1. op'[o].pc = "frame" /\ op'[o].h = OwnHandle(o, p)
          BY <1>p, <1>t, <2>4 DEF OpRec
    <3> QED BY <1>p, <1>t, <1>3, <2>1, <2>2, <2>4, <3>1
  <2> QED BY <1>p, <1>3, <2>3, <2>4 DEF Backend, OwnHandle
<1>4. CASE RetireOld(o)
  <2>1. Names(p, p.base)
        BY <1>p, <1>4 DEF RetireOld, At, Names, Running, AtRest
  <2> QED BY <1>p, <1>4, <1>s, <1>f, <2>1 DEF RetireOld
<1>5. CASE Silence(o) \/ SweepRetire(o)
  <2>1. Names(p, p.h)
        BY <1>p, <1>5 DEF Silence, SweepRetire, At, Names, Running, AtRest
  <2>2. CASE UNCHANGED native /\ pendingRet' = pendingRet \cup {p.h}
        BY <1>n, <2>2
  <2> QED BY <1>p, <1>5, <1>r, <1>f, <2>1, <2>2 DEF Silence, Stranded, SweepRetire
<1>6. CASE UNCHANGED <<native, pendingRet>>
      BY <1>6
<1> QED BY <1>1, <1>2, <1>3, <1>4, <1>5, <1>6, CaptureSteps DEF captures

(* The sessions a task works off were taken out of the map in one step, and only grow fewer. *)
LEMMA TargetsStep ==
  ASSUME TypeInv, NEW o \in Procs, Step(o), InTargets(op'[o])
  PROVE  \/ StartEnter(o) /\ op'[o].pc = "targets" /\ op'[o].set = {Target(s) : s \in Stale(op[o].ep)}
            /\ live' = Drop(Stale(op[o].ep)) /\ op'[o].ep = op[o].ep
         \/ Collect(o) /\ op'[o].pc = "targets" /\ op'[o].set = {Target(s) : s \in DOMAIN live}
            /\ live' = Drop(DOMAIN live)
         \/ InTargets(op[o]) /\ op'[o].set = op[o].set
         \/ InTargets(op[o]) /\ Targets(o)
            /\ \E t \in op[o].set : /\ op'[o].set = op[o].set \ {t} /\ op'[o].own = t.own /\ op'[o].ep = t.ep
                                    /\ op'[o].pc = "cleanup" /\ op'[o].then = "targets"
<1>p. PICK p : p = op[o]
      OBVIOUS
<1>t. /\ p \in OpRec /\ Shape(o, p) /\ op \in [Procs -> OpRec]
      BY <1>p DEF TypeInv, TasksInv
<1>d. p = [f \in DOMAIN p |-> p[f]]
      /\ DOMAIN p = {"kind", "pc", "ep", "sid", "h", "base", "rev", "own", "set", "on", "old", "then"}
      BY <1>t DEF OpRec
<1>1. CASE StartEnter(o)
  <2>1. Go(o, "end") => op'[o].pc = "end"
        BY <1>p, <1>t, <1>d DEF Go
  <2> QED BY <1>p, <1>t, <1>d, <1>1, <2>1 DEF StartEnter, InTargets
<1>2. CASE Collect(o)
      BY <1>p, <1>t, <1>d, <1>2 DEF Collect, InTargets
<1>3. CASE Targets(o)
  <2>0. p.pc = "targets"
        BY <1>p, <1>3 DEF Targets
  <2>1. CASE op' = [op EXCEPT ![o].pc = IF p.kind = "start" THEN "prepare" ELSE "end"]
        BY <1>p, <1>t, <1>d, <2>1 DEF InTargets
  <2>2. ASSUME NEW t \in p.set, NEW pc \in {"cleanup", "end"},
               op' = [op EXCEPT ![o].set = p.set \ {t}, ![o].ep = t.ep, ![o].own = t.own,
                                ![o].pc = pc, ![o].then = "targets"]
        PROVE  InTargets(op[o]) /\ Targets(o)
            /\ \E u \in op[o].set : /\ op'[o].set = op[o].set \ {u} /\ op'[o].own = u.own /\ op'[o].ep = u.ep
                                    /\ op'[o].pc = "cleanup" /\ op'[o].then = "targets"
    <3>1. /\ op'[o].set = p.set \ {t} /\ op'[o].own = t.own /\ op'[o].ep = t.ep /\ op'[o].pc = pc
          /\ op'[o].then = "targets"
          BY <1>p, <1>t, <1>d, <2>2
    <3> QED BY <1>p, <1>3, <2>0, <3>1 DEF InTargets
  <2> QED BY <1>p, <1>3, <2>1, <2>2 DEF Targets, Go
<1>4. CASE ~StartEnter(o) /\ ~Collect(o) /\ ~Targets(o)
  <2>1. CASE op'[o].pc = "targets"
    <3>1. CleanupBegin(o) \/ CleanupDo(o) \/ LeaveSetup(o)
          BY <1>4, <2>1, StepMoves DEF Moves
    <3>2. p.pc \in {"cleanup", "cleaning", "leave"} /\ p.then = "targets"
          BY <1>p, <2>1, <3>1, StepMoves DEF Moves, CleanupBegin, CleanupDo, LeaveSetup
    <3>3. p.pc # "leave"
          BY <1>t, <3>2 DEF Shape, StartShape, ReconfigureShape, CallShape, Running, AtRest, OpRec, Kinds, Calls
    <3>4. op'[o].set = p.set
          BY <1>p, <3>1, <3>2, StepFields DEF StartEnter, Displace, DisableOthers, Collect, Targets, End, At
    <3> QED BY <1>p, <3>2, <3>3, <3>4 DEF InTargets
  <2>2. CASE op'[o].pc \in {"cleanup", "cleaning"} /\ op'[o].then = "targets"
    <3>1. CASE CleanupBegin(o) \/ CleanupDo(o) \/ LeaveSetup(o)
      <4>1. op'[o].then = p.then /\ op'[o].set = p.set
            BY <1>p, <1>t, <1>d, <3>1 DEF CleanupBegin, CleanupDo, LeaveSetup, Go
      <4>2. p.pc \in {"cleanup", "cleaning", "leave"}
            BY <1>p, <3>1 DEF CleanupBegin, CleanupDo, LeaveSetup
      <4>3. p.pc # "leave"
            BY <1>t, <2>2, <4>1, <4>2 DEF Shape, StartShape, ReconfigureShape, CallShape, Running, AtRest, OpRec, Kinds, Calls
      <4> QED BY <1>p, <2>2, <4>1, <4>2, <4>3 DEF InTargets
    <3>2. CASE Discard(o)
      <4>1. p.then = "targets"
            BY <1>p, <1>t, <1>d, <2>2, <3>2 DEF Discard, GoCleanup
      <4> QED BY <1>p, <1>t, <3>2, <4>1 DEF Discard, Shape, StartShape, ReconfigureShape, CallShape, Running, AtRest,
              OpRec, Kinds, Calls, InTargets
    <3>3. CASE Backend(o)
          BY <1>p, <1>t, <1>d, <2>2, <3>3 DEF Backend, GoCleanup, AfterFailure
    <3>4. CASE Commit(o) \/ Silence(o) \/ SweepRemove(o)
          BY <1>p, <1>t, <1>d, <2>2, <3>4 DEF Commit, Silence, SweepRemove, GoCleanup, Go, GoDiscard
    <3> QED BY <1>4, <2>2, <3>1, <3>2, <3>3, <3>4, StepMoves DEF Moves
  <2> QED BY <2>1, <2>2 DEF InTargets
<1> QED BY <1>1, <1>2, <1>3, <1>4

(* A capture in the making was so before, or has just been started. *)
LEMMA MakingComes ==
  ASSUME TypeInv, NEW o \in Procs, Step(o), Making(op'[o])
  PROVE  \/ Making(op[o]) /\ op'[o].h = op[o].h
         \/ Backend(o) /\ op'[o].pc = "frame" /\ native'[op'[o].h] = "running"
<1>p. PICK p : p = op[o]
      OBVIOUS
<1>t. /\ p \in OpRec /\ Shape(o, p) /\ op \in [Procs -> OpRec] /\ native \in [Handles -> {"none", "running", "ended", "stopped"}]
      /\ p.kind = op'[o].kind /\ DataInv
      BY <1>p, StepKeeps, TombstoneActs DEF TypeInv, TasksInv, DataInv, Making, Keeps, Ends, Buries, InputApply, At, Shape
<1>d. p = [f \in DOMAIN p |-> p[f]]
      /\ DOMAIN p = {"kind", "pc", "ep", "sid", "h", "base", "rev", "own", "set", "on", "old", "then"}
      BY <1>t DEF OpRec
<1>1. CASE Backend(o)
  <2>1. o \in Requests
        BY <1>p, <1>1, <1>t DEF Backend, Shape, Running, AtRest, Calls, CallShape, InTargets
  <2>2. OwnHandle(o, p) \in Handles
        BY <2>1, <1>t, OwnHandles
  <2> QED BY <1>p, <1>t, <1>d, <1>1, <2>2 DEF Backend, GoCleanup, Making, OwnHandle
<1>2. CASE op'[o].pc \in {"frame", "policy", "register", "discard", "commit"} /\ ~Backend(o)
  <2>1. /\ FirstFrame(o) \/ Policy(o) \/ Register(o) \/ Commit(o) \/ ApplyInput(o)
        /\ p.pc \in {"frame", "policy", "register", "input", "commit"}
    <3>1. p.pc \in {"cleanup", "cleaning", "leave"} => p.then \notin {"frame", "policy", "register", "discard", "commit"}
          BY <1>t DEF Shape, StartShape, ReconfigureShape, CallShape, Running, AtRest, OpRec, Kinds, Calls
    <3> QED BY <1>p, <1>2, <3>1, StepMoves DEF Moves
  <2>2. op'[o].h = p.h
        BY <1>p, <2>1, StepFields DEF Discard, Backend, SetupFailed, ReconfigureEnter, InputApply, End, At
  <2>3. p.kind = "start" => p.pc \in {"frame", "policy", "register"}
        BY <1>p, <1>t, <2>1 DEF Shape, StartShape, StartPcs, Running, AtRest
  <2>4. p.kind = "reconfigure" => p.pc \in {"frame", "input", "commit"}
        BY <1>p, <1>t, <2>1 DEF Shape, ReconfigureShape, ReconfigurePcs, Running, AtRest
  <2> QED BY <1>p, <1>t, <2>2, <2>3, <2>4 DEF Making
<1>3. CASE op'[o].pc = "input" /\ ~Backend(o)
  <2>1. p.pc \in {"cleanup", "cleaning", "leave"} => p.then # "input"
        BY <1>t DEF Shape, StartShape, ReconfigureShape, CallShape, Running, AtRest, OpRec, Kinds, Calls
  <2>2. Discard(o) \/ FirstFrame(o) \/ SetupFailed(o) \/ ReconfigureEnter(o)
        BY <1>p, <1>3, <2>1, StepMoves DEF Moves
  <2>3. CASE FirstFrame(o)
        BY <1>p, <1>t, <1>d, <1>3, <2>3 DEF FirstFrame, Go, GoDiscard, Making
  <2>4. CASE Discard(o) \/ SetupFailed(o) \/ ReconfigureEnter(o)
    <3>1. op'[o].h = 0
          BY <1>p, <1>t, <1>d, <1>3, <2>4 DEF Discard, GoCleanup, SetupFailed, ReconfigureEnter, Go, AfterFailure
    <3> QED BY <3>1 DEF Making
  <2> QED BY <2>2, <2>3, <2>4
<1> QED BY <1>1, <1>2, <1>3 DEF Making

(* A step comes to speak only of captures it spoke of before, of a session's, or of one it starts. *)
LEMMA NamesStep ==
  ASSUME TypeInv, NEW o \in Procs, Step(o), NEW h \in Handles, Names(op'[o], h)
  PROVE  \/ Names(op[o], h)
         \/ \E s \in DOMAIN live : live[s].handle = h
         \/ native'[h] = "running" /\ Backend(o)
<1>p. PICK p : p = op[o]
      OBVIOUS
<1>q. PICK r : r = op'[o]
      OBVIOUS
<1>t. /\ p \in OpRec /\ Shape(o, p) /\ op \in [Procs -> OpRec] /\ DataInv /\ r \in OpRec /\ Shape(o, r)
      /\ Running(p) /\ Names(r, h)
      BY <1>p, <1>q, StepActs DEF TypeInv, TasksInv, Acts
<1>1. CASE InTargets(r) /\ \E t \in r.set : t.h = h
  <2>1. \A s \in DOMAIN live : Target(s).h = live[s].handle
        BY <1>t, TargetTypes
  <2>2. Stale(p.ep) \subseteq DOMAIN live
        BY DEF Stale
  <2> QED BY <1>p, <1>q, <1>1, <2>1, <2>2, TargetsStep DEF Names
<1>2. CASE Making(r) /\ r.h = h
      BY <1>p, <1>q, <1>2, MakingComes DEF Names
<1>3. CASE Running(r) /\ r.kind \in {"force", "sweep", "input"} /\ r.h = h
  <2>1. CASE Buries(o)
    <3>1. o \in Procs \ Requests
          BY <1>p, <2>1, <1>t DEF Buries, InputApply, At, Shape
    <3> QED BY <1>q, <1>3, <2>1, <3>1, TombstoneActs DEF Buries
  <2>2. CASE Keeps(o)
    <3>1. r.kind = p.kind /\ Running(p)
          BY <1>p, <1>q, <1>t, <2>2 DEF Keeps
    <3>2. CASE InputApply(o)
      <4>1. p.kind = "input" /\ o \in Procs \ Requests
            BY <1>p, <1>t, <3>2 DEF InputApply, At, Shape
      <4>2. ~(p.sid \in DOMAIN live /\ Tombstone(o, p.sid))
            BY <1>q, <3>1, <4>1, TombstoneActs
      <4>3. \E pc \in {"store", "end"} : op' = [op EXCEPT ![o].pc = pc]
            BY <1>p, <3>2, <4>2 DEF InputApply, Go
      <4>4. r.h = p.h
            BY <1>p, <1>q, <1>t, <4>3 DEF OpRec
      <4> QED BY <1>p, <1>3, <3>1, <4>4 DEF Names
    <3>3. CASE ~InputApply(o)
      <4>1. p.pc \notin {"discard", "backend", "failed"} /\ p.kind # "reconfigure"
            BY <1>t, <1>3, <3>1 DEF Shape, CallShape, Calls, Running, AtRest
      <4>2. r.h = p.h
            BY <1>p, <1>q, <2>2, <3>3, <4>1, StepFields DEF Discard, Backend, SetupFailed, ReconfigureEnter, At, Keeps
      <4> QED BY <1>p, <1>3, <3>1, <4>2 DEF Names
    <3> QED BY <3>2, <3>3
  <2> QED BY <1>q, <1>3, <2>1, <2>2, StepKeeps DEF Ends, Running, AtRest
<1>4. CASE Running(r) /\ r.kind = "reconfigure" /\ r.base = h
  <2>1. Keeps(o)
    <3>1. ~Ends(o)
          BY <1>q, <1>4 DEF Ends, Running, AtRest
    <3>2. ~Buries(o)
      <4>1. Buries(o) => o \in Procs \ Requests
            BY <1>p, <1>t DEF Buries, InputApply, At, Shape
      <4> QED BY <1>q, <1>4, <4>1, TombstoneActs DEF Buries
    <3> QED BY <3>1, <3>2, StepKeeps
  <2> QED BY <1>p, <1>q, <1>t, <1>4, <2>1 DEF Names, Keeps
<1> QED BY <1>q, <1>t, <1>1, <1>2, <1>3, <1>4 DEF Names

(* Requests are tasks, and their captures are captures. *)
LEMMA RequestHandles ==
  ASSUME TypeInv
  PROVE  Requests \subseteq Procs /\ \A q \in Requests : 2 * q \in Handles /\ 2 * q - 1 \in Handles
<1>1. MaxRequests \in Nat
      BY DEF TypeInv, DataInv
<1> QED BY <1>1, RequestsAreProcs DEF TypeInv, Requests, Handles

(* A task that drops its guards is done. *)
LEMMA EndDone ==
  ASSUME TypeInv, NEW o \in Procs, End(o)
  PROVE  op'[o].pc = "done"
<1>1. op' = [op EXCEPT ![o] = [IdleOp EXCEPT !.pc = "done", !.kind = op[o].kind]]
      BY DEF End
<1>2. [IdleOp EXCEPT !.pc = "done", !.kind = op[o].kind].pc = "done"
      BY DEF IdleOp
<1> QED BY <1>1, <1>2 DEF TypeInv, TasksInv

(* A step of a task names no capture before it is started. *)
LEMMA BornStep ==
  ASSUME TypeInv, BornInv, NEW o \in Procs, Step(o)
  PROVE  BornInv'
<1>a. /\ \A q \in Procs \ {o} : op'[q] = op[q]
      /\ Acts(o) /\ DataInv /\ TasksInv /\ Requests \subseteq Procs
      BY StepActs, RequestsAreProcs DEF Acts, TypeInv
<1>h. \A q \in Requests : 2 * q \in Handles /\ 2 * q - 1 \in Handles
      BY <1>a DEF DataInv, Requests, Handles
<1>p. PICK p : p = op[o]
      OBVIOUS
<1>q. PICK r : r = op'[o]
      OBVIOUS
<1>t. p \in OpRec /\ Shape(o, p) /\ r \in OpRec /\ Shape(o, r) /\ op \in [Procs -> OpRec] /\ Running(p)
      BY <1>a, <1>p, <1>q DEF TasksInv, Acts
<1>d. p = [f \in DOMAIN p |-> p[f]]
      /\ DOMAIN p = {"kind", "pc", "ep", "sid", "h", "base", "rev", "own", "set", "on", "old", "then"}
      BY <1>t DEF OpRec
(* What is not born stays so, but for what a backend starts; what is born stays so. *)
<1>1. \A h \in Handles : native'[h] = "none" => native[h] = "none"
  <2>1. ASSUME NEW h \in Handles, native'[h] = "none" PROVE native[h] = "none"
        BY <2>1, NativeStep
  <2> QED BY <2>1
<1>2. \A h \in Handles : native[h] = "none" =>
        \/ native'[h] = "none"
        \/ Backend(o) /\ op[o].pc = "backend" /\ o \in Requests /\ h = OwnHandle(o, op[o]) /\ op'[o].pc = "frame"
  <2>1. ASSUME NEW h \in Handles, native[h] = "none"
        PROVE  \/ native'[h] = "none"
               \/ Backend(o) /\ op[o].pc = "backend" /\ o \in Requests /\ h = OwnHandle(o, op[o]) /\ op'[o].pc = "frame"
    <3>1. ~Names(op[o], h)
          BY <2>1 DEF BornInv
    <3> QED BY <2>1, <3>1, NativeStep
  <2> QED BY <2>1
<1>3. ASSUME NEW h \in Handles, native'[h] = "none"
      PROVE  /\ \A s \in DOMAIN live' : live'[s].handle # h
             /\ \A q \in Procs : ~Names(op'[q], h)
  <2>1. native[h] = "none"
        BY <1>1, <1>3
  <2>2. (\A s \in DOMAIN live : live[s].handle # h) /\ \A q \in Procs : ~Names(op[q], h)
        BY <2>1 DEF BornInv
  <2>3. ~Names(op'[o], h)
        BY <1>3, <2>2, NamesStep
  <2>4. \A s \in DOMAIN live' : live'[s].handle # h
    <3>1. CASE ~Register(o) /\ ~Commit(o)
          BY <2>2, <3>1, SessionsKept
    <3>2. CASE Register(o) \/ Commit(o)
      <4>1. (Making(p) \/ p.h = 0) /\ \A s \in DOMAIN live' : (live'[s].handle = p.h /\ p.h # 0) \/ (s \in DOMAIN live /\ live'[s].handle = live[s].handle)
        <5>1. live \in [DOMAIN live -> Session]
              BY <1>a DEF DataInv
        <5>2. CASE Register(o)
          <6>1. p.kind = "start" /\ p.pc = "register" /\ o \in Requests
                BY <1>p, <1>t, <5>2 DEF Register, At, Shape, Calls
          <6>2. p.h = 2 * o /\ p.h # 0
                BY <1>a, <1>t, <6>1 DEF Shape, StartShape, Requests
          <6> QED BY <1>p, <5>1, <5>2, <6>1, <6>2 DEF Register, NewSession, NewHandle, Making
        <5>3. CASE Commit(o)
          <6>1. p.kind = "reconfigure" /\ p.pc = "commit"
                BY <1>p, <5>3 DEF Commit, At
          <6> QED BY <1>p, <5>1, <5>3, <6>1, SMTT(20) DEF Commit, Making, Session
        <5> QED BY <3>2, <5>2, <5>3
      <4>2. Making(p) => p.h # h
            BY <1>p, <2>2 DEF Names
      <4> QED BY <2>2, <4>1, <4>2
    <3> QED BY <3>1, <3>2
  <2> QED BY <1>a, <2>2, <2>3, <2>4
<1>4. \A q \in Requests : op'[q].pc = "idle" => native'[2 * q] = "none" /\ native'[2 * q - 1] = "none"
  <2>1. ASSUME NEW q \in Requests, op'[q].pc = "idle" PROVE native'[2 * q] = "none" /\ native'[2 * q - 1] = "none"
    <3>1. q # o /\ op[q].pc = "idle"
          BY <1>a, <2>1 DEF Acts
    <3>2. native[2 * q] = "none" /\ native[2 * q - 1] = "none"
          BY <3>1 DEF BornInv
    <3>3. o \in Requests => OwnHandle(o, op[o]) # 2 * q /\ OwnHandle(o, op[o]) # 2 * q - 1
          BY <1>a, <3>1, SMTT(20) DEF OwnHandle, Requests, DataInv
    <3> QED BY <1>2, <1>h, <3>2, <3>3
  <2> QED BY <2>1
<1>5. \A q \in Requests : Running(op'[q]) /\ BeforeBackend(op'[q]) => native'[OwnHandle(q, op'[q])] = "none"
  <2>1. ASSUME NEW q \in Requests, Running(op'[q]), BeforeBackend(op'[q])
        PROVE  native'[OwnHandle(q, op'[q])] = "none"
    <3>0. OwnHandle(q, op'[q]) \in Handles
          BY <1>a, OwnHandles
    <3>1. CASE q # o
      <4>1. op'[q] = op[q] /\ native[OwnHandle(q, op[q])] = "none"
            BY <1>a, <2>1, <3>1 DEF BornInv
      <4>2. o \in Requests => OwnHandle(o, op[o]) # OwnHandle(q, op[q])
            BY <1>a, <3>1, SMTT(20) DEF OwnHandle, Requests, DataInv
      <4> QED BY <1>2, <3>0, <4>1, <4>2
    <3>2. CASE q = o
      <4>0. native'[OwnHandle(q, op'[q])] = native[OwnHandle(q, op'[q])] \/ ~(native[OwnHandle(q, op'[q])] = "none")
        <5>1. op'[o].pc # "frame"
              BY <2>1, <3>2 DEF BeforeBackend, InTargets
        <5> QED BY <1>2, <3>0, <5>1
      <4>1. CASE CheckCurrent(o)
        <5>1. p.kind = "reconfigure" /\ (r.pc = "end" \/ (r.pc = "enter" /\ (r.old <=> p.pc = "restore")))
              /\ p.pc \in {"current", "restore"}
          <6>1. p.kind = "reconfigure" /\ p.pc \in {"current", "restore"}
                BY <1>p, <4>1 DEF CheckCurrent
          <6>2. \/ op' = [op EXCEPT ![o].pc = "enter", ![o].old = (p.pc = "restore")]
                \/ op' = [op EXCEPT ![o].pc = "end"]
                BY <1>p, <4>1 DEF CheckCurrent, Go
          <6>3. CASE op' = [op EXCEPT ![o].pc = "end"]
                BY <1>p, <1>q, <1>t, <1>d, <6>1, <6>3
          <6>4. CASE op' = [op EXCEPT ![o].pc = "enter", ![o].old = (p.pc = "restore")]
            <7>1. PICK b \in BOOLEAN : b = (p.pc = "restore")
                  OBVIOUS
            <7>2. op' = [op EXCEPT ![o].pc = "enter", ![o].old = b]
                  BY <6>4, <7>1
            <7>3. r.pc = "enter" /\ r.old = b
                  BY <1>p, <1>q, <1>t, <1>d, <7>2
            <7> QED BY <6>1, <7>1, <7>3
          <6> QED BY <6>2, <6>3, <6>4
        <5>2. ~p.old
              BY <1>t, <5>1 DEF Shape, ReconfigureShape
        <5>3. CASE r.old
          <6>1. native[2 * o - 1] = "none" /\ OwnHandle(o, r) = 2 * o - 1
                BY <1>p, <1>t, <2>1, <3>2, <5>1, <5>2, <5>3 DEF BornInv, OwnHandle
          <6> QED BY <1>q, <3>2, <4>0, <6>1
        <5>4. CASE ~r.old
          <6>1. p.pc = "current"
                BY <1>q, <2>1, <3>2, <5>1, <5>4 DEF BeforeBackend, InTargets
          <6>2. native[OwnHandle(o, p)] = "none" /\ OwnHandle(o, p) = OwnHandle(o, r)
                BY <1>p, <1>t, <2>1, <3>2, <5>2, <5>4, <6>1 DEF BornInv, OwnHandle, BeforeBackend
          <6> QED BY <1>q, <3>2, <4>0, <6>2
        <5> QED BY <5>3, <5>4
      <4>2. CASE ~CheckCurrent(o)
        <5>1. ~End(o)
              BY <2>1, <3>2, EndDone DEF Running, AtRest
        <5>2. r.old = p.old
              BY <1>p, <1>q, <4>2, <5>1, StepFields
        <5>3. BeforeBackend(p)
          <6>1. CASE InTargets(r)
            <7>1. CASE InTargets(p)
                  BY <7>1 DEF BeforeBackend
            <7>2. CASE ~InTargets(p)
              <8>1. StartEnter(o) \/ Collect(o)
                    BY <1>p, <1>q, <6>1, <7>2, TargetsStep
              <8>2. ~Collect(o)
                    BY <2>1, <3>2, <1>p, <1>t DEF Collect, At, Shape, Calls
              <8> QED BY <1>p, <8>1, <8>2 DEF StartEnter, At, BeforeBackend
            <7> QED BY <7>1, <7>2
          <6>2. CASE ~InTargets(r)
            <7>1. r.pc \in {"claim", "current", "enter", "retire", "prepare", "leave", "failed", "backend"}
                  BY <1>q, <2>1, <3>2, <6>2 DEF BeforeBackend
            <7>2. p.pc \in {"cleanup", "cleaning"} => p.then \notin {"claim", "current", "enter", "retire", "prepare", "leave", "failed", "backend"}
                  BY <1>t, <2>1, <3>2 DEF Shape, StartShape, ReconfigureShape, Running, AtRest
            <7>3. p.pc \in {"claim", "current", "enter", "retire", "prepare", "leave", "failed", "backend", "targets"}
                  BY <1>p, <1>q, <4>2, <7>1, <7>2, StepMoves DEF Moves
            <7> QED BY <7>3 DEF BeforeBackend, InTargets
          <6> QED BY <6>1, <6>2
        <5>4. native[OwnHandle(o, p)] = "none" /\ OwnHandle(o, p) = OwnHandle(o, r)
              BY <1>p, <1>t, <2>1, <3>2, <5>2, <5>3 DEF BornInv, OwnHandle
        <5> QED BY <1>q, <3>2, <4>0, <5>4
      <4> QED BY <4>1, <4>2
    <3> QED BY <3>1, <3>2
  <2> QED BY <2>1
<1>6. \A q \in Requests : Running(op'[q]) /\ op'[q].kind = "reconfigure" /\ ~op'[q].old => native'[2 * q - 1] = "none"
  <2>1. ASSUME NEW q \in Requests, Running(op'[q]), op'[q].kind = "reconfigure", ~op'[q].old
        PROVE  native'[2 * q - 1] = "none"
    <3>1. CASE q # o
      <4>1. native[2 * q - 1] = "none"
            BY <1>a, <2>1, <3>1 DEF BornInv
      <4>2. o \in Requests => OwnHandle(o, op[o]) # 2 * q - 1
            BY <1>a, <3>1 DEF OwnHandle, Requests, DataInv
      <4> QED BY <1>2, <1>h, <4>1, <4>2
    <3>2. CASE q = o
      <4>1. p.kind = "reconfigure" /\ ~End(o)
        <5>1. Keeps(o)
          <6>1. ~Ends(o)
                BY <2>1, <3>2 DEF Ends, Running, AtRest
          <6>2. ~Buries(o)
                BY <1>p, <1>t, <3>2 DEF Buries, InputApply, At, Shape
          <6> QED BY <6>1, <6>2, StepKeeps
        <5> QED BY <1>p, <2>1, <3>2, <5>1 DEF Keeps
      <4>2. ~p.old
        <5>1. CASE CheckCurrent(o)
              BY <1>p, <1>t, <5>1 DEF CheckCurrent, Shape, ReconfigureShape
        <5>2. CASE ~CheckCurrent(o)
              BY <1>p, <2>1, <3>2, <4>1, <5>2, StepFields
        <5> QED BY <5>1, <5>2
      <4>3. native[2 * o - 1] = "none" /\ OwnHandle(o, p) # 2 * o - 1
            BY <1>a, <1>p, <1>t, <3>2, <4>1, <4>2 DEF BornInv, OwnHandle, Requests, DataInv
      <4> QED BY <1>p, <1>2, <1>h, <3>2, <4>3
    <3> QED BY <3>1, <3>2
  <2> QED BY <2>1
<1> QED BY <1>3, <1>4, <1>5, <1>6 DEF BornInv

(* What a task that begins speaks of is a session's capture. *)
LEMMA NamesBegin ==
  ASSUME TypeInv,
         Begins \/ (\E o \in Procs \ Requests, s \in DOMAIN live, on \in BOOLEAN : InputCall(o, s, on)),
         NEW q \in Procs, NEW h \in Handles, Names(op'[q], h)
  PROVE  Names(op[q], h) \/ \E s \in DOMAIN live : live[s].handle = h
<1> DEFINE Holds == Names(op[q], h) \/ \E s \in DOMAIN live : live[s].handle = h
<1>r. DataInv /\ TasksInv
      BY DEF TypeInv
<1>1. ASSUME NEW o \in Requests, NEW e \in Endpoints, StartBegin(o, e) PROVE Holds
  <2>1. Starts(o) /\ op'[o].kind = "start" /\ op'[o].pc = "claim"
        BY <1>1, StartBeginStarts, BegunWith
  <2>2. ~Names(op'[o], h)
        BY <2>1 DEF Names, InTargets, Making
  <2> QED BY <2>1, <2>2 DEF Starts
<1>2. ASSUME NEW o \in Requests, NEW s \in DOMAIN live, NEW moved \in BOOLEAN, ReconfigureBegin(o, s, moved) PROVE Holds
  <2>1. Starts(o) /\ op'[o].kind = "reconfigure" /\ op'[o].pc = "claim" /\ op'[o].base = live[s].handle
        BY <1>2, ReconfigureBeginStarts, BegunWith
  <2>2. Names(op'[o], h) => live[s].handle = h
        BY <2>1 DEF Names, InTargets, Making
  <2> QED BY <2>1, <2>2 DEF Starts
<1>3. ASSUME NEW o \in Procs \ Requests, NEW s \in DOMAIN live, StopStream(o, s) PROVE Holds
  <2>1. Starts(o) /\ op'[o].kind = "stop" /\ op'[o].set = {Target(s)} /\ Target(s).h = live[s].handle
        BY <1>r, <1>3, StopStreamStarts, BegunWith, TargetTypes
  <2>2. Names(op'[o], h) => live[s].handle = h
        BY <2>1 DEF Names, InTargets, Making
  <2> QED BY <2>1, <2>2 DEF Starts
<1>4. ASSUME NEW o \in Procs \ Requests, NEW s \in DOMAIN live, ForceStop(o, s) PROVE Holds
  <2>1. Starts(o) /\ op'[o].kind = "force" /\ op'[o].pc = "silence" /\ op'[o].h = live[s].handle
        BY <1>4, ForceStopStarts, TombstoneActs DEF ForceStop
  <2>2. Names(op'[o], h) => live[s].handle = h
        BY <2>1 DEF Names, InTargets, Making
  <2> QED BY <2>1, <2>2 DEF Starts
<1>5. ASSUME NEW o \in Procs \ Requests, NEW s \in DOMAIN live, Sweep(o, s) PROVE Holds
  <2>1. Starts(o) /\ op'[o].kind = "sweep" /\ op'[o].pc \in {"remove", "retire"} /\ op'[o].h = live[s].handle
        BY <1>5, SweepStarts, BegunWith
  <2>2. Names(op'[o], h) => live[s].handle = h
        BY <2>1 DEF Names, InTargets, Making
  <2> QED BY <2>1, <2>2 DEF Starts
<1>6. ASSUME NEW o \in Procs \ Requests, Revoke(o) PROVE Holds
  <2>1. Starts(o) /\ op'[o].kind = "revoke" /\ op'[o].pc = "collect"
        BY <1>6, RevokeStarts, BegunWith
  <2>2. ~Names(op'[o], h)
        BY <2>1 DEF Names, InTargets, Making
  <2> QED BY <2>1, <2>2 DEF Starts
<1>7. ASSUME NEW k \in Handles, CaptureEnds(k) PROVE Holds
      BY <1>7 DEF CaptureEnds
<1>8. ASSUME NEW o \in Procs \ Requests, NEW s \in DOMAIN live, NEW on \in BOOLEAN, InputCall(o, s, on) PROVE Holds
  <2>1. Starts(o) /\ op'[o].kind = "input" /\ op'[o].pc \in {"end", "apply"} /\ op'[o].h = live[s].handle
        BY <1>8, InputCallStarts, BegunWith
  <2>2. Names(op'[o], h) => live[s].handle = h
        BY <2>1 DEF Names, InTargets, Making
  <2> QED BY <2>1, <2>2 DEF Starts
<1> QED BY <1>1, <1>2, <1>3, <1>4, <1>5, <1>6, <1>7, <1>8 DEF Begins

(* A capture that ends by itself was running. *)
LEMMA NativeBegin ==
  ASSUME TypeInv,
         Begins \/ (\E o \in Procs \ Requests, s \in DOMAIN live, on \in BOOLEAN : InputCall(o, s, on)),
         NEW h \in Handles
  PROVE  native'[h] = native[h] \/ (native[h] = "running" /\ native'[h] = "ended")
<1>1. CASE native' = native
      BY <1>1
<1>2. CASE \E k \in Handles : CaptureEnds(k)
      BY <1>2 DEF CaptureEnds, TypeInv, DataInv
<1> QED BY <1>1, <1>2, BeginsKeep

(* The request that begins is new; every other task is as it was. *)
LEMMA BeginsOne ==
  ASSUME TypeInv,
         Begins \/ (\E o \in Procs \ Requests, s \in DOMAIN live, on \in BOOLEAN : InputCall(o, s, on)),
         NEW q \in Requests
  PROVE  \/ op'[q] = op[q]
         \/ /\ op[q].pc = "idle" /\ op'[q].pc = "claim" /\ op'[q].kind \in {"start", "reconfigure"}
            /\ ~op'[q].old /\ ~op[q].old
<1> DEFINE Holds == \/ op'[q] = op[q]
                    \/ /\ op[q].pc = "idle" /\ op'[q].pc = "claim" /\ op'[q].kind \in {"start", "reconfigure"}
                       /\ ~op'[q].old /\ ~op[q].old
<1>r. q \in Procs /\ Requests \subseteq Procs
      BY RequestsAreProcs DEF TypeInv
<1>s. \A o \in Procs : Starts(o) /\ o \notin Requests => op'[q] = op[q]
      BY <1>r DEF Starts
<1>1. ASSUME NEW o \in Requests, NEW e \in Endpoints, StartBegin(o, e) PROVE Holds
  <2>1. Starts(o) /\ op'[o].kind = "start" /\ op'[o].pc = "claim"
        BY <1>1, StartBeginStarts, BegunWith
  <2>2. ~op'[o].old /\ ~op[o].old
        BY <1>r, <2>1 DEF Starts, Shape, StartShape, Running, AtRest, TypeInv, TasksInv
  <2> QED BY <1>r, <2>1, <2>2 DEF Starts
<1>2. ASSUME NEW o \in Requests, NEW s \in DOMAIN live, NEW moved \in BOOLEAN, ReconfigureBegin(o, s, moved) PROVE Holds
  <2>1. Starts(o) /\ op'[o].kind = "reconfigure" /\ op'[o].pc = "claim"
        BY <1>2, ReconfigureBeginStarts, BegunWith
  <2>2. ~op'[o].old /\ ~op[o].old
        BY <1>r, <2>1 DEF Starts, Shape, ReconfigureShape, Running, AtRest, TypeInv, TasksInv
  <2> QED BY <1>r, <2>1, <2>2 DEF Starts
<1>3. ASSUME NEW o \in Procs \ Requests, NEW s \in DOMAIN live, StopStream(o, s) \/ ForceStop(o, s) \/ Sweep(o, s) PROVE Holds
      BY <1>s, <1>3, StopStreamStarts, ForceStopStarts, SweepStarts
<1>4. ASSUME NEW o \in Procs \ Requests, Revoke(o) PROVE Holds
      BY <1>s, <1>4, RevokeStarts
<1>5. ASSUME NEW h \in Handles, CaptureEnds(h) PROVE Holds
      BY <1>5 DEF CaptureEnds
<1>6. ASSUME NEW o \in Procs \ Requests, NEW s \in DOMAIN live, NEW on \in BOOLEAN, InputCall(o, s, on) PROVE Holds
      BY <1>s, <1>6, InputCallStarts
<1> QED BY <1>1, <1>2, <1>3, <1>4, <1>5, <1>6 DEF Begins

(* No step names a capture before it is started. *)
LEMMA BornNext ==
  ASSUME TypeInv, BornInv, [Next]_vars
  PROVE  BornInv'
<1>1. CASE UNCHANGED vars
      BY <1>1 DEF vars, BornInv
<1>2. ASSUME NEW o \in Procs, Step(o) PROVE BornInv'
      BY <1>2, BornStep
<1>3. CASE Begins \/ (\E o \in Procs \ Requests, s \in DOMAIN live, on \in BOOLEAN : InputCall(o, s, on))
  <2>0. /\ \A h \in Handles : native'[h] = native[h] \/ (native[h] = "running" /\ native'[h] = "ended")
        /\ \A q \in Requests : 2 * q \in Handles /\ 2 * q - 1 \in Handles
        /\ DataInv
        BY <1>3, NativeBegin, RequestHandles DEF TypeInv
  <2>1. \A h \in Handles : native'[h] = "none" =>
          /\ \A s \in DOMAIN live' : live'[s].handle # h
          /\ \A q \in Procs : ~Names(op'[q], h)
    <3>1. ASSUME NEW h \in Handles, native'[h] = "none"
          PROVE  (\A s \in DOMAIN live' : live'[s].handle # h) /\ \A q \in Procs : ~Names(op'[q], h)
      <4>1. native[h] = "none"
            BY <2>0, <3>1
      <4>2. (\A s \in DOMAIN live : live[s].handle # h) /\ \A q \in Procs : ~Names(op[q], h)
            BY <4>1 DEF BornInv
      <4> QED BY <1>3, <4>2, NamesBegin, BeginsKeepSessions
    <3> QED BY <3>1
  <2>2. \A q \in Requests : op'[q].pc = "idle" => native'[2 * q] = "none" /\ native'[2 * q - 1] = "none"
    <3>1. ASSUME NEW q \in Requests, op'[q].pc = "idle" PROVE native'[2 * q] = "none" /\ native'[2 * q - 1] = "none"
      <4>1. op[q].pc = "idle"
            BY <1>3, <3>1, BeginsOne
      <4>2. native[2 * q] = "none" /\ native[2 * q - 1] = "none"
            BY <4>1 DEF BornInv
      <4> QED BY <2>0, <4>2
    <3> QED BY <3>1
  <2>3. \A q \in Requests : Running(op'[q]) /\ BeforeBackend(op'[q]) => native'[OwnHandle(q, op'[q])] = "none"
    <3>1. ASSUME NEW q \in Requests, Running(op'[q]), BeforeBackend(op'[q])
          PROVE  native'[OwnHandle(q, op'[q])] = "none"
      <4>0. OwnHandle(q, op'[q]) \in Handles
            BY <2>0, OwnHandles
      <4>1. CASE op'[q] = op[q]
            BY <2>0, <3>1, <4>0, <4>1 DEF BornInv
      <4>2. CASE op'[q] # op[q]
        <5>1. op[q].pc = "idle" /\ ~op'[q].old
              BY <1>3, <4>2, BeginsOne
        <5>2. native[2 * q] = "none" /\ OwnHandle(q, op'[q]) = 2 * q
              BY <5>1 DEF BornInv, OwnHandle
        <5> QED BY <2>0, <4>0, <5>2
      <4> QED BY <4>1, <4>2
    <3> QED BY <3>1
  <2>4. \A q \in Requests : Running(op'[q]) /\ op'[q].kind = "reconfigure" /\ ~op'[q].old => native'[2 * q - 1] = "none"
    <3>1. ASSUME NEW q \in Requests, Running(op'[q]), op'[q].kind = "reconfigure", ~op'[q].old
          PROVE  native'[2 * q - 1] = "none"
      <4>1. CASE op'[q] = op[q]
            BY <2>0, <3>1, <4>1 DEF BornInv
      <4>2. CASE op'[q] # op[q]
        <5>1. op[q].pc = "idle"
              BY <1>3, <4>2, BeginsOne
        <5> QED BY <2>0, <5>1 DEF BornInv
      <4> QED BY <4>1, <4>2
    <3> QED BY <3>1
  <2> QED BY <2>1, <2>2, <2>3, <2>4 DEF BornInv
<1> QED BY <1>1, <1>2, <1>3 DEF Next

(* At first no capture is named. *)
LEMMA BornInit ==
  ASSUME TypeInv, Init
  PROVE  BornInv
<1>1. \A o \in Procs : op[o] = IdleOp /\ ~Running(IdleOp) /\ IdleOp.h = 0 /\ IdleOp.pc = "idle" /\ IdleOp.kind = "none"
      BY DEF Init, IdleOp, Running, AtRest
<1>2. \A o \in Procs, h \in Handles : ~Names(op[o], h)
      BY <1>1 DEF Names, InTargets, Making
<1>3. \A q \in Requests : 2 * q \in Handles /\ 2 * q - 1 \in Handles /\ q \in Procs
      BY RequestHandles
<1>4. DOMAIN live = {} /\ \A h \in Handles : native[h] = "none"
      BY DEF Init
<1> QED BY <1>1, <1>2, <1>3, <1>4 DEF BornInv

-----------------------------------------------------------------------------
(***************************************************************************)
(* What a task knows of the session it is about.                           *)
(***************************************************************************)

(* A start that has registered its session. *)
Past(p) == p.kind = "start" /\ p.pc \in {"enable", "flag", "displace", "disable", "end", "done"}
(* A reconfiguration that has not come past its commit. *)
PreCommit(p) ==
  \/ p.pc \in {"claim", "current", "enter", "retire", "prepare", "leave", "failed", "backend",
               "frame", "input", "commit", "restore"}
  \/ p.pc \in {"cleanup", "cleaning", "discard"} /\ p.then \in {"restore", "input"}
(* A reconfiguration that has stopped the old capture. *)
AfterRetire(p) ==
  \/ p.pc \in {"prepare", "failed", "backend", "frame", "input", "commit", "restore", "discard",
               "cleanup", "cleaning"}
  \/ p.pc = "leave" /\ p.then # "end"
  \/ p.pc = "enter" /\ p.old
About == {"reconfigure", "sweep", "force", "input"}

KnowInv ==
  /\ \A s \in DOMAIN live : Past(op[s])
  /\ \A o \in Procs : Running(op[o]) /\ op[o].kind \in About => Past(op[op[o].sid])
  /\ \A o \in Procs : LET p == op[o] IN
       p.kind = "reconfigure" /\ Running(p) /\ PreCommit(p) /\ p.sid \in DOMAIN live
         => live[p.sid].handle = p.base /\ live[p.sid].ep = p.ep
  /\ \A o \in Procs : LET p == op[o] IN
       p.kind = "sweep" /\ p.pc \in {"retire", "remove"} /\ p.sid \in DOMAIN live
         => live[p.sid].handle = p.h /\ live[p.sid].ep = p.ep /\ live[p.sid].owner = p.own
  /\ \A o \in Procs : LET p == op[o] IN
       p.kind = "input" /\ p.pc \in {"apply", "store"} /\ p.sid \in DOMAIN live
         => live[p.sid].handle = p.h

(* A start that has registered its session stays so. *)
LEMMA PastStays ==
  ASSUME TypeInv, NEW o \in Procs, Step(o), NEW q \in Procs, Past(op[q])
  PROVE  Past(op'[q])
<1>1. CASE q # o
      BY <1>1, StepActs DEF Acts
<1>2. CASE q = o
  <2>1. op'[o].pc \in {"enable", "flag", "displace", "disable", "end", "done"}
        BY <1>2, StepMoves, ActionPcs DEF Moves, Past
  <2>2. op'[o].kind = "start"
    <3>1. ~Buries(o)
          BY <1>2, ActionPcs DEF Buries, Past
    <3> QED BY <1>2, <3>1, StepKeeps DEF Keeps, Ends, Past
  <2> QED BY <1>2, <2>1, <2>2 DEF Past
<1> QED BY <1>1, <1>2

(* A reconfiguration does not come back before its commit. *)
LEMMA PreCommitBefore ==
  ASSUME TypeInv, NEW o \in Procs, Step(o), op'[o].kind = "reconfigure", Running(op'[o]), PreCommit(op'[o])
  PROVE  /\ op[o].kind = "reconfigure" /\ Running(op[o]) /\ PreCommit(op[o]) /\ ~Commit(o) /\ ~Register(o)
         /\ op'[o].sid = op[o].sid /\ op'[o].base = op[o].base /\ op'[o].ep = op[o].ep /\ op'[o].rev = op[o].rev
         /\ o \in Requests
<1>p. PICK p : p = op[o]
      OBVIOUS
<1>t. /\ p \in OpRec /\ Shape(o, p) /\ op \in [Procs -> OpRec] /\ Shape(o, op'[o])
      BY <1>p, StepActs DEF TypeInv, TasksInv, Acts
<1>d. p = [f \in DOMAIN p |-> p[f]]
      /\ DOMAIN p = {"kind", "pc", "ep", "sid", "h", "base", "rev", "own", "set", "on", "old", "then"}
      BY <1>t DEF OpRec
<1>1. o \in Requests
      BY <1>t DEF Shape, Calls, Running, AtRest
<1>2. Keeps(o)
  <2>1. ~Ends(o)
        BY DEF Ends, Running, AtRest
  <2>2. ~Buries(o)
    <3>1. Buries(o) => p.kind = "input"
          BY <1>p, ActionPcs DEF Buries
    <3> QED BY <1>1, <1>t, <3>1 DEF Shape
  <2> QED BY <2>1, <2>2, StepKeeps
<1>3. p.kind = "reconfigure" /\ Running(p)
      BY <1>p, <1>2, StepActs DEF Keeps, Acts
<1>4. ReconfigureShape(o, p)
      BY <1>t, <1>3 DEF Shape
<1>5. op'[o].ep = p.ep
      BY <1>p, <1>2, <1>3, <1>4, StepFields, ActionPcs DEF Keeps, ReconfigureShape, ReconfigurePcs
<1>6. ~Commit(o)
  <2>1. SUFFICES ASSUME Commit(o) PROVE FALSE
        OBVIOUS
  <2>2. CASE op'[o].pc = "end"
        BY <2>2 DEF PreCommit
  <2>3. CASE op'[o].pc \in {"cleanup", "discard"} /\ op'[o].then = "end"
        BY <2>3 DEF PreCommit
  <2> QED BY <1>p, <1>t, <1>d, <2>1, <2>2, <2>3 DEF Commit, Go, GoDiscard, GoCleanup
<1>7. PreCommit(p)
  <2>1. CASE p.pc \in {"cleanup", "cleaning"}
    <3>1. op'[o].then = p.then /\ op'[o].pc \in {"cleaning", p.then}
          BY <1>p, <1>2, <2>1, StepMoves, StepFields, ActionPcs DEF Moves, Keeps
    <3> QED BY <1>4, <2>1, <3>1 DEF PreCommit, ReconfigureShape
  <2>2. CASE p.pc = "discard"
    <3>1. \/ p.then = "input"
          \/ op'[o].then = p.then /\ op'[o].pc = "cleanup"
      <4>1. Discard(o)
            BY <1>p, <2>2, StepMoves, ActionPcs DEF Moves
      <4> QED BY <1>p, <1>t, <1>d, <4>1 DEF Discard, GoCleanup
    <3> QED BY <2>2, <3>1 DEF PreCommit
  <2>3. CASE p.pc = "end"
        BY <1>p, <1>2, <2>3, StepMoves, ActionPcs DEF Moves, Keeps
  <2> QED BY <1>4, <2>1, <2>2, <2>3 DEF ReconfigureShape, ReconfigurePcs, PreCommit
<1> QED BY <1>p, <1>1, <1>2, <1>3, <1>5, <1>6, <1>7, ActionPcs DEF Keeps

(* What one task publishes or registers is not what another one is about. *)
LEMMA SessionsOfOthers ==
  ASSUME TypeInv, GuardInv, KnowInv, NEW o \in Procs, Step(o), NEW s \in DOMAIN live',
         NEW q \in Procs \ {o}, op[q].sid = s, Guarded(op[q]) \/ (Locked(op[q]) /\ op[q].kind = "input")
  PROVE  /\ s \in DOMAIN live /\ live'[s].handle = live[s].handle /\ live'[s].ep = live[s].ep
         /\ live'[s].owner = live[s].owner
<1>0. live \in [DOMAIN live -> Session]
      BY DEF TypeInv, DataInv
<1>1. CASE Register(o)
  <2>1. s # o
    <3>1. Past(op[s])
          BY DEF KnowInv, Guarded, Locked, About
    <3>2. op[o].pc = "register"
          BY <1>1, ActionPcs
    <3> QED BY <3>1, <3>2 DEF Past
  <2> QED BY <1>1, <2>1 DEF Register
<1>2. CASE Commit(o)
  <2>1. Guarded(op[o]) /\ Locked(op[o])
        BY <1>2 DEF Commit, At, Guarded, Locked, Running, AtRest
  <2>2. op[o].sid # s
        BY <2>1 DEF GuardInv
  <2> QED BY <1>0, <1>2, <2>2 DEF Commit
<1> QED BY <1>1, <1>2, SessionsKept

(* A step of a task keeps what tasks know of their sessions true. *)
LEMMA KnowStep ==
  ASSUME TypeInv, GuardInv, KnowInv, NEW o \in Procs, Step(o)
  PROVE  KnowInv'
<1>a. /\ \A q \in Procs \ {o} : op'[q] = op[q]
      /\ Acts(o) /\ DataInv /\ TasksInv /\ Requests \subseteq Procs
      BY StepActs, RequestsAreProcs DEF Acts, TypeInv
<1>l. DOMAIN live \subseteq Requests
      BY <1>a DEF DataInv
<1>s. Shape(o, op'[o]) /\ Shape(o, op[o])
      BY <1>a DEF Acts, TasksInv
<1>1. \A s \in DOMAIN live' : Past(op'[s])
  <2>1. ASSUME NEW s \in DOMAIN live' PROVE Past(op'[s])
    <3>1. CASE s \in DOMAIN live
          BY <1>a, <1>l, <3>1, PastStays DEF KnowInv
    <3>2. CASE s \notin DOMAIN live
      <4>1. Register(o)
        <5>1. Commit(o) => DOMAIN live' = DOMAIN live
              BY DEF Commit
        <5> QED BY <3>2, <5>1, SessionsKept
      <4>2. s = o /\ o \in DOMAIN live' /\ o \notin DOMAIN live
            BY <3>2, <4>1 DEF Register
      <4>3. op'[o].kind = "start"
            BY <4>1, StepKeeps, ActionPcs DEF Keeps, Ends, Buries
      <4>4. op'[o].pc \in {"enable", "end"}
        <5>1. Go(o, IF op[o].on THEN "enable" ELSE "end")
              BY <4>1, <4>2 DEF Register
        <5>2. op \in [Procs -> OpRec]
              BY <1>a DEF TasksInv
        <5> QED BY <5>1, <5>2 DEF Go, OpRec
      <4> QED BY <4>2, <4>3, <4>4 DEF Past
    <3> QED BY <3>1, <3>2
  <2> QED BY <2>1
<1>2. \A q \in Procs : Running(op'[q]) /\ op'[q].kind \in About => Past(op'[op'[q].sid])
  <2>1. ASSUME NEW q \in Procs, Running(op'[q]), op'[q].kind \in About PROVE Past(op'[op'[q].sid])
    <3>1. op'[q].sid = op[q].sid /\ Running(op[q]) /\ op[q].kind \in About
      <4>1. CASE q # o
            BY <1>a, <2>1, <4>1
      <4>2. CASE q = o /\ Keeps(o)
            BY <1>a, <2>1, <4>2 DEF Keeps, Acts
      <4>3. CASE q = o /\ Buries(o)
        <5>1. op[o].kind = "input" /\ o \in Procs \ Requests
              BY <1>s, <4>3, ActionPcs DEF Buries, Shape
        <5> QED BY <1>a, <4>3, <5>1, TombstoneActs DEF Buries, About, Acts
      <4> QED BY <2>1, <4>1, <4>2, <4>3, StepKeeps DEF Ends, Running, AtRest
    <3>2. Past(op[op[q].sid])
          BY <3>1 DEF KnowInv
    <3>3. op[q].sid \in Procs
      <4>1. op[q].sid \in Requests
            BY <1>a, <3>1 DEF TasksInv, Shape, ReconfigureShape, CallShape, About, Calls
      <4> QED BY <1>a, <4>1
    <3> QED BY <3>1, <3>2, <3>3, PastStays
  <2> QED BY <2>1
<1>3. \A q \in Procs : op'[q].kind = "reconfigure" /\ Running(op'[q]) /\ PreCommit(op'[q]) /\ op'[q].sid \in DOMAIN live'
         => live'[op'[q].sid].handle = op'[q].base /\ live'[op'[q].sid].ep = op'[q].ep
  <2>1. ASSUME NEW q \in Procs, op'[q].kind = "reconfigure", Running(op'[q]), PreCommit(op'[q]), op'[q].sid \in DOMAIN live'
        PROVE  live'[op'[q].sid].handle = op'[q].base /\ live'[op'[q].sid].ep = op'[q].ep
    <3>1. CASE q # o
      <4>1. op'[q] = op[q] /\ Guarded(op[q])
            BY <1>a, <2>1, <3>1 DEF Guarded
      <4> QED BY <2>1, <3>1, <4>1, SessionsOfOthers DEF KnowInv
    <3>2. CASE q = o
      <4>1. /\ op[o].kind = "reconfigure" /\ Running(op[o]) /\ PreCommit(op[o]) /\ ~Commit(o) /\ ~Register(o)
            /\ op'[o].sid = op[o].sid /\ op'[o].base = op[o].base /\ op'[o].ep = op[o].ep
            BY <2>1, <3>2, PreCommitBefore
      <4> QED BY <2>1, <3>2, <4>1, SessionsKept DEF KnowInv
    <3> QED BY <3>1, <3>2
  <2> QED BY <2>1
<1>4. \A q \in Procs : op'[q].kind = "sweep" /\ op'[q].pc \in {"retire", "remove"} /\ op'[q].sid \in DOMAIN live'
         => /\ live'[op'[q].sid].handle = op'[q].h /\ live'[op'[q].sid].ep = op'[q].ep
            /\ live'[op'[q].sid].owner = op'[q].own
  <2>1. ASSUME NEW q \in Procs, op'[q].kind = "sweep", op'[q].pc \in {"retire", "remove"}, op'[q].sid \in DOMAIN live'
        PROVE  /\ live'[op'[q].sid].handle = op'[q].h /\ live'[op'[q].sid].ep = op'[q].ep
               /\ live'[op'[q].sid].owner = op'[q].own
    <3>1. CASE q # o
      <4>1. op'[q] = op[q] /\ Guarded(op[q])
            BY <1>a, <2>1, <3>1 DEF Guarded, Running, AtRest
      <4> QED BY <2>1, <3>1, <4>1, SessionsOfOthers DEF KnowInv
    <3>2. CASE q = o
      <4>1. Keeps(o)
        <5>1. ~Buries(o)
          <6>1. Buries(o) => o \in Procs \ Requests
                BY <1>s, ActionPcs DEF Buries, Shape
          <6> QED BY <2>1, <3>2, <6>1, TombstoneActs DEF Buries
        <5> QED BY <2>1, <3>2, <5>1, StepKeeps DEF Ends
      <4>2. op[o].kind = "sweep" /\ op'[o].sid = op[o].sid
            BY <2>1, <3>2, <4>1 DEF Keeps
      <4>3. op[o].pc \in {"retire", "remove", "cleanup", "cleaning", "end"} /\ (op[o].pc \in {"cleanup", "cleaning"} => op[o].then = "end")
            BY <1>a, <1>s, <4>2 DEF Shape, CallShape, Calls, Acts
      <4>4. SweepRetire(o)
            BY <2>1, <3>2, <4>2, <4>3, StepMoves DEF Moves
      <4>5. op'[o].h = op[o].h /\ op'[o].ep = op[o].ep /\ op'[o].own = op[o].own /\ op[o].pc = "retire"
            BY <4>4, StepFields, ActionPcs
      <4>6. ~Register(o) /\ ~Commit(o)
            BY <4>2, ActionPcs
      <4> QED BY <2>1, <3>2, <4>2, <4>5, <4>6, SessionsKept DEF KnowInv
    <3> QED BY <3>1, <3>2
  <2> QED BY <2>1
<1>5. \A q \in Procs : op'[q].kind = "input" /\ op'[q].pc \in {"apply", "store"} /\ op'[q].sid \in DOMAIN live'
         => live'[op'[q].sid].handle = op'[q].h
  <2>1. ASSUME NEW q \in Procs, op'[q].kind = "input", op'[q].pc \in {"apply", "store"}, op'[q].sid \in DOMAIN live'
        PROVE  live'[op'[q].sid].handle = op'[q].h
    <3>1. CASE q # o
      <4>1. op'[q] = op[q] /\ Locked(op[q])
            BY <1>a, <2>1, <3>1 DEF Locked, Running, AtRest
      <4> QED BY <2>1, <3>1, <4>1, SessionsOfOthers DEF KnowInv
    <3>2. CASE q = o
      <4>1. Keeps(o)
        <5>1. ~Buries(o)
          <6>1. Buries(o) => o \in Procs \ Requests
                BY <1>s, ActionPcs DEF Buries, Shape
          <6> QED BY <2>1, <3>2, <6>1, TombstoneActs DEF Buries
        <5> QED BY <2>1, <3>2, <5>1, StepKeeps DEF Ends
      <4>2. op[o].kind = "input" /\ op'[o].sid = op[o].sid
            BY <2>1, <3>2, <4>1 DEF Keeps
      <4>3. op[o].pc \in {"apply", "store", "end"}
            BY <1>a, <1>s, <4>2 DEF Shape, CallShape, Calls, Acts
      <4>4. InputApply(o) /\ op[o].pc = "apply" /\ op'[o].pc = "store"
            BY <2>1, <3>2, <4>2, <4>3, StepMoves, ActionPcs DEF Moves
      <4>5. op'[o].h = op[o].h
        <5>1. Go(o, "store") \/ Go(o, "end")
              BY <2>1, <3>2, <4>4, TombstoneActs, <1>s, <4>2 DEF InputApply, Shape
        <5>2. op \in [Procs -> OpRec]
              BY <1>a DEF TasksInv
        <5> QED BY <5>1, <5>2 DEF Go, OpRec
      <4>6. ~Register(o) /\ ~Commit(o)
            BY <4>2, ActionPcs
      <4> QED BY <2>1, <3>2, <4>2, <4>4, <4>5, <4>6, SessionsKept DEF KnowInv
    <3> QED BY <3>1, <3>2
  <2> QED BY <2>1
<1> QED BY <1>1, <1>2, <1>3, <1>4, <1>5 DEF KnowInv

(* What a task that begins is about is a session of the map. *)
LEMMA KnowBegins ==
  ASSUME TypeInv, KnowInv, NEW o \in Procs, Starts(o),
         DOMAIN live' \subseteq DOMAIN live,
         \A s \in DOMAIN live' : /\ live'[s].handle = live[s].handle /\ live'[s].ep = live[s].ep
                                 /\ live'[s].owner = live[s].owner,
         op'[o].kind \in About => op'[o].sid \in DOMAIN live,
         op'[o].kind = "reconfigure" => live[op'[o].sid].handle = op'[o].base /\ live[op'[o].sid].ep = op'[o].ep,
         op'[o].kind = "sweep" => /\ live[op'[o].sid].handle = op'[o].h /\ live[op'[o].sid].ep = op'[o].ep
                                  /\ live[op'[o].sid].owner = op'[o].own,
         op'[o].kind = "input" => live[op'[o].sid].handle = op'[o].h
  PROVE  KnowInv'
<1>a. /\ \A q \in Procs \ {o} : op'[q] = op[q]
      /\ op[o].pc = "idle"
      BY DEF Starts
<1>b. DOMAIN live \subseteq Procs
      BY RequestsAreProcs DEF TypeInv, DataInv
<1>c. \A q \in Procs : Past(op[q]) => Past(op'[q])
      BY <1>a DEF Past
<1>1. \A s \in DOMAIN live' : Past(op'[s])
      BY <1>b, <1>c DEF KnowInv
<1>2. \A q \in Procs : Running(op'[q]) /\ op'[q].kind \in About => Past(op'[op'[q].sid])
  <2>1. ASSUME NEW q \in Procs, Running(op'[q]), op'[q].kind \in About PROVE Past(op'[op'[q].sid])
    <3>1. CASE q = o
      <4>1. Past(op[op'[o].sid])
            BY <2>1, <3>1 DEF KnowInv
      <4> QED BY <1>b, <1>c, <2>1, <3>1, <4>1
    <3>2. CASE q # o
      <4>1. Past(op[op[q].sid]) /\ op'[q] = op[q]
            BY <1>a, <2>1, <3>2 DEF KnowInv
      <4>2. op[q].sid \in Procs
        <5>1. op[q].sid \in Requests
              BY <1>a, <2>1, <4>1 DEF TypeInv, TasksInv, Shape, ReconfigureShape, CallShape, About, Calls
        <5> QED BY <5>1, RequestsAreProcs DEF TypeInv
      <4> QED BY <1>c, <4>1, <4>2
    <3> QED BY <3>1, <3>2
  <2> QED BY <2>1
<1>3. \A q \in Procs : op'[q].kind = "reconfigure" /\ Running(op'[q]) /\ PreCommit(op'[q]) /\ op'[q].sid \in DOMAIN live'
         => live'[op'[q].sid].handle = op'[q].base /\ live'[op'[q].sid].ep = op'[q].ep
      BY <1>a DEF KnowInv
<1>4. \A q \in Procs : op'[q].kind = "sweep" /\ op'[q].pc \in {"retire", "remove"} /\ op'[q].sid \in DOMAIN live'
         => /\ live'[op'[q].sid].handle = op'[q].h /\ live'[op'[q].sid].ep = op'[q].ep
            /\ live'[op'[q].sid].owner = op'[q].own
      BY <1>a DEF KnowInv
<1>5. \A q \in Procs : op'[q].kind = "input" /\ op'[q].pc \in {"apply", "store"} /\ op'[q].sid \in DOMAIN live'
         => live'[op'[q].sid].handle = op'[q].h
      BY <1>a DEF KnowInv
<1> QED BY <1>1, <1>2, <1>3, <1>4, <1>5 DEF KnowInv

(* Every step keeps what tasks know of their sessions true. *)
LEMMA KnowNext ==
  ASSUME TypeInv, GuardInv, KnowInv, [Next]_vars
  PROVE  KnowInv'
<1>1. CASE UNCHANGED vars
      BY <1>1 DEF vars, KnowInv
<1>2. ASSUME NEW o \in Requests, NEW e \in Endpoints, StartBegin(o, e) PROVE KnowInv'
  <2>1. o \in Procs /\ Starts(o) /\ op'[o].kind = "start"
        BY <1>2, StartBeginStarts, BegunWith, RequestsAreProcs DEF TypeInv
  <2>2. live' = live
        BY <1>2 DEF StartBegin
  <2>3. op'[o].kind \notin About
        BY <2>1 DEF About
  <2> QED BY <2>1, <2>2, <2>3, KnowBegins
<1>3. ASSUME NEW o \in Requests, NEW s \in DOMAIN live, NEW moved \in BOOLEAN, ReconfigureBegin(o, s, moved)
      PROVE  KnowInv'
  <2>1. /\ o \in Procs /\ Starts(o) /\ op'[o].kind = "reconfigure" /\ op'[o].sid = s
        /\ op'[o].ep = live[s].ep /\ op'[o].base = live[s].handle
        BY <1>3, ReconfigureBeginStarts, BegunWith, RequestsAreProcs DEF TypeInv
  <2> QED BY <1>3, <2>1, KnowBegins, BeginsKeepSessions DEF Begins
<1>4. ASSUME NEW o \in Procs \ Requests, NEW s \in DOMAIN live, StopStream(o, s) PROVE KnowInv'
  <2>1. Starts(o) /\ op'[o].kind \notin About /\ op'[o].kind = "stop"
        BY <1>4, StopStreamStarts, BegunWith DEF About
  <2> QED BY <1>4, <2>1, KnowBegins, BeginsKeepSessions DEF Begins
<1>5. ASSUME NEW o \in Procs \ Requests, NEW s \in DOMAIN live, ForceStop(o, s) PROVE KnowInv'
  <2>1. Starts(o) /\ op'[o].kind = "force" /\ op'[o].sid = s
        BY <1>5, ForceStopStarts, TombstoneActs DEF ForceStop
  <2> QED BY <1>5, <2>1, KnowBegins, BeginsKeepSessions DEF Begins
<1>6. ASSUME NEW o \in Procs \ Requests, NEW s \in DOMAIN live, Sweep(o, s) PROVE KnowInv'
  <2>1. /\ Starts(o) /\ op'[o].kind = "sweep" /\ op'[o].sid = s /\ op'[o].ep = live[s].ep
        /\ op'[o].h = live[s].handle /\ op'[o].own = live[s].owner
        BY <1>6, SweepStarts, BegunWith
  <2> QED BY <1>6, <2>1, KnowBegins, BeginsKeepSessions DEF Begins
<1>7. ASSUME NEW o \in Procs \ Requests, Revoke(o) PROVE KnowInv'
  <2>1. Starts(o) /\ op'[o].kind \notin About /\ op'[o].kind = "revoke"
        BY <1>7, RevokeStarts, BegunWith DEF About
  <2> QED BY <1>7, <2>1, KnowBegins, BeginsKeepSessions DEF Begins
<1>8. ASSUME NEW h \in Handles, CaptureEnds(h) PROVE KnowInv'
      BY <1>8 DEF CaptureEnds, KnowInv
<1>9. ASSUME NEW o \in Procs \ Requests, NEW s \in DOMAIN live, NEW on \in BOOLEAN, InputCall(o, s, on)
      PROVE  KnowInv'
  <2>1. Starts(o) /\ op'[o].kind = "input" /\ op'[o].sid = s /\ op'[o].h = live[s].handle
        BY <1>9, InputCallStarts, BegunWith
  <2> QED BY <1>9, <2>1, KnowBegins, BeginsKeepSessions
<1> QED BY <1>1, <1>2, <1>3, <1>4, <1>5, <1>6, <1>7, <1>8, <1>9, KnowStep, NextSteps

(* At first no task knows anything. *)
LEMMA KnowInit ==
  ASSUME TypeInv, Init
  PROVE  KnowInv
<1>1. \A o \in Procs : ~Running(op[o]) /\ op[o].kind = "none"
      BY DEF Init, IdleOp, Running, AtRest
<1>2. DOMAIN live = {}
      BY DEF Init
<1> QED BY <1>1, <1>2 DEF KnowInv

-----------------------------------------------------------------------------
(***************************************************************************)
(* Every running capture is accounted for.                                 *)
(***************************************************************************)

(* A task that has still to stop a capture. *)
Retiring(p, h) ==
  \/ InTargets(p) /\ \E t \in p.set : t.h = h /\ ~t.released
  \/ p.kind = "force" /\ p.pc = "silence" /\ p.h = h
(* A capture that a session may be forgotten with. *)
Safe(h) == native[h] # "running" \/ h \in pendingRet \/ \E o \in Procs : Retiring(op[o], h)

(* What a reconfiguration has stopped does not run again. *)
StoppedInv ==
  /\ \A s \in Requests : retired[s] # 0 => native[retired[s]] = "stopped"
  /\ \A o \in Procs : Running(op[o]) /\ op[o].kind = "reconfigure" /\ AfterRetire(op[o])
       => native[op[o].base] = "stopped"

AccountInv ==
  /\ \A h \in Handles : native[h] = "running" /\ h \notin pendingRet =>
       \/ \E s \in DOMAIN live : live[s].handle = h /\ ~live[s].released
       \/ \E o \in Procs : Retiring(op[o], h) \/ (Making(op[o]) /\ op[o].h = h)
  /\ \A s \in DOMAIN live : live[s].released => Safe(live[s].handle)
  /\ \A o \in Procs : op[o].kind = "sweep" /\ op[o].pc = "remove" /\ op[o].sid \in DOMAIN live => Safe(op[o].h)
  /\ \A o \in Procs : op[o].kind = "stop" /\ InTargets(op[o]) => \A t, u \in op[o].set : t = u

(* A capture that was started once is not started again. *)
LEMMA NotAgain ==
  ASSUME TypeInv, BornInv, Next, NEW h \in Handles, native[h] # "none"
  PROVE  /\ native[h] = "stopped" => native'[h] = "stopped"
         /\ native[h] # "running" => native'[h] # "running"
<1>1. ASSUME NEW o \in Procs, Step(o)
      PROVE  /\ native[h] = "stopped" => native'[h] = "stopped"
             /\ native[h] # "running" => native'[h] # "running"
  <2>1. ~(Backend(o) /\ op[o].pc = "backend" /\ o \in Requests /\ h = OwnHandle(o, op[o]))
        BY DEF BornInv, Running, AtRest, BeforeBackend
  <2> QED BY <1>1, <2>1, NativeStep
<1>2. CASE Begins \/ (\E o \in Procs \ Requests, s \in DOMAIN live, on \in BOOLEAN : InputCall(o, s, on))
      BY <1>2, NativeBegin
<1> QED BY <1>1, <1>2 DEF Next

(* A reconfiguration past its retirement was so before, or has just stopped the old capture. *)
LEMMA AfterRetireBefore ==
  ASSUME TypeInv, NEW o \in Procs, Step(o), op'[o].kind = "reconfigure", Running(op'[o]), AfterRetire(op'[o])
  PROVE  /\ op[o].kind = "reconfigure" /\ Running(op[o]) /\ op'[o].base = op[o].base
         /\ AfterRetire(op[o]) \/ (RetireOld(o) /\ Stopped(op[o].base))
<1>p. PICK p : p = op[o]
      OBVIOUS
<1>t. /\ p \in OpRec /\ Shape(o, p) /\ op \in [Procs -> OpRec] /\ Shape(o, op'[o])
      BY <1>p, StepActs DEF TypeInv, TasksInv, Acts
<1>d. p = [f \in DOMAIN p |-> p[f]]
      /\ DOMAIN p = {"kind", "pc", "ep", "sid", "h", "base", "rev", "own", "set", "on", "old", "then"}
      BY <1>t DEF OpRec
<1>1. o \in Requests
      BY <1>t DEF Shape, Calls, Running, AtRest
<1>2. Keeps(o)
  <2>1. ~Ends(o)
        BY DEF Ends, Running, AtRest
  <2>2. ~Buries(o)
    <3>1. Buries(o) => p.kind = "input"
          BY <1>p, ActionPcs DEF Buries
    <3> QED BY <1>1, <1>t, <3>1 DEF Shape
  <2> QED BY <2>1, <2>2, StepKeeps
<1>3. p.kind = "reconfigure" /\ Running(p) /\ op'[o].base = p.base
      BY <1>p, <1>2, StepActs DEF Keeps, Acts
<1>4. ReconfigureShape(o, p)
      BY <1>t, <1>3 DEF Shape
<1>5. CASE p.pc = "retire"
  <2>1. RetireOld(o)
        BY <1>p, <1>3, <1>5, StepMoves, ActionPcs DEF Moves
  <2>2. CASE op' = [op EXCEPT ![o].pc = "leave", ![o].then = "end"]
        BY <1>p, <1>t, <1>d, <2>2 DEF AfterRetire
  <2> QED BY <1>p, <1>3, <2>1, <2>2 DEF RetireOld
<1>6. CASE p.pc = "enter"
  <2>1. ReconfigureEnter(o)
        BY <1>p, <1>3, <1>6, StepMoves, ActionPcs DEF Moves
  <2>2. ~p.old => op'[o].pc \in {"retire", "end"}
        BY <1>p, <1>t, <1>d, <2>1 DEF ReconfigureEnter, Go
  <2> QED BY <1>p, <1>3, <1>6, <2>2 DEF AfterRetire
<1>7. CASE p.pc = "leave" /\ p.then = "end"
  <2>1. op'[o].pc = "end"
        BY <1>p, <1>7, StepMoves, ActionPcs DEF Moves
  <2> QED BY <2>1 DEF AfterRetire
<1>8. CASE p.pc \in {"claim", "current", "end"}
  <2>1. op'[o].pc \in {"current", "enter", "end", "done"}
        BY <1>p, <1>3, <1>8, StepMoves, ActionPcs DEF Moves
  <2>2. op'[o].pc = "enter" => ~op'[o].old
    <3>1. ASSUME op'[o].pc = "enter" PROVE ~op'[o].old
      <4>1. CASE p.pc = "current"
        <5>1. CheckCurrent(o)
              BY <1>p, <1>3, <4>1, StepMoves, ActionPcs DEF Moves
        <5>2. PICK b \in BOOLEAN : b = (p.pc = "restore")
              OBVIOUS
        <5>3. ~b
              BY <4>1, <5>2
        <5>4. op' = [op EXCEPT ![o].pc = "enter", ![o].old = b] \/ op' = [op EXCEPT ![o].pc = "end"]
              BY <1>p, <5>1, <5>2 DEF CheckCurrent, Go
        <5> QED BY <1>p, <1>t, <1>d, <3>1, <5>3, <5>4
      <4>2. CASE p.pc = "claim"
        <5>1. Claim(o)
              BY <1>p, <1>3, <4>2, StepMoves, ActionPcs DEF Moves
        <5>2. ~p.old /\ ~CheckCurrent(o) /\ ~End(o)
              BY <1>p, <1>4, <4>2, ActionPcs DEF ReconfigureShape
        <5> QED BY <1>p, <5>2, StepFields
      <4>3. CASE p.pc = "end"
            BY <1>p, <3>1, <4>3, StepMoves, ActionPcs DEF Moves
      <4> QED BY <1>8, <4>1, <4>2, <4>3
    <3> QED BY <3>1
  <2> QED BY <2>1, <2>2 DEF AfterRetire
<1> QED BY <1>p, <1>3, <1>4, <1>5, <1>6, <1>7, <1>8 DEF ReconfigureShape, ReconfigurePcs, AfterRetire

(* What a reconfiguration has stopped stays stopped. *)
LEMMA StoppedNext ==
  ASSUME TypeInv, BornInv, StoppedInv, [Next]_vars
  PROVE  StoppedInv'
<1>0. CASE UNCHANGED vars
      BY <1>0 DEF vars, StoppedInv
<1>a. SUFFICES ASSUME Next PROVE StoppedInv'
      BY <1>0
<1>k. \A h \in Handles : native[h] = "stopped" => native'[h] = "stopped"
      BY <1>a, NotAgain
<1>r. /\ retired \in [Requests -> 0..2 * MaxRequests] /\ MaxRequests \in Nat
      /\ \A s \in Requests : retired[s] # 0 => retired[s] \in Handles
      BY DEF TypeInv, DataInv, Handles
<1>1. ASSUME NEW o \in Procs, Step(o) PROVE StoppedInv'
  <2>a. /\ \A q \in Procs \ {o} : op'[q] = op[q]
        /\ op[o] \in OpRec /\ Shape(o, op[o])
        BY <1>1, StepActs DEF Acts, TypeInv, TasksInv
  <2>o. RetireOld(o) /\ Stopped(op[o].base) => native'[op[o].base] = "stopped" /\ op[o].base \in Handles
    <3>1. RetireOld(o) => op[o].base \in Handles
          BY <2>a, ActionPcs DEF Shape, ReconfigureShape, Running, AtRest
    <3>2. native \in [Handles -> {"none", "running", "ended", "stopped"}]
          BY DEF TypeInv, DataInv
    <3> QED BY <3>1, <3>2 DEF Stopped
  <2>1. \A s \in Requests : retired'[s] # 0 => native'[retired'[s]] = "stopped"
    <3>1. ASSUME NEW s \in Requests, retired'[s] # 0 PROVE native'[retired'[s]] = "stopped"
      <4>1. \/ retired'[s] = retired[s]
            \/ RetireOld(o) /\ retired'[s] = op[o].base /\ Stopped(op[o].base)
        <5>1. CASE End(o)
              BY <1>r, <3>1, <5>1 DEF End
        <5>2. CASE Commit(o)
              BY <1>r, <3>1, <5>2 DEF Commit
        <5>3. CASE RetireOld(o)
          <6>1. StopFails(op[o].base) => retired' = retired
                BY <5>3 DEF RetireOld, StopFails, Stopped
          <6>2. \/ Stopped(op[o].base) /\ retired' = [retired EXCEPT ![op[o].sid] = op[o].base]
                \/ retired' = retired
                BY <5>3 DEF RetireOld
          <6> QED BY <1>r, <5>3, <6>2
        <5>4. CASE retired' = retired
              BY <5>4
        <5> QED BY <1>1, <5>1, <5>2, <5>3, <5>4, GuardSteps
      <4>2. CASE retired'[s] = retired[s]
            BY <1>k, <1>r, <3>1, <4>2 DEF StoppedInv
      <4> QED BY <2>o, <4>1, <4>2
    <3> QED BY <3>1
  <2>2. \A q \in Procs : Running(op'[q]) /\ op'[q].kind = "reconfigure" /\ AfterRetire(op'[q])
          => native'[op'[q].base] = "stopped"
    <3>1. ASSUME NEW q \in Procs, Running(op'[q]), op'[q].kind = "reconfigure", AfterRetire(op'[q])
          PROVE  native'[op'[q].base] = "stopped"
      <4>b. ASSUME Running(op[q]), op[q].kind = "reconfigure", AfterRetire(op[q]), op'[q].base = op[q].base
            PROVE  native'[op'[q].base] = "stopped"
        <5>1. op[q].base \in Handles
              BY <4>b DEF TypeInv, TasksInv, Shape, ReconfigureShape
        <5> QED BY <1>k, <4>b, <5>1 DEF StoppedInv
      <4>1. CASE q # o
            BY <2>a, <3>1, <4>1, <4>b
      <4>2. CASE q = o
            BY <1>1, <2>o, <3>1, <4>2, <4>b, AfterRetireBefore
      <4> QED BY <4>1, <4>2
    <3> QED BY <3>1
  <2> QED BY <2>1, <2>2 DEF StoppedInv
<1>2. CASE Begins \/ (\E o \in Procs \ Requests, s \in DOMAIN live, on \in BOOLEAN : InputCall(o, s, on))
  <2>1. retired' = retired
        BY <1>2, BeginsKeep
  <2>2. \A q \in Procs : op'[q].kind = "reconfigure" /\ AfterRetire(op'[q]) => op'[q] = op[q]
    <3>1. ASSUME NEW q \in Procs, op'[q].kind = "reconfigure", AfterRetire(op'[q]) PROVE op'[q] = op[q]
      <4>1. q \in Requests \/ op'[q] = op[q]
        <5>1. Shape(q, op'[q])
              BY <1>a, TypeStep DEF TypeInv, TasksInv
        <5> QED BY <3>1, <5>1 DEF Shape, Calls
      <4>2. op'[q].pc # "claim"
            BY <3>1 DEF AfterRetire
      <4> QED BY <1>2, <4>1, <4>2, BeginsOne
    <3> QED BY <3>1
  <2>3. \A q \in Procs : Running(op[q]) /\ op[q].kind = "reconfigure" => op[q].base \in Handles
        BY DEF TypeInv, TasksInv, Shape, ReconfigureShape
  <2> QED BY <1>k, <1>r, <2>1, <2>2, <2>3 DEF StoppedInv
<1> QED BY <1>a, <1>1, <1>2 DEF Next

(* At first nothing is retired. *)
LEMMA StoppedInit ==
  ASSUME TypeInv, Init
  PROVE  StoppedInv
<1>1. \A o \in Procs : ~Running(op[o])
      BY DEF Init, IdleOp, Running, AtRest
<1> QED BY <1>1 DEF Init, StoppedInv

(* A task that has still to stop a capture stops it, or records that it could not. *)
LEMMA RetiringStays ==
  ASSUME TypeInv, StoppedInv, AccountInv, NEW o \in Procs, Step(o), NEW q \in Procs, NEW h \in Handles,
         Retiring(op[q], h)
  PROVE  Retiring(op'[q], h) \/ native'[h] # "running" \/ h \in pendingRet'
<1>p. PICK p : p = op[o]
      OBVIOUS
<1>t. /\ p \in OpRec /\ Shape(o, p) /\ op \in [Procs -> OpRec]
      /\ native \in [Handles -> {"none", "running", "ended", "stopped"}] /\ pendingRet \subseteq Handles
      /\ \A r \in Procs \ {o} : op'[r] = op[r]
      /\ MaxRequests \in Nat
      BY <1>p, StepActs DEF TypeInv, TasksInv, DataInv, Acts
<1>d. p = [f \in DOMAIN p |-> p[f]]
      /\ DOMAIN p = {"kind", "pc", "ep", "sid", "h", "base", "rev", "own", "set", "on", "old", "then"}
      BY <1>t DEF OpRec
<1> DEFINE Done == native'[h] # "running" \/ h \in pendingRet'
<1>0. h # 0
      BY <1>t DEF Handles
<1>r. ASSUME NEW s \in Requests, Retires(s, h) PROVE Done
  <2>1. CASE retired[s] = h
    <3>1. native[h] = "stopped"
          BY <1>0, <2>1 DEF StoppedInv
    <3> QED BY <1>r, <2>1, <3>1 DEF Retires, captures
  <2>2. CASE Stopped(h)
        BY <1>t, <2>2 DEF Stopped
  <2> QED BY <1>r, <2>1, <2>2 DEF Retires
<1>f. StopFails(h) => Done
      BY DEF StopFails
<1>1. CASE q # o
      BY <1>t, <1>1
<1>2. CASE q = o /\ p.kind = "force" /\ p.pc = "silence" /\ p.h = h
  <2>1. Silence(o)
        BY <1>p, <1>2, StepMoves, ActionPcs DEF Moves
  <2>2. p.sid \in Requests
        BY <1>t, <1>2 DEF Shape, CallShape, Calls, Running, AtRest
  <2>3. CASE Retires(p.sid, h)
        BY <1>r, <2>2, <2>3
  <2>4. CASE pendingRet' = pendingRet \cup {h}
        BY <2>4
  <2> QED BY <1>p, <1>2, <2>1, <2>3, <2>4 DEF Silence, Stranded
<1>3. CASE q = o /\ InTargets(p) /\ \E t \in p.set : t.h = h /\ ~t.released
  <2>1. PICK t \in p.set : t.h = h /\ ~t.released
        BY <1>3
  <2>k. p.set \subseteq TargetRec
        BY <1>t, <1>3 DEF Shape, StartShape, ReconfigureShape, CallShape, InTargets, Running, AtRest, OpRec, Kinds, Calls,
           ReconfigurePcs
  <2>2. CASE p.pc \in {"cleanup", "cleaning"}
    <3>1. CleanupBegin(o) \/ CleanupDo(o)
          BY <1>p, <2>2, StepMoves DEF Moves
    <3>2. op'[o].pc \in {"cleaning", "targets"} /\ op'[o].then = p.then /\ op'[o].set = p.set
          BY <1>p, <1>t, <1>d, <1>3, <2>2, <3>1 DEF CleanupBegin, CleanupDo, Go, InTargets
    <3> QED BY <1>3, <2>1, <2>2, <3>2 DEF Retiring, InTargets
  <2>3. CASE p.pc = "targets"
    <3>1. Targets(o)
          BY <1>p, <2>3, StepMoves, ActionPcs DEF Moves
    <3>2. ASSUME NEW u \in p.set, NEW pc \in {"cleanup", "end"},
                 op' = [op EXCEPT ![o].set = p.set \ {u}, ![o].ep = u.ep, ![o].own = u.own,
                                  ![o].pc = pc, ![o].then = "targets"],
                 u.released \/ Retires(u.sid, u.h) \/ StopFails(u.h),
                 pc = "end" => p.kind = "stop" /\ StopFails(u.h)
          PROVE  Retiring(op'[q], h) \/ Done
      <4>1. op'[o].set = p.set \ {u} /\ op'[o].pc = pc /\ op'[o].then = "targets"
            BY <1>p, <1>t, <1>d, <3>2
      <4>2. CASE u = t
        <5>1. u.sid \in Requests
              BY <2>k DEF TargetRec
        <5> QED BY <1>r, <1>f, <2>1, <3>2, <4>2, <5>1
      <4>3. CASE u # t /\ pc = "cleanup"
            BY <1>3, <2>1, <4>1, <4>3 DEF Retiring, InTargets
      <4>4. CASE u # t /\ pc = "end"
        <5>1. t = u
              BY <1>p, <1>3, <2>1, <3>2, <4>4 DEF AccountInv
        <5> QED BY <4>4, <5>1
      <4> QED BY <4>2, <4>3, <4>4
    <3>3. \E u \in p.set, pc \in {"cleanup", "end"} :
            /\ op' = [op EXCEPT ![o].set = p.set \ {u}, ![o].ep = u.ep, ![o].own = u.own,
                                ![o].pc = pc, ![o].then = "targets"]
            /\ u.released \/ Retires(u.sid, u.h) \/ StopFails(u.h)
            /\ pc = "end" => p.kind = "stop" /\ StopFails(u.h)
          BY <1>p, <2>1, <3>1 DEF Targets
    <3> QED BY <3>2, <3>3
  <2> QED BY <1>3, <2>2, <2>3 DEF InTargets
<1> QED BY <1>p, <1>1, <1>2, <1>3 DEF Retiring

(* A capture a session may be forgotten with stays so under a step. *)
LEMMA SafeStays ==
  ASSUME TypeInv, BornInv, StoppedInv, AccountInv, NEW o \in Procs, Step(o), NEW h \in Handles,
         native[h] # "none", Safe(h)
  PROVE  Safe(h)'
<1>1. CASE native[h] # "running"
  <2>2. native'[h] # "running"
    <3>1. ~(Backend(o) /\ op[o].pc = "backend" /\ o \in Requests /\ h = OwnHandle(o, op[o]))
          BY DEF BornInv, Running, AtRest, BeforeBackend
    <3> QED BY <1>1, <3>1, NativeStep
  <2> QED BY <2>2 DEF Safe
<1>2. CASE h \in pendingRet
      BY <1>2, NativeStep DEF Safe
<1>3. CASE \E q \in Procs : Retiring(op[q], h)
      BY <1>3, RetiringStays DEF Safe
<1> QED BY <1>1, <1>2, <1>3 DEF Safe

(* A capture in the making is published, or discarded. *)
LEMMA MakingStays ==
  ASSUME TypeInv, GuardInv, NEW o \in Procs, Step(o), NEW h \in Handles, Making(op[o]), op[o].h = h
  PROVE  \/ Making(op'[o]) /\ op'[o].h = h
         \/ \E s \in DOMAIN live' : live'[s].handle = h /\ ~live'[s].released
         \/ native'[h] # "running" \/ h \in pendingRet'
<1>p. PICK p : p = op[o]
      OBVIOUS
<1>t. /\ p \in OpRec /\ Shape(o, p) /\ op \in [Procs -> OpRec] /\ live \in [DOMAIN live -> Session]
      /\ native \in [Handles -> {"none", "running", "ended", "stopped"}] /\ h # 0
      BY <1>p DEF TypeInv, TasksInv, DataInv, Making
<1>d. p = [f \in DOMAIN p |-> p[f]]
      /\ DOMAIN p = {"kind", "pc", "ep", "sid", "h", "base", "rev", "own", "set", "on", "old", "then"}
      BY <1>t DEF OpRec
<1>1. CASE p.pc = "frame"
  <2>1. FirstFrame(o)
        BY <1>p, <1>1, StepMoves, ActionPcs DEF Moves
  <2>2. op'[o].kind = p.kind /\ op'[o].h = p.h
        BY <1>p, <1>t, <1>d, <2>1 DEF FirstFrame, Go, GoDiscard
  <2>3. op'[o].pc = "discard" \/ op'[o].pc = IF p.kind = "start" THEN "policy" ELSE "input"
        BY <1>p, <1>t, <1>d, <2>1 DEF FirstFrame, Go, GoDiscard
  <2> QED BY <1>p, <2>2, <2>3 DEF Making
<1>2. CASE p.pc = "policy"
  <2>1. Policy(o)
        BY <1>p, <1>2, StepMoves, ActionPcs DEF Moves
  <2>2. op'[o].kind = p.kind /\ op'[o].h = p.h /\ op'[o].pc \in {"register", "discard"}
        BY <1>p, <1>t, <1>d, <2>1, StepMoves, ActionPcs DEF Moves, Policy, GoDiscard
  <2> QED BY <1>p, <1>2, <2>2 DEF Making
<1>3. CASE p.pc = "register"
  <2>1. Register(o)
        BY <1>p, <1>3, StepMoves, ActionPcs DEF Moves
  <2>2. CASE GoDiscard(o, "end")
    <3>1. op'[o].kind = p.kind /\ op'[o].h = p.h /\ op'[o].pc = "discard"
          BY <1>p, <1>t, <1>d, <2>2 DEF GoDiscard
    <3> QED BY <1>p, <1>3, <3>1 DEF Making
  <2>3. CASE live' = [s \in DOMAIN live \cup {o} |-> IF s = o THEN NewSession(o) ELSE live[s]]
    <3>1. NewSession(o).handle = h /\ ~NewSession(o).released
          BY DEF NewSession, NewHandle
    <3> QED BY <2>3, <3>1
  <2> QED BY <2>1, <2>2, <2>3 DEF Register
<1>4. CASE p.pc = "input"
  <2>0. p.kind = "reconfigure"
        BY <1>p, <1>4 DEF Making
  <2>1. ApplyInput(o)
        BY <1>p, <2>0, <1>4, StepMoves, ActionPcs DEF Moves
  <2>2. \E b \in BOOLEAN : op' = [op EXCEPT ![o].pc = "commit", ![o].on = b]
        BY <2>1 DEF ApplyInput
  <2>3. op'[o].kind = p.kind /\ op'[o].h = p.h /\ op'[o].pc = "commit"
        BY <1>p, <1>t, <1>d, <2>2
  <2> QED BY <1>p, <2>0, <2>3 DEF Making
<1>5. CASE p.pc = "commit"
  <2>0. p.kind = "reconfigure"
        BY <1>p, <1>5 DEF Making
  <2>1. Commit(o)
        BY <1>p, <2>0, <1>5, StepMoves, ActionPcs DEF Moves
  <2>2. CASE GoDiscard(o, "end")
    <3>1. op'[o].kind = p.kind /\ op'[o].h = p.h /\ op'[o].pc = "discard"
          BY <1>p, <1>t, <1>d, <2>2 DEF GoDiscard
    <3> QED BY <1>p, <2>0, <3>1 DEF Making
  <2>3. CASE Current(o) /\ live' = [live EXCEPT ![p.sid].handle = p.h, ![p.sid].owner = o, ![p.sid].input = p.on]
    <3>1. p.sid \in DOMAIN live /\ ~live[p.sid].released
          BY <1>p, <2>3 DEF Current, Accepting
    <3>2. p.sid \in DOMAIN live' /\ live'[p.sid].handle = h /\ ~live'[p.sid].released
      <4>1. PICK x : x = live[p.sid]
            OBVIOUS
      <4>2. x = [f \in DOMAIN x |-> x[f]]
            /\ DOMAIN x = {"ep", "handle", "input", "released", "stopped", "rev", "owner"}
            BY <1>t, <3>1, <4>1 DEF Session
      <4>3. live'[p.sid] = [x EXCEPT !.handle = p.h, !.owner = o, !.input = p.on] /\ p.sid \in DOMAIN live'
            BY <1>t, <2>3, <3>1, <4>1
      <4> QED BY <1>p, <3>1, <4>1, <4>2, <4>3
    <3> QED BY <3>2
  <2> QED BY <1>p, <1>t, <2>1, <2>2, <2>3 DEF Commit
<1>6. CASE p.pc = "discard"
  <2>1. Discard(o)
        BY <1>p, <1>6, StepMoves, ActionPcs DEF Moves
  <2>2. Stopped(h) \/ pendingRet' = pendingRet \cup {h}
        BY <1>p, <2>1 DEF Discard, Discarded, Stranded
  <2> QED BY <1>t, <2>2 DEF Stopped
<1> QED BY <1>p, <1>1, <1>2, <1>3, <1>4, <1>5, <1>6 DEF Making

(* The old capture of a session whose replacement is published or given up is stopped. *)
LEMMA CommitStopped ==
  ASSUME TypeInv, KnowInv, StoppedInv, NEW o \in Procs, Commit(o), op[o].sid \in DOMAIN live
  PROVE  native[live[op[o].sid].handle] = "stopped" /\ UNCHANGED <<native, pendingRet>>
<1>1. op[o].kind = "reconfigure" /\ op[o].pc = "commit"
      BY ActionPcs
<1>2. live[op[o].sid].handle = op[o].base /\ native[op[o].base] = "stopped"
      BY <1>1 DEF KnowInv, StoppedInv, Running, AtRest, PreCommit, AfterRetire
<1> QED BY <1>2 DEF Commit, captures

(* A session that is no tombstone keeps its capture, unless the capture is safe. *)
LEMMA WitnessStays ==
  ASSUME TypeInv, BornInv, KnowInv, StoppedInv, AccountInv, NEW o \in Procs, Step(o),
         NEW s \in DOMAIN live, NEW h \in Handles, live[s].handle = h, ~live[s].released
  PROVE  (s \in DOMAIN live' /\ live'[s].handle = h /\ ~live'[s].released) \/ Safe(h)'
<1> DEFINE Holds == (s \in DOMAIN live' /\ live'[s].handle = h /\ ~live'[s].released) \/ Safe(h)'
<1>p. PICK p : p = op[o]
      OBVIOUS
<1>x. PICK x : x = live[s]
      OBVIOUS
<1>t. /\ p \in OpRec /\ Shape(o, p) /\ op \in [Procs -> OpRec] /\ live \in [DOMAIN live -> Session]
      /\ x = [f \in DOMAIN x |-> x[f]]
      /\ DOMAIN x = {"ep", "handle", "input", "released", "stopped", "rev", "owner"}
      /\ native[h] # "none" /\ DataInv
  <2>1. x \in Session
        BY <1>x DEF TypeInv, DataInv
  <2> QED BY <1>p, <2>1 DEF TypeInv, TasksInv, DataInv, Session, BornInv
<1>d. p = [f \in DOMAIN p |-> p[f]]
      /\ DOMAIN p = {"kind", "pc", "ep", "sid", "h", "base", "rev", "own", "set", "on", "old", "then"}
      BY <1>t DEF OpRec
<1>r. Retiring(op'[o], h) => Safe(h)'
      BY DEF Safe
<1>g. Target(s).h = h /\ Target(s).released = live[s].released
      BY <1>t, TargetTypes DEF Target
<1>1. CASE live' = live
      BY <1>1
<1>2. CASE StartEnter(o)
  <2>1. CASE live' = live
        BY <2>1
  <2>2. CASE /\ live' = Drop(Stale(p.ep))
             /\ op' = [op EXCEPT ![o].set = {Target(r) : r \in Stale(p.ep)}, ![o].pc = "targets"]
    <3>1. op'[o].set = {Target(r) : r \in Stale(p.ep)} /\ op'[o].pc = "targets"
          BY <1>p, <1>t, <1>d, <2>2
    <3>2. CASE s \in Stale(p.ep)
          BY <1>g, <1>r, <3>1, <3>2 DEF Retiring, InTargets
    <3>3. CASE s \notin Stale(p.ep)
          BY <2>2, <3>3 DEF Drop
    <3> QED BY <3>2, <3>3
  <2> QED BY <1>p, <1>2, <2>1, <2>2 DEF StartEnter
<1>3. CASE Register(o)
  <2>1. s # o
    <3>1. Past(op[s]) /\ op[o].pc = "register"
          BY <1>3, ActionPcs DEF KnowInv
    <3> QED BY <3>1 DEF Past
  <2> QED BY <1>3, <2>1 DEF Register
<1>4. CASE FlagEnabled(o)
      BY <1>t, <1>x, <1>4 DEF FlagEnabled
<1>5. CASE Displace(o)
  <2>1. PICK b \in BOOLEAN : b = (x.input /\ s \notin Displaced(o))
        OBVIOUS
  <2>2. live'[s] = [x EXCEPT !.input = b] /\ s \in DOMAIN live'
        BY <1>5, <1>x, <2>1 DEF Displace
  <2> QED BY <1>t, <1>x, <2>2
<1>6. CASE Commit(o)
  <2>1. CASE s # p.sid
        BY <1>p, <1>t, <1>6, <2>1 DEF Commit
  <2>2. CASE s = p.sid
    <3>1. native'[h] # "running"
          BY <1>p, <1>6, <2>2, CommitStopped
    <3> QED BY <3>1 DEF Safe
  <2> QED BY <2>1, <2>2
<1>7. CASE Silence(o)
  <2>1. live' = live \/ (p.sid \in DOMAIN live /\ live' = [live EXCEPT ![p.sid].released = FALSE])
        BY <1>p, <1>7 DEF Silence, Stranded
  <2> QED BY <1>t, <1>x, <2>1
<1>8. CASE SweepRemove(o)
  <2>1. CASE live' = live
        BY <2>1
  <2>2. CASE s \in DOMAIN live' /\ live'[s] = live[s]
        BY <2>2
  <2>3. CASE live' = Drop({p.sid}) /\ p.sid = s /\ live[s].handle = p.h
    <3>1. op[o].kind = "sweep" /\ op[o].pc = "remove"
          BY <1>8, ActionPcs
    <3>2. Safe(h)
          BY <1>p, <2>3, <3>1 DEF AccountInv
    <3> QED BY <1>t, <3>2, SafeStays
  <2> QED BY <1>p, <1>8, <2>1, <2>2, <2>3 DEF SweepRemove, Drop
<1>9. CASE Collect(o)
  <2>1. op'[o].set = {Target(r) : r \in DOMAIN live} /\ op'[o].pc = "targets"
        BY <1>p, <1>t, <1>d, <1>9 DEF Collect
  <2> QED BY <1>g, <1>r, <2>1 DEF Retiring, InTargets
<1>10. CASE InputApply(o)
  <2>1. CASE live' = live
        BY <2>1
  <2>2. CASE p.sid \in DOMAIN live /\ Tombstone(o, p.sid)
    <3>0. o \in Procs \ Requests
          BY <1>p, <1>t, <1>10, ActionPcs DEF Shape
    <3>1. CASE s = p.sid
      <4>1. op'[o].kind = "force" /\ op'[o].pc = "silence" /\ op'[o].h = h
            BY <2>2, <3>0, <3>1, TombstoneActs
      <4> QED BY <1>r, <4>1 DEF Retiring
    <3>2. CASE s # p.sid
          BY <1>t, <2>2, <3>2 DEF Tombstone
    <3> QED BY <3>1, <3>2
  <2> QED BY <1>p, <1>10, <2>1, <2>2 DEF InputApply
<1>11. CASE InputStore(o)
      BY <1>t, <1>x, <1>11 DEF InputStore
<1> QED BY <1>1, <1>2, <1>3, <1>4, <1>5, <1>6, <1>7, <1>8, <1>9, <1>10, <1>11, LiveSteps

(* The capture of a tombstone is safe. *)
LEMMA ReleasedSafe ==
  ASSUME TypeInv, BornInv, KnowInv, StoppedInv, AccountInv, NEW o \in Procs, Step(o),
         NEW s \in DOMAIN live', NEW h \in Handles, live'[s].handle = h, live'[s].released
  PROVE  Safe(h)'
<1>p. PICK p : p = op[o]
      OBVIOUS
<1>x. PICK x : x = live[s]
      OBVIOUS
<1>t. /\ p \in OpRec /\ Shape(o, p) /\ op \in [Procs -> OpRec] /\ live \in [DOMAIN live -> Session] /\ DataInv
      BY <1>p DEF TypeInv, TasksInv, DataInv
<1>f. s \in DOMAIN live => /\ x = [f \in DOMAIN x |-> x[f]]
                           /\ DOMAIN x = {"ep", "handle", "input", "released", "stopped", "rev", "owner"}
      BY <1>t, <1>x DEF Session
<1>k. ASSUME s \in DOMAIN live, live[s].handle = h, live[s].released PROVE Safe(h)'
  <2>1. native[h] # "none"
        BY <1>k DEF BornInv
  <2>2. Safe(h)
        BY <1>k DEF AccountInv
  <2> QED BY <2>1, <2>2, SafeStays
<1>1. CASE s \in DOMAIN live /\ live'[s] = live[s]
      BY <1>1, <1>k
<1>2. CASE StartEnter(o) \/ SweepRemove(o) \/ Collect(o)
  <2>1. s \in DOMAIN live /\ live'[s] = live[s]
        BY <1>2 DEF StartEnter, SweepRemove, Collect, Drop
  <2> QED BY <1>1, <2>1
<1>3. CASE Register(o)
  <2>1. ~NewSession(o).released
        BY DEF NewSession
  <2> QED BY <1>1, <1>3, <2>1 DEF Register
<1>4. CASE FlagEnabled(o) \/ InputStore(o)
  <2>1. s \in DOMAIN live /\ (live'[s] = x \/ \E b \in BOOLEAN : live'[s] = [x EXCEPT !.input = b])
    <3>1. op[o].on \in BOOLEAN
          BY <1>p, <1>t DEF OpRec
    <3> QED BY <1>x, <1>4, <3>1 DEF FlagEnabled, InputStore
  <2> QED BY <1>x, <1>f, <1>k, <2>1
<1>5. CASE Displace(o)
  <2>1. s \in DOMAIN live
        BY <1>5 DEF Displace
  <2>2. PICK b \in BOOLEAN : b = (x.input /\ s \notin Displaced(o))
        OBVIOUS
  <2>3. live'[s] = [x EXCEPT !.input = b]
        BY <1>5, <1>x, <2>1, <2>2 DEF Displace
  <2> QED BY <1>x, <1>f, <1>k, <2>1, <2>3
<1>6. CASE Commit(o)
  <2>1. s \in DOMAIN live
        BY <1>6 DEF Commit
  <2>2. CASE s # p.sid
    <3>1. live'[s] = live[s]
          BY <1>p, <1>6, <2>1, <2>2 DEF Commit
    <3> QED BY <1>1, <2>1, <3>1
  <2>3. CASE s = p.sid
    <3>1. native'[x.handle] # "running"
          BY <1>p, <1>x, <1>6, <2>1, <2>3, CommitStopped
    <3>2. CASE Current(o) /\ live' = [live EXCEPT ![p.sid].handle = p.h, ![p.sid].owner = o, ![p.sid].input = p.on]
      <4>1. ~live[s].released
            BY <1>p, <2>3, <3>2 DEF Current, Accepting
      <4>2. live'[s] = [x EXCEPT !.handle = p.h, !.owner = o, !.input = p.on]
            BY <1>x, <2>1, <2>3, <3>2
      <4> QED BY <1>x, <1>f, <2>1, <4>1, <4>2
    <3>3. CASE live' = [live EXCEPT ![p.sid].input = FALSE, ![p.sid].released = TRUE, ![p.sid].rev = @ + 1]
      <4>1. live'[s] = [x EXCEPT !.input = FALSE, !.released = TRUE, !.rev = x.rev + 1]
            BY <1>x, <2>1, <2>3, <3>3
      <4>2. x.handle = h
            BY <1>f, <2>1, <4>1
      <4> QED BY <3>1, <4>2 DEF Safe
    <3>4. CASE live' = live
          BY <1>1, <2>1, <3>4
    <3> QED BY <1>p, <1>6, <3>2, <3>3, <3>4 DEF Commit
  <2> QED BY <2>2, <2>3
<1>7. CASE Silence(o)
  <2>1. CASE live' = live
        BY <1>1, <2>1
  <2>2. CASE p.sid \in DOMAIN live /\ live' = [live EXCEPT ![p.sid].released = FALSE]
    <3>1. s \in DOMAIN live
          BY <2>2
    <3>2. CASE s # p.sid
          BY <1>1, <2>2, <3>1, <3>2
    <3>3. CASE s = p.sid
      <4>1. live'[s] = [x EXCEPT !.released = FALSE]
            BY <1>x, <2>2, <3>1, <3>3
      <4> QED BY <1>f, <3>1, <4>1
    <3> QED BY <3>2, <3>3
  <2> QED BY <1>p, <1>7, <2>1, <2>2 DEF Silence, Stranded
<1>8. CASE InputApply(o)
  <2>1. CASE live' = live
        BY <1>1, <2>1
  <2>2. CASE p.sid \in DOMAIN live /\ Tombstone(o, p.sid)
    <3>0. o \in Procs \ Requests
          BY <1>p, <1>t, <1>8, ActionPcs DEF Shape
    <3>a. s \in DOMAIN live
          BY <2>2 DEF Tombstone
    <3>1. CASE s = p.sid
      <4>0. live'[s] = [x EXCEPT !.stopped = TRUE, !.rev = x.rev + 1, !.input = FALSE, !.released = TRUE]
            BY <1>x, <2>2, <3>1 DEF Tombstone
      <4>1. op'[o].kind = "force" /\ op'[o].pc = "silence" /\ op'[o].h = x.handle
            BY <1>x, <2>2, <3>0, <3>1, TombstoneActs
      <4>2. x.handle = h
            BY <1>f, <3>a, <4>0
      <4> QED BY <4>1, <4>2 DEF Retiring, Safe
    <3>2. CASE s # p.sid
      <4>1. live'[s] = live[s]
            BY <2>2, <3>a, <3>2 DEF Tombstone
      <4> QED BY <1>1, <3>a, <4>1
    <3> QED BY <3>1, <3>2
  <2> QED BY <1>p, <1>8, <2>1, <2>2 DEF InputApply
<1>9. CASE live' = live
      BY <1>1, <1>9
<1> QED BY <1>2, <1>3, <1>4, <1>5, <1>6, <1>7, <1>8, <1>9, LiveSteps

(* A step of a task loses no running capture. *)
LEMMA AccountStep ==
  ASSUME TypeInv, GuardInv, BornInv, KnowInv, StoppedInv, AccountInv, NEW o \in Procs, Step(o)
  PROVE  AccountInv'
<1>a. /\ \A q \in Procs \ {o} : op'[q] = op[q]
      /\ op[o] \in OpRec /\ Shape(o, op[o]) /\ DataInv
      BY StepActs DEF Acts, TypeInv, TasksInv
<1>1. \A h \in Handles : native'[h] = "running" /\ h \notin pendingRet' =>
       \/ \E s \in DOMAIN live' : live'[s].handle = h /\ ~live'[s].released
       \/ \E q \in Procs : Retiring(op'[q], h) \/ (Making(op'[q]) /\ op'[q].h = h)
  <2>1. ASSUME NEW h \in Handles, native'[h] = "running", h \notin pendingRet'
        PROVE  \/ \E s \in DOMAIN live' : live'[s].handle = h /\ ~live'[s].released
               \/ \E q \in Procs : Retiring(op'[q], h) \/ (Making(op'[q]) /\ op'[q].h = h)
    <3>0. Safe(h)' => \E q \in Procs : Retiring(op'[q], h)
          BY <2>1 DEF Safe
    <3>1. CASE native[h] = "running"
      <4>1. h \notin pendingRet
            BY <2>1, NativeStep
      <4>2. CASE \E s \in DOMAIN live : live[s].handle = h /\ ~live[s].released
        <5>1. PICK s \in DOMAIN live : live[s].handle = h /\ ~live[s].released
              BY <4>2
        <5> QED BY <3>0, <5>1, WitnessStays
      <4>3. CASE \E q \in Procs : Retiring(op[q], h)
        <5>1. PICK q \in Procs : Retiring(op[q], h)
              BY <4>3
        <5> QED BY <2>1, <5>1, RetiringStays
      <4>4. CASE \E q \in Procs : Making(op[q]) /\ op[q].h = h
        <5>1. PICK q \in Procs : Making(op[q]) /\ op[q].h = h
              BY <4>4
        <5>2. CASE q = o
              BY <2>1, <5>1, <5>2, MakingStays
        <5>3. CASE q # o
              BY <1>a, <5>1, <5>3
        <5> QED BY <5>2, <5>3
      <4> QED BY <3>1, <4>1, <4>2, <4>3, <4>4 DEF AccountInv
    <3>2. CASE native[h] # "running"
      <4>1. Backend(o) /\ o \in Requests /\ h = OwnHandle(o, op[o]) /\ op'[o].pc = "frame" /\ op'[o].h = h
            /\ op[o].pc = "backend"
            BY <2>1, <3>2, NativeStep
      <4>2. op'[o].kind = op[o].kind
            BY <4>1, StepFields, ActionPcs
      <4>3. op[o].kind \in {"start", "reconfigure"}
            BY <1>a, <4>1 DEF Shape, CallShape, Calls, Running, AtRest
      <4>4. h # 0
            BY <1>a DEF Handles, DataInv
      <4> QED BY <4>1, <4>2, <4>3, <4>4 DEF Making
    <3> QED BY <3>1, <3>2
  <2> QED BY <2>1
<1>2. \A s \in DOMAIN live' : live'[s].released => Safe(live[s].handle)'
  <2>1. ASSUME NEW s \in DOMAIN live', live'[s].released PROVE Safe(live[s].handle)'
    <3>1. PICK h : h = live'[s].handle
          OBVIOUS
    <3>2. h \in Handles
      <4>1. TypeInv'
            BY StepTypes
      <4> QED BY <3>1, <4>1 DEF TypeInv, DataInv, Session
    <3>3. Safe(h)'
          BY <2>1, <3>1, <3>2, ReleasedSafe
    <3> QED BY <3>1, <3>3 DEF Safe
  <2> QED BY <2>1
<1>3. \A q \in Procs : op'[q].kind = "sweep" /\ op'[q].pc = "remove" /\ op'[q].sid \in DOMAIN live' => Safe(op[q].h)'
  <2>1. ASSUME NEW q \in Procs, op'[q].kind = "sweep", op'[q].pc = "remove", op'[q].sid \in DOMAIN live'
        PROVE  Safe(op[q].h)'
    <3>1. PICK h : h = op'[q].h
          OBVIOUS
    <3>s. op'[q].sid \in DOMAIN live
      <4>1. Register(o) => op'[q].sid # o
        <5>1. ASSUME Register(o) PROVE op'[q].sid # o
          <6>1. op[o].kind = "start" /\ op[o].pc = "register"
                BY <5>1, ActionPcs
          <6>2. q # o
                BY <2>1, <5>1, <6>1, StepMoves, ActionPcs DEF Moves
          <6>3. Past(op[op[q].sid]) /\ op'[q] = op[q]
                BY <1>a, <2>1, <6>2 DEF KnowInv, About, Running, AtRest
          <6> QED BY <6>1, <6>3 DEF Past
        <5> QED BY <5>1
      <4>2. Register(o) => DOMAIN live' \subseteq DOMAIN live \cup {o}
            BY DEF Register
      <4>3. Commit(o) => DOMAIN live' = DOMAIN live
            BY DEF Commit
      <4> QED BY <2>1, <4>1, <4>2, <4>3, SessionsKept
    <3>2. CASE q # o
      <4>1. op'[q] = op[q] /\ Safe(h)
            BY <1>a, <2>1, <3>1, <3>s, <3>2 DEF AccountInv
      <4>2. h \in Handles
            BY <2>1, <3>1, <4>1 DEF TypeInv, TasksInv, Shape, CallShape, Calls, Running, AtRest
      <4>3. native[h] # "none"
            BY <2>1, <3>1, <4>1, <4>2 DEF BornInv, Names, Running, AtRest
      <4>4. Safe(h)'
            BY <4>1, <4>2, <4>3, SafeStays
      <4> QED BY <3>1, <4>4 DEF Safe
    <3>3. CASE q = o
      <4>1. SweepRetire(o)
        <5>1. op[o].kind = "sweep"
          <6>1. Keeps(o)
            <7>1. ~Buries(o)
              <8>1. Buries(o) => o \in Procs \ Requests
                    BY <1>a, ActionPcs DEF Buries, Shape
              <8> QED BY <2>1, <3>3, <8>1, TombstoneActs DEF Buries
            <7> QED BY <2>1, <3>3, <7>1, StepKeeps DEF Ends
          <6> QED BY <2>1, <3>3, <6>1 DEF Keeps
        <5>2. op[o].pc \in {"retire", "remove", "cleanup", "cleaning", "end"} /\ (op[o].pc \in {"cleanup", "cleaning"} => op[o].then = "end")
              BY <1>a, <5>1, StepActs DEF Shape, CallShape, Calls, Acts
        <5> QED BY <2>1, <3>3, <5>1, <5>2, StepMoves DEF Moves
      <4>2. h = op[o].h /\ op[o].kind = "sweep" /\ op[o].pc = "retire" /\ op[o].h \in Handles /\ op[o].sid \in Requests
        <5>1. h = op[o].h /\ op[o].kind = "sweep" /\ op[o].pc = "retire"
              BY <3>1, <3>3, <4>1, StepFields, ActionPcs
        <5> QED BY <1>a, <5>1 DEF Shape, CallShape, Calls, Running, AtRest
      <4>3. native'[h] # "running" \/ h \in pendingRet'
        <5>1. CASE retired[op[o].sid] = h
          <6>1. native[h] = "stopped"
                BY <1>a, <4>2, <5>1 DEF StoppedInv, Handles, DataInv
          <6>2. native' = native \/ StopFails(h) \/ Stopped(h)
                BY <4>1, <4>2 DEF SweepRetire, Retires, captures
          <6> QED BY <1>a, <4>2, <6>1, <6>2 DEF StopFails, Stopped, DataInv
        <5>2. CASE Stopped(h) \/ StopFails(h)
              BY <1>a, <4>2, <5>2 DEF StopFails, Stopped, DataInv
        <5> QED BY <4>1, <4>2, <5>1, <5>2 DEF SweepRetire, Retires
      <4> QED BY <3>1, <4>3 DEF Safe
    <3> QED BY <3>2, <3>3
  <2> QED BY <2>1
<1>4. \A q \in Procs : op'[q].kind = "stop" /\ InTargets(op'[q]) => \A t, u \in op'[q].set : t = u
  <2>1. ASSUME NEW q \in Procs, op'[q].kind = "stop", InTargets(op'[q]) PROVE \A t, u \in op'[q].set : t = u
    <3>1. CASE q # o
          BY <1>a, <2>1, <3>1 DEF AccountInv
    <3>2. CASE q = o
      <4>1. op[o].kind = "stop"
        <5>1. ~Ends(o)
              BY <2>1, <3>2 DEF Ends, InTargets
        <5>2. ~Buries(o)
          <6>1. Buries(o) => o \in Procs \ Requests
                BY <1>a, ActionPcs DEF Buries, Shape
          <6> QED BY <2>1, <3>2, <6>1, TombstoneActs DEF Buries
        <5> QED BY <2>1, <3>2, <5>1, <5>2, StepKeeps DEF Keeps
      <4>2. ~StartEnter(o) /\ ~Collect(o)
            BY <4>1, ActionPcs
      <4>3. InTargets(op[o]) /\ op'[o].set \subseteq op[o].set
            BY <2>1, <3>2, <4>2, TargetsStep
      <4> QED BY <3>2, <4>1, <4>3 DEF AccountInv
    <3> QED BY <3>1, <3>2
  <2> QED BY <2>1
<1>5. /\ \A s \in DOMAIN live' : live'[s].released =>
           native'[live'[s].handle] # "running" \/ live'[s].handle \in pendingRet'
           \/ \E q \in Procs : Retiring(op'[q], live'[s].handle)
      /\ \A q \in Procs : op'[q].kind = "sweep" /\ op'[q].pc = "remove" /\ op'[q].sid \in DOMAIN live' =>
           native'[op'[q].h] # "running" \/ op'[q].h \in pendingRet'
           \/ \E r \in Procs : Retiring(op'[r], op'[q].h)
      BY <1>2, <1>3 DEF Safe
<1> QED BY <1>1, <1>4, <1>5 DEF AccountInv, Safe

(* A task that begins forgets a capture only to stop it. *)
LEMMA AccountBegins ==
  ASSUME TypeInv, AccountInv, NEW o \in Procs, Starts(o), UNCHANGED <<native, pendingRet>>,
         DOMAIN live' \subseteq DOMAIN live,
         \A s \in DOMAIN live' : live'[s].handle = live[s].handle,
         \A s \in DOMAIN live : ~live[s].released =>
           (s \in DOMAIN live' /\ ~live'[s].released) \/ Retiring(op'[o], live[s].handle),
         \A s \in DOMAIN live' : live'[s].released => live[s].released \/ Retiring(op'[o], live[s].handle),
         op'[o].kind = "sweep" /\ op'[o].pc = "remove" =>
           /\ op'[o].sid \in DOMAIN live /\ live[op'[o].sid].released
           /\ live[op'[o].sid].handle = op'[o].h,
         op'[o].kind = "stop" => \A t, u \in op'[o].set : t = u
  PROVE  AccountInv'
<1>a. /\ \A q \in Procs \ {o} : op'[q] = op[q]
      /\ ~InTargets(op[o]) /\ op[o].kind = "none"
      BY DEF Starts, InTargets, TypeInv, TasksInv, Shape
<1>b. \A h \in Handles, q \in Procs : Retiring(op[q], h) => Retiring(op'[q], h)
      BY <1>a DEF Retiring
<1>c. \A q \in Procs : Making(op[q]) => op'[q] = op[q]
      BY <1>a DEF Making
<1>d. \A s \in DOMAIN live : live[s].handle \in Handles
      BY DEF TypeInv, DataInv, Session
<1>1. \A h \in Handles : native'[h] = "running" /\ h \notin pendingRet' =>
       \/ \E s \in DOMAIN live' : live'[s].handle = h /\ ~live'[s].released
       \/ \E q \in Procs : Retiring(op'[q], h) \/ (Making(op'[q]) /\ op'[q].h = h)
  <2>1. ASSUME NEW h \in Handles, native'[h] = "running", h \notin pendingRet'
        PROVE  \/ \E s \in DOMAIN live' : live'[s].handle = h /\ ~live'[s].released
               \/ \E q \in Procs : Retiring(op'[q], h) \/ (Making(op'[q]) /\ op'[q].h = h)
    <3>1. CASE \E s \in DOMAIN live : live[s].handle = h /\ ~live[s].released
          BY <3>1
    <3>2. CASE \E q \in Procs : Retiring(op[q], h) \/ (Making(op[q]) /\ op[q].h = h)
          BY <1>b, <1>c, <3>2
    <3> QED BY <2>1, <3>1, <3>2 DEF AccountInv
  <2> QED BY <2>1
<1>s. \A h \in Handles : Safe(h) => native'[h] # "running" \/ h \in pendingRet' \/ \E q \in Procs : Retiring(op'[q], h)
      BY <1>b DEF Safe
<1>2. \A s \in DOMAIN live' : live'[s].released =>
           native'[live'[s].handle] # "running" \/ live'[s].handle \in pendingRet'
           \/ \E q \in Procs : Retiring(op'[q], live'[s].handle)
      BY <1>d, <1>s DEF AccountInv
<1>3. \A q \in Procs : op'[q].kind = "sweep" /\ op'[q].pc = "remove" /\ op'[q].sid \in DOMAIN live' =>
           native'[op'[q].h] # "running" \/ op'[q].h \in pendingRet'
           \/ \E r \in Procs : Retiring(op'[r], op'[q].h)
  <2>1. ASSUME NEW q \in Procs, op'[q].kind = "sweep", op'[q].pc = "remove", op'[q].sid \in DOMAIN live'
        PROVE  Safe(op'[q].h) /\ op'[q].h \in Handles
    <3>1. CASE q = o
          BY <1>d, <2>1, <3>1 DEF AccountInv
    <3>2. CASE q # o
      <4>1. op'[q] = op[q]
            BY <1>a, <3>2
      <4>2. op[q].h \in Handles
            BY <2>1, <4>1 DEF TypeInv, TasksInv, Shape, CallShape, Calls, Running, AtRest
      <4> QED BY <2>1, <4>1, <4>2 DEF AccountInv
    <3> QED BY <3>1, <3>2
  <2> QED BY <1>s, <2>1
<1>4. \A q \in Procs : op'[q].kind = "stop" /\ InTargets(op'[q]) => \A t, u \in op'[q].set : t = u
      BY <1>a DEF AccountInv
<1> QED BY <1>1, <1>2, <1>3, <1>4 DEF AccountInv, Safe

(* No step loses a running capture. *)
LEMMA AccountNext ==
  ASSUME TypeInv, GuardInv, BornInv, KnowInv, StoppedInv, AccountInv, [Next]_vars
  PROVE  AccountInv'
<1>t. live \in [DOMAIN live -> Session] /\ DataInv /\ Requests \subseteq Procs
      BY RequestsAreProcs DEF TypeInv, DataInv
<1>f. \A s \in DOMAIN live : /\ live[s] = [f \in DOMAIN live[s] |-> live[s][f]]
                             /\ DOMAIN live[s] = {"ep", "handle", "input", "released", "stopped", "rev", "owner"}
      BY <1>t DEF Session
<1>1. CASE UNCHANGED vars
      BY <1>1 DEF vars, AccountInv, Safe
<1>2. ASSUME NEW o \in Requests, NEW e \in Endpoints, StartBegin(o, e) PROVE AccountInv'
  <2>1. Starts(o) /\ op'[o].kind = "start"
        BY <1>2, StartBeginStarts, BegunWith
  <2> QED BY <1>t, <1>2, <2>1, AccountBegins DEF StartBegin, captures
<1>3. ASSUME NEW o \in Requests, NEW s \in DOMAIN live, NEW moved \in BOOLEAN, ReconfigureBegin(o, s, moved)
      PROVE  AccountInv'
  <2>1. Starts(o) /\ op'[o].kind = "reconfigure"
        BY <1>3, ReconfigureBeginStarts, BegunWith
  <2>2. DOMAIN live' = DOMAIN live /\ \A r \in DOMAIN live : live'[r].handle = live[r].handle /\ live'[r].released = live[r].released
        BY <1>t, <1>f, <1>3 DEF ReconfigureBegin
  <2>3. UNCHANGED <<native, pendingRet>>
        BY <1>3 DEF ReconfigureBegin, captures
  <2> QED BY <1>t, <2>1, <2>2, <2>3, AccountBegins
<1>4. ASSUME NEW o \in Procs \ Requests, NEW s \in DOMAIN live, StopStream(o, s) PROVE AccountInv'
  <2>1. Starts(o) /\ op'[o].kind = "stop" /\ op'[o].pc = "targets" /\ op'[o].set = {Target(s)}
        BY <1>4, StopStreamStarts, BegunWith
  <2>2. Target(s).h = live[s].handle /\ Target(s).released = live[s].released
        BY DEF Target
  <2>3. ~live[s].released => Retiring(op'[o], live[s].handle)
        BY <2>1, <2>2 DEF Retiring, InTargets
  <2>4. DOMAIN live' = DOMAIN live \ {s} /\ \A r \in DOMAIN live' : live'[r] = live[r]
        BY <1>4 DEF StopStream, Drop
  <2>5. UNCHANGED <<native, pendingRet>>
        BY <1>4 DEF StopStream, captures
  <2> QED BY <2>1, <2>3, <2>4, <2>5, AccountBegins
<1>5. ASSUME NEW o \in Procs \ Requests, NEW s \in DOMAIN live, ForceStop(o, s) PROVE AccountInv'
  <2>1. Starts(o) /\ op'[o].kind = "force" /\ op'[o].pc = "silence" /\ op'[o].h = live[s].handle
        BY <1>5, ForceStopStarts, TombstoneActs DEF ForceStop
  <2>2. Retiring(op'[o], live[s].handle)
        BY <2>1 DEF Retiring
  <2>3. DOMAIN live' = DOMAIN live /\ \A r \in DOMAIN live \ {s} : live'[r] = live[r]
        BY <1>5 DEF ForceStop, Tombstone
  <2>4. UNCHANGED <<native, pendingRet>>
        BY <1>5 DEF ForceStop, captures
  <2>5. \A r \in DOMAIN live' : live'[r].handle = live[r].handle
        BY <1>5, BeginsKeepSessions DEF Begins
  <2> QED BY <2>1, <2>2, <2>3, <2>4, <2>5, AccountBegins
<1>6. ASSUME NEW o \in Procs \ Requests, NEW s \in DOMAIN live, Sweep(o, s) PROVE AccountInv'
  <2>1. /\ Starts(o) /\ op'[o].kind = "sweep" /\ op'[o].sid = s /\ op'[o].h = live[s].handle
        /\ op'[o].pc = IF live[s].released THEN "remove" ELSE "retire"
        BY <1>6, SweepStarts, BegunWith
  <2>2. op'[o].pc = "remove" => live[s].released
        BY <2>1
  <2>3. live' = live /\ UNCHANGED <<native, pendingRet>>
        BY <1>6 DEF Sweep, captures
  <2> QED BY <2>1, <2>2, <2>3, AccountBegins
<1>7. ASSUME NEW o \in Procs \ Requests, Revoke(o) PROVE AccountInv'
  <2>1. Starts(o) /\ op'[o].kind = "revoke"
        BY <1>7, RevokeStarts, BegunWith
  <2> QED BY <1>7, <2>1, AccountBegins DEF Revoke, captures
<1>8. ASSUME NEW h \in Handles, CaptureEnds(h) PROVE AccountInv'
  <2>1. /\ \A k \in Handles : native'[k] = "running" => native[k] = "running"
        /\ UNCHANGED <<pendingRet, live, op>>
        BY <1>t, <1>8 DEF CaptureEnds, DataInv
  <2>2. \A s \in DOMAIN live : live[s].handle \in Handles
        BY <1>t DEF Session
  <2>3. \A q \in Procs : op[q].kind = "sweep" /\ op[q].pc = "remove" => op[q].h \in Handles
        BY DEF TypeInv, TasksInv, Shape, CallShape, Calls, Running, AtRest
  <2> QED BY <2>1, <2>2, <2>3 DEF AccountInv, Safe
<1>9. ASSUME NEW o \in Procs \ Requests, NEW s \in DOMAIN live, NEW on \in BOOLEAN, InputCall(o, s, on)
      PROVE  AccountInv'
  <2>1. Starts(o) /\ op'[o].kind = "input"
        BY <1>9, InputCallStarts, BegunWith
  <2>2. PICK b \in BOOLEAN : b = (live[s].input /\ on)
        OBVIOUS
  <2>3. live' = [live EXCEPT ![s].input = b]
        BY <1>9, <2>2 DEF InputCall
  <2>4. DOMAIN live' = DOMAIN live /\ \A r \in DOMAIN live : live'[r].handle = live[r].handle /\ live'[r].released = live[r].released
        BY <1>t, <1>f, <2>3
  <2>5. UNCHANGED <<native, pendingRet>>
        BY <1>9 DEF InputCall, captures
  <2> QED BY <1>t, <2>1, <2>4, <2>5, AccountBegins
<1> QED BY <1>1, <1>2, <1>3, <1>4, <1>5, <1>6, <1>7, <1>8, <1>9, AccountStep, NextSteps

(* At first no capture runs. *)
LEMMA AccountInit ==
  ASSUME TypeInv, Init
  PROVE  AccountInv
<1>1. \A o \in Procs : op[o].kind = "none" /\ op[o].pc = "idle"
      BY DEF Init, IdleOp
<1> QED BY <1>1 DEF Init, AccountInv

(* No session is left of a device whose pairing is withdrawn, once its revocation has collected them. *)
RevokedInv == ~policy.paired => DOMAIN live = {} \/ \E o \in Procs : At(o, "revoke", "collect")

(* No step brings a session to a device whose pairing is withdrawn. *)
LEMMA RevokedNext ==
  ASSUME TypeInv, RevokedInv, [Next]_vars
  PROVE  RevokedInv'
<1>0. policy \in [paired : BOOLEAN, denied : BOOLEAN]
      BY DEF TypeInv, DataInv
<1>1. CASE UNCHANGED vars
      BY <1>1 DEF vars, RevokedInv, At
<1>2. ASSUME NEW o \in Procs, Step(o) PROVE RevokedInv'
  <2>0. \A q \in Procs \ {o} : op'[q] = op[q]
        BY <1>2, StepActs DEF Acts
  <2>1. policy'.paired = policy.paired
        BY <1>0, <1>2, GuardSteps DEF InputStore
  <2>2. CASE policy.paired
        BY <2>1, <2>2 DEF RevokedInv
  <2>3. CASE ~policy.paired /\ DOMAIN live = {}
    <3>1. Register(o) => live' = live
          BY <2>3 DEF Register, MayRegister, LeaseCurrent
    <3>2. Commit(o) => DOMAIN live' = DOMAIN live
          BY DEF Commit
    <3>3. DOMAIN live' = {}
          BY <1>2, <2>3, <3>1, <3>2, SessionsKept
    <3> QED BY <3>3 DEF RevokedInv
  <2>4. CASE \E q \in Procs : At(q, "revoke", "collect")
    <3>1. PICK q \in Procs : At(q, "revoke", "collect")
          BY <2>4
    <3>2. CASE q # o
          BY <2>0, <3>1, <3>2 DEF RevokedInv, At
    <3>3. CASE q = o
      <4>1. Collect(o)
            BY <1>2, <3>1, <3>3, StepMoves, ActionPcs DEF Moves, At
      <4>2. DOMAIN live' = {}
            BY <4>1 DEF Collect, Drop
      <4> QED BY <4>2 DEF RevokedInv
    <3> QED BY <3>2, <3>3
  <2> QED BY <2>2, <2>3, <2>4 DEF RevokedInv
<1>3. ASSUME Begins \/ (\E o \in Procs \ Requests, s \in DOMAIN live, on \in BOOLEAN : InputCall(o, s, on)),
             ~(\E o \in Procs \ Requests : Revoke(o))
      PROVE  RevokedInv'
  <2>a. ASSUME NEW o \in Requests, NEW e \in Endpoints, StartBegin(o, e) PROVE policy' = policy
        BY <2>a DEF StartBegin
  <2>b. ASSUME NEW o \in Requests, NEW s \in DOMAIN live, NEW moved \in BOOLEAN, ReconfigureBegin(o, s, moved)
        PROVE  policy' = policy
        BY <2>b DEF ReconfigureBegin
  <2>c. ASSUME NEW o \in Procs \ Requests, NEW s \in DOMAIN live, StopStream(o, s) \/ ForceStop(o, s) \/ Sweep(o, s)
        PROVE  policy' = policy
        BY <2>c DEF StopStream, ForceStop, Sweep
  <2>d. ASSUME NEW h \in Handles, CaptureEnds(h) PROVE policy' = policy
        BY <2>d DEF CaptureEnds
  <2>e. ASSUME NEW o \in Procs \ Requests, NEW s \in DOMAIN live, NEW on \in BOOLEAN, InputCall(o, s, on)
        PROVE  policy' = policy
        BY <2>e DEF InputCall
  <2>1. policy' = policy
        BY <1>3, <2>a, <2>b, <2>c, <2>d, <2>e DEF Begins
  <2>2. CASE \E q \in Procs : At(q, "revoke", "collect")
    <3>1. PICK q \in Procs : At(q, "revoke", "collect")
          BY <2>2
    <3>2. \A o \in Procs : Starts(o) => op'[q] = op[q]
          BY <3>1 DEF Starts, At
    <3>3. op'[q] = op[q]
          BY <1>3, <3>2, StartBeginStarts, ReconfigureBeginStarts, StopStreamStarts, ForceStopStarts, SweepStarts,
             InputCallStarts, RequestsAreProcs DEF Begins, CaptureEnds, TypeInv
    <3> QED BY <3>1, <3>3 DEF RevokedInv, At
  <2>3. CASE ~policy.paired => DOMAIN live = {}
        BY <1>3, <2>1, <2>3, BeginsKeepSessions DEF RevokedInv
  <2> QED BY <2>2, <2>3 DEF RevokedInv
<1>4. ASSUME NEW o \in Procs \ Requests, Revoke(o) PROVE RevokedInv'
      BY <1>4, BegunWith DEF RevokedInv, At
<1> QED BY <1>1, <1>2, <1>3, <1>4 DEF Next, Begins

-----------------------------------------------------------------------------
(* What is true of the tasks, their guards and their captures at every time. *)
TasksAreSound ==
  /\ TypeInv /\ GuardInv /\ BornInv /\ KnowInv /\ StoppedInv /\ AccountInv /\ RevokedInv

(* Tasks, guards and captures are sound in every reachable state. *)
LEMMA TasksStaySound ==
  ASSUME MaxRequests \in Nat, MaxCalls \in Nat
  PROVE  Spec => []TasksAreSound
<1>1. Init => TasksAreSound
  <2>1. ASSUME Init PROVE RevokedInv
        BY <2>1 DEF Init, RevokedInv
  <2> QED BY <2>1, TypeInit, GuardInit, BornInit, KnowInit, StoppedInit, AccountInit DEF TasksAreSound
<1>2. TasksAreSound /\ [Next]_vars => TasksAreSound'
      BY TypeStep, GuardNext, BornNext, KnowNext, StoppedNext, AccountNext, RevokedNext DEF TasksAreSound
<1> QED BY <1>1, <1>2, PTL DEF Spec

(* A running capture is accounted for when no task is at work. *)
LEMMA QuietCaptures ==
  ASSUME TasksAreSound
  PROVE  NoOrphanCapture
<1>1. Quiet => \A o \in Procs, h \in Handles : ~Retiring(op[o], h) /\ ~Making(op[o])
      BY DEF Quiet, Retiring, InTargets, Making
<1> QED BY <1>1 DEF TasksAreSound, AccountInv, NoOrphanCapture

(* Once everything has settled, a running capture belongs to a session, or is one whose stop failed *)
(* and is recorded as such (control.rs: retire_capture, pending_retirements).                        *)
THEOREM NoCaptureIsOrphaned ==
  ASSUME MaxRequests \in Nat, MaxCalls \in Nat
  PROVE  Spec => []NoOrphanCapture
<1>1. TasksAreSound => NoOrphanCapture
      BY QuietCaptures
<1> QED BY <1>1, TasksStaySound, PTL

(* After a revocation has returned nothing of the device streams, except a capture whose stop failed *)
(* (control.rs: revoke_device).                                                                      *)
THEOREM RevocationStopsEverything ==
  ASSUME MaxRequests \in Nat, MaxCalls \in Nat
  PROVE  Spec => []RevokedStreamsNothing
<1>1. TasksAreSound => RevokedStreamsNothing
  <2>1. Quiet => \A o \in Procs, h \in Handles : ~Retiring(op[o], h) /\ ~Making(op[o])
        BY DEF Quiet, Retiring, InTargets, Making
  <2>2. TasksAreSound /\ Quiet /\ ~policy.paired => DOMAIN live = {}
        BY DEF TasksAreSound, RevokedInv, Quiet, At
  <2> QED BY <2>1, <2>2 DEF TasksAreSound, AccountInv, RevokedStreamsNothing
<1> QED BY <1>1, TasksStaySound, PTL
=============================================================================
