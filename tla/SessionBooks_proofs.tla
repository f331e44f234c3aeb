-------------------------- MODULE SessionBooks_proofs --------------------------
(***************************************************************************)
(* Theorems about what SessionControl keeps of its endpoints - the setup   *)
(* lease, the claim, the owner of the transport and what a task leaves     *)
(* behind when it ends - and about which captures take input, and for      *)
(* whom, for any number of requests, calls and faults and every set of     *)
(* endpoints.  The tasks' types, guards and captures are proved in         *)
(* SessionControl_proofs.                                                  *)
(***************************************************************************)
EXTENDS SessionControl_proofs, FiniteSetTheorems, TLAPS

(* A task that works at an endpoint names one, and only requests set one up. *)
LEMMA TaskPlace ==
  ASSUME TypeInv, NEW o \in Procs
  PROVE  LET p == op[o] IN
         /\ p.own \in 0..MaxRequests
         /\ p.pc \in {"cleanup", "cleaning", "prepare", "leave", "claim"} => p.ep \in Endpoints
         /\ Running(p) /\ p.kind \in {"start", "reconfigure"} => p.ep \in Endpoints
         /\ Running(p) /\ (p.pc \in {"prepare", "leave", "claim"} \/ p.kind \in {"start", "reconfigure"})
              => o \in Requests /\ p.kind \in {"start", "reconfigure"}
<1>p. PICK p : p = op[o]
      OBVIOUS
<1>t. p \in OpRec /\ Shape(o, p)
      BY <1>p DEF TypeInv, TasksInv
<1>1. p.own \in 0..MaxRequests
      BY <1>t DEF OpRec, Numbers
<1>2. Running(p) /\ p.kind \in {"start", "reconfigure"} => p.ep \in Endpoints
      BY <1>t DEF Shape, StartShape, ReconfigureShape
<1>3. p.kind \in {"start", "reconfigure"} => o \in Requests
      BY <1>t DEF Shape, Calls
<1>4. p.pc \in {"prepare", "leave", "claim"} => p.kind \in {"start", "reconfigure"}
      BY <1>t DEF Shape, CallShape, Running, AtRest, OpRec, Kinds, Calls
<1>5. p.pc \in {"cleanup", "cleaning"} => p.ep \in Endpoints
      BY <1>t DEF Shape, StartShape, ReconfigureShape, CallShape, Running, AtRest, OpRec, Kinds, Calls
<1>6. p.pc \in {"prepare", "leave", "claim"} => Running(p)
      BY DEF Running, AtRest
<1> QED BY <1>p, <1>1, <1>2, <1>3, <1>4, <1>5, <1>6

-----------------------------------------------------------------------------
(***************************************************************************)
(* The endpoints: who holds the setup lease, and whose the transport is.   *)
(***************************************************************************)

(* What becomes of an entry nobody works on: its newest claim is kept, or   *)
(* it is forgotten because nobody needs it.                                 *)
Forgets(a, b, act) ==
  \/ b.newest = a.newest
  \/ b.newest = 0 /\ ~b.busy /\ b.reg = 0 /\ b.owner = 0 /\ \A r \in act : a.newest < r
Same(a, b, act) ==
  /\ b.busy = a.busy /\ b.owner = a.owner /\ b.pending = a.pending /\ b.reg = a.reg
  /\ Forgets(a, b, act)

PendingInv == \A e \in Endpoints : entry[e].pending => entry[e].busy

(* What forgetting unused endpoints does to an entry (session_lifecycle.rs: Starts::prune). *)
LEMMA PruneKeeps ==
  ASSUME DataInv, NEW en, en \in [Endpoints -> Entry], NEW act \in SUBSET Requests, NEW e \in Endpoints,
         en[e].pending => en[e].busy
  PROVE  Same(en[e], Prune(en, act)[e], act)
<1>1. /\ FreshEntry.busy = FALSE /\ FreshEntry.owner = 0 /\ FreshEntry.pending = FALSE /\ FreshEntry.reg = 0
      /\ FreshEntry.newest = 0
      BY DEF FreshEntry
<1>2. /\ en[e].busy \in BOOLEAN /\ en[e].pending \in BOOLEAN /\ en[e].newest \in 0..MaxRequests
      /\ MaxRequests \in Nat
      BY DEF Entry, DataInv
<1>3. CASE Prune(en, act)[e] = en[e]
      BY <1>3 DEF Same, Forgets
<1>4. CASE /\ Prune(en, act)[e] = FreshEntry /\ ~en[e].busy /\ en[e].reg = 0 /\ en[e].owner = 0
           /\ ~\E r \in act : en[e].newest >= r
  <2>1. \A r \in act : en[e].newest < r
        BY <1>2, <1>4 DEF Requests
  <2> QED BY <1>1, <1>2, <1>4, <2>1 DEF Same, Forgets
<1> QED BY <1>3, <1>4 DEF Prune

(* What a step does to the entry of an endpoint the task is not at. *)
LEMMA EntriesElsewhere ==
  ASSUME TypeInv, PendingInv, NEW o \in Procs, Step(o), NEW e \in Endpoints, e # op[o].ep \/ End(o)
  PROVE  Same(entry[e], entry'[e], active') /\ phys'[e] = phys[e]
<1>p. PICK p : p = op[o]
      OBVIOUS
<1>t. /\ p \in OpRec /\ DataInv /\ entry \in [Endpoints -> Entry] /\ active \in SUBSET Requests
      /\ phys \in [Endpoints -> 0..MaxRequests] /\ MaxRequests \in Nat
      BY <1>p DEF TypeInv, TasksInv, DataInv
<1>0. \A en : en \in [Endpoints -> Entry] /\ en[e] = entry[e] => Same(entry[e], Prune(en, active)[e], active)
      BY <1>t, PruneKeeps DEF PendingInv
<1>1. CASE End(o)
  <2>1. entry' = Prune(entry, active \ {o}) /\ phys' = phys /\ active' = active \ {o}
        BY <1>1 DEF End
  <2>2. active \ {o} \in SUBSET Requests
        BY <1>t
  <2> QED BY <1>t, <2>1, <2>2, PruneKeeps DEF PendingInv
<1>2. CASE ~End(o) /\ e # p.ep /\ (CleanupBegin(o) \/ CleanupDo(o) \/ LeaveSetup(o))
  <2>1. active' = active
        BY <1>2 DEF CleanupBegin, CleanupDo, LeaveSetup
  <2>2. phys'[e] = phys[e]
        BY <1>p, <1>t, <1>2 DEF CleanupBegin, CleanupDo, LeaveSetup
  <2>3. Same(entry[e], entry[e], active)
        BY DEF Same, Forgets
  <2>4. CASE entry' = [entry EXCEPT ![p.ep].busy = TRUE]
        BY <1>t, <1>2, <2>1, <2>2, <2>3, <2>4
  <2>5. ASSUME NEW en, en \in [Endpoints -> Entry], en[e] = entry[e], entry' = Prune(en, active)
        PROVE  Same(entry[e], entry'[e], active') /\ phys'[e] = phys[e]
        BY <1>0, <2>1, <2>2, <2>5
  <2>6. p.ep \in Endpoints /\ p.own \in 0..MaxRequests
        BY <1>p, <1>t, <1>2, TaskPlace, ActionPcs
  <2>7. CASE CleanupBegin(o)
    <3>0. PICK en : en = [entry EXCEPT ![p.ep].pending = TRUE]
          OBVIOUS
    <3>a. en \in [Endpoints -> Entry] /\ en[e] = entry[e]
          BY <1>t, <1>2, <2>6, <3>0 DEF Entry
    <3>1. Unregistered(en, p.ep, p.own) \in [Endpoints -> Entry] /\ Unregistered(en, p.ep, p.own)[e] = entry[e]
          BY <1>t, <1>2, <2>6, <3>a DEF Unregistered, Entry
    <3>2. Unregistered(entry, p.ep, p.own) \in [Endpoints -> Entry]
          /\ Unregistered(entry, p.ep, p.own)[e] = entry[e]
          BY <1>t, <1>2, <2>6 DEF Unregistered, Entry
    <3> QED BY <1>p, <2>4, <2>5, <2>7, <3>0, <3>1, <3>2 DEF CleanupBegin
  <2>8. CASE CleanupDo(o)
    <3>1. PICK k : k = IF entry[p.ep].owner = p.own THEN 0 ELSE entry[p.ep].owner
          OBVIOUS
    <3>2. k \in 0..MaxRequests
          BY <1>t, <2>6, <3>1 DEF Entry
    <3>3. PICK freed : freed = [entry EXCEPT ![p.ep].busy = FALSE, ![p.ep].owner = k, ![p.ep].pending = FALSE]
          OBVIOUS
    <3>4. freed \in [Endpoints -> Entry] /\ freed[e] = entry[e]
          BY <1>t, <1>2, <2>6, <3>2, <3>3, ZenonT(30) DEF Entry
    <3>5. Unregistered(freed, p.ep, p.own) \in [Endpoints -> Entry] /\ Unregistered(freed, p.ep, p.own)[e] = entry[e]
          BY <1>t, <1>2, <2>6, <3>4 DEF Unregistered, Entry
    <3>6. freed = [entry EXCEPT ![p.ep].busy = FALSE,
                             ![p.ep].owner = IF @ = p.own THEN 0 ELSE @, ![p.ep].pending = FALSE]
          BY <1>t, <2>6, <3>1, <3>3 DEF Entry
    <3> QED BY <1>p, <2>5, <2>8, <3>5, <3>6 DEF CleanupDo
  <2>9. CASE LeaveSetup(o)
    <3>1. PICK k : k = IF entry[p.ep].pending THEN 0 ELSE entry[p.ep].owner
          OBVIOUS
    <3>2. k \in 0..MaxRequests
          BY <1>t, <2>6, <3>1 DEF Entry
    <3>3. PICK freed : freed = [entry EXCEPT ![p.ep].busy = FALSE, ![p.ep].pending = FALSE, ![p.ep].owner = k]
          OBVIOUS
    <3>4. freed \in [Endpoints -> Entry] /\ freed[e] = entry[e]
          BY <1>t, <1>2, <2>6, <3>2, <3>3, ZenonT(30) DEF Entry
    <3>5. freed = [entry EXCEPT ![p.ep].busy = FALSE, ![p.ep].pending = FALSE,
                             ![p.ep].owner = IF Drains(p.ep) THEN 0 ELSE @]
          BY <1>t, <2>6, <3>1, <3>3 DEF Entry, Drains
    <3> QED BY <1>p, <2>5, <2>9, <3>4, <3>5 DEF LeaveSetup
  <2> QED BY <1>2, <2>7, <2>8, <2>9
<1>3. CASE ~End(o) /\ e # p.ep /\ ~CleanupBegin(o) /\ ~CleanupDo(o) /\ ~LeaveSetup(o)
  <2>1. entry'[e] = entry[e]
    <3>1. CASE entry' = entry
          BY <3>1
    <3>2. CASE Prepare(o) \/ Claim(o) \/ StartEnter(o) \/ Register(o) \/ ReconfigureEnter(o) \/ Commit(o)
          BY <1>p, <1>t, <1>3, <3>2 DEF Prepare, Claim, StartEnter, Register, ReconfigureEnter, Commit
    <3> QED BY <1>3, <3>1, <3>2, EntrySteps
  <2>2. phys'[e] = phys[e]
    <3>1. CASE phys' = phys
          BY <3>1
    <3>2. CASE Prepare(o)
          BY <1>p, <1>t, <1>3, <3>2 DEF Prepare
    <3> QED BY <1>3, <3>1, <3>2, GuardSteps
  <2> QED BY <2>1, <2>2 DEF Same, Forgets
<1> QED BY <1>p, <1>1, <1>2, <1>3

(* What the beginning of a cleanup does to the endpoint: it takes the setup lease, or leaves its *)
(* work to whoever holds it, or finds nothing of its owner (session_lifecycle.rs: begin_owned_cleanup). *)
CleanupBeginMove(p, a, b, next, act) ==
  \/ /\ next = "cleaning" /\ a.owner = p.own /\ p.own # 0 /\ ~a.busy
     /\ b.busy /\ b.owner = a.owner /\ b.pending = a.pending /\ b.reg = a.reg /\ b.newest = a.newest
  \/ /\ next = p.then /\ (p.own # 0 /\ a.owner = p.own => a.busy)
     /\ b.busy = a.busy /\ b.owner = a.owner
     /\ b.pending <=> (a.pending \/ (p.own # 0 /\ a.owner = p.own))
     /\ b.reg = (IF a.reg = p.own THEN 0 ELSE a.reg)
     /\ Forgets(a, b, act)

CleanupDoMove(p, a, b, act) ==
  /\ ~b.busy /\ ~b.pending /\ b.owner = (IF a.owner = p.own THEN 0 ELSE a.owner)
  /\ b.reg = (IF a.reg = p.own THEN 0 ELSE a.reg)
  /\ Forgets(a, b, act)

LeaveMove(a, b, act) ==
  /\ ~b.busy /\ ~b.pending /\ b.reg = a.reg /\ b.owner = (IF a.pending THEN 0 ELSE a.owner)
  /\ Forgets(a, b, act)

(* A task at work on an endpoint changes its entry in one of these ways. *)
LEMMA CleanupBeginMoves ==
  ASSUME TypeInv, PendingInv, NEW o \in Procs, CleanupBegin(o)
  PROVE  /\ CleanupBeginMove(op[o], entry[op[o].ep], entry'[op[o].ep], op'[o].pc, active)
         /\ phys' = phys /\ op[o].ep \in Endpoints
         /\ op'[o].ep = op[o].ep /\ op'[o].own = op[o].own /\ op'[o].then = op[o].then
<1>p. PICK p : p = op[o]
      OBVIOUS
<1>e. PICK e : e = p.ep
      OBVIOUS
<1>t. /\ p \in OpRec /\ DataInv /\ entry \in [Endpoints -> Entry] /\ active \in SUBSET Requests
      /\ op \in [Procs -> OpRec] /\ e \in Endpoints /\ p.own \in 0..MaxRequests /\ MaxRequests \in Nat
      BY <1>p, <1>e, TaskPlace DEF TypeInv, TasksInv, DataInv, CleanupBegin
<1>d. p = [f \in DOMAIN p |-> p[f]]
      /\ DOMAIN p = {"kind", "pc", "ep", "sid", "h", "base", "rev", "own", "set", "on", "old", "then"}
      BY <1>t DEF OpRec
<1>a. PICK a \in Entry : a = entry[e]
      BY <1>t
<1>b. a.busy \in BOOLEAN /\ a.pending \in BOOLEAN /\ (a.pending => a.busy)
      BY <1>t, <1>a DEF Entry, PendingInv
<1>0. PICK k : k = IF a.reg = p.own THEN 0 ELSE a.reg
      OBVIOUS
<1>k. k \in 0..MaxRequests
      BY <1>t, <1>0 DEF Entry
<1>1. ASSUME entry' = [entry EXCEPT ![e].busy = TRUE], Go(o, "cleaning"), Owns(e, p.own), ~Deferred(e)
      PROVE  CleanupBeginMove(p, a, entry'[e], op'[o].pc, active)
  <2>1. op'[o].pc = "cleaning"
        BY <1>1, <1>t, <1>p, <1>d DEF Go
  <2>2. entry'[e] = [a EXCEPT !.busy = TRUE]
        BY <1>1, <1>t, <1>a
  <2>3. /\ entry'[e].busy /\ entry'[e].owner = a.owner /\ entry'[e].pending = a.pending
        /\ entry'[e].reg = a.reg /\ entry'[e].newest = a.newest
        BY <2>2 DEF Entry
  <2> QED BY <1>1, <1>a, <2>1, <2>3 DEF CleanupBeginMove, Owns, Deferred
<1>2. ASSUME NEW c \in BOOLEAN, c <=> (a.pending \/ (p.own # 0 /\ a.owner = p.own)), c => a.busy,
             entry' = Prune([entry EXCEPT ![e].pending = c, ![e].reg = k], active), Go(o, p.then),
             p.own # 0 /\ a.owner = p.own => a.busy
      PROVE  CleanupBeginMove(p, a, entry'[e], op'[o].pc, active)
  <2>1. op'[o].pc = p.then
        BY <1>2, <1>t, <1>p, <1>d DEF Go
  <2>2. PICK en : en = [entry EXCEPT ![e].pending = c, ![e].reg = k]
        OBVIOUS
  <2>3. en \in [Endpoints -> Entry] /\ en[e] = [a EXCEPT !.pending = c, !.reg = k]
        BY <1>t, <1>a, <1>k, <2>2 DEF Entry
  <2>4. /\ en[e].pending = c /\ en[e].reg = k /\ en[e].busy = a.busy /\ en[e].owner = a.owner /\ en[e].newest = a.newest
        BY <1>t, <1>a, <2>3 DEF Entry
  <2>5. Same(en[e], entry'[e], active)
        BY <1>t, <1>2, <2>2, <2>3, <2>4, PruneKeeps
  <2> QED BY <1>0, <1>2, <2>1, <2>4, <2>5 DEF CleanupBeginMove, Same, Forgets
<1>3. Unregistered(entry, e, p.own) = [entry EXCEPT ![e].pending = a.pending, ![e].reg = k]
  <2>1. [a EXCEPT !.reg = k] = [a EXCEPT !.pending = a.pending, !.reg = k]
        BY DEF Entry
  <2> QED BY <1>t, <1>a, <1>0, <2>1 DEF Unregistered
<1>4. Unregistered([entry EXCEPT ![e].pending = TRUE], e, p.own) = [entry EXCEPT ![e].pending = TRUE, ![e].reg = k]
  <2>1. PICK en : en = [entry EXCEPT ![e].pending = TRUE]
        OBVIOUS
  <2>2. en[e].reg = a.reg
        BY <1>t, <1>a, <2>1 DEF Entry
  <2>3. Unregistered(en, e, p.own) = [en EXCEPT ![e].reg = k]
        BY <1>0, <2>2 DEF Unregistered
  <2> QED BY <1>t, <2>1, <2>3
<1>5. CleanupBeginMove(p, a, entry'[e], op'[o].pc, active)
  <2>1. CASE Owns(e, p.own) /\ Deferred(e)
    <3>1. entry' = Prune([entry EXCEPT ![e].pending = TRUE, ![e].reg = k], active) /\ Go(o, p.then)
          BY <1>p, <1>e, <1>4, <2>1 DEF CleanupBegin
    <3>2. a.owner = p.own /\ p.own # 0 /\ a.busy
          BY <1>a, <2>1 DEF Owns, Deferred
    <3> QED BY <1>2, <3>1, <3>2
  <2>2. CASE ~Owns(e, p.own)
    <3>1. entry' = Prune([entry EXCEPT ![e].pending = a.pending, ![e].reg = k], active) /\ Go(o, p.then)
          BY <1>p, <1>e, <1>3, <2>2 DEF CleanupBegin
    <3>2. ~(a.owner = p.own /\ p.own # 0)
          BY <1>a, <2>2 DEF Owns
    <3> QED BY <1>b, <1>2, <3>1, <3>2
  <2>3. CASE Owns(e, p.own) /\ ~Deferred(e)
        BY <1>p, <1>e, <1>1, <2>3 DEF CleanupBegin
  <2> QED BY <2>1, <2>2, <2>3
<1>6. phys' = phys /\ op'[o].ep = p.ep /\ op'[o].own = p.own /\ op'[o].then = p.then
      BY <1>p, <1>t, <1>d DEF CleanupBegin, Go
<1> QED BY <1>p, <1>e, <1>a, <1>t, <1>5, <1>6

(* The end of a cleanup gives the setup lease back and takes down what is set up there. *)
LEMMA CleanupDoMoves ==
  ASSUME TypeInv, PendingInv, NEW o \in Procs, CleanupDo(o)
  PROVE  /\ CleanupDoMove(op[o], entry[op[o].ep], entry'[op[o].ep], active)
         /\ phys'[op[o].ep] = 0 /\ op[o].ep \in Endpoints /\ op'[o].pc = op[o].then
         /\ op'[o].ep = op[o].ep /\ op'[o].own = op[o].own /\ op'[o].then = op[o].then
<1>p. PICK p : p = op[o]
      OBVIOUS
<1>e. PICK e : e = p.ep
      OBVIOUS
<1>t. /\ p \in OpRec /\ DataInv /\ entry \in [Endpoints -> Entry] /\ active \in SUBSET Requests
      /\ op \in [Procs -> OpRec] /\ e \in Endpoints /\ p.own \in 0..MaxRequests /\ MaxRequests \in Nat
      /\ phys \in [Endpoints -> 0..MaxRequests]
      BY <1>p, <1>e, TaskPlace DEF TypeInv, TasksInv, DataInv, CleanupDo
<1>d. p = [f \in DOMAIN p |-> p[f]]
      /\ DOMAIN p = {"kind", "pc", "ep", "sid", "h", "base", "rev", "own", "set", "on", "old", "then"}
      BY <1>t DEF OpRec
<1>a. PICK a \in Entry : a = entry[e]
      BY <1>t
<1>0. PICK k : k = IF a.reg = p.own THEN 0 ELSE a.reg
      OBVIOUS
<1>1. PICK w : w = IF a.owner = p.own THEN 0 ELSE a.owner
      OBVIOUS
<1>k. k \in 0..MaxRequests /\ w \in 0..MaxRequests
      BY <1>t, <1>0, <1>1 DEF Entry
<1>2. PICK freed : freed = [entry EXCEPT ![e].busy = FALSE, ![e].owner = w, ![e].pending = FALSE]
      OBVIOUS
<1>3. freed \in [Endpoints -> Entry] /\ freed[e] = [a EXCEPT !.busy = FALSE, !.owner = w, !.pending = FALSE]
      BY <1>t, <1>a, <1>k, <1>2 DEF Entry
<1>4. freed[e].reg = a.reg
      BY <1>3 DEF Entry
<1>5. PICK en : en = [freed EXCEPT ![e].reg = k]
      OBVIOUS
<1>6. en \in [Endpoints -> Entry] /\ en[e] = [freed[e] EXCEPT !.reg = k]
      BY <1>t, <1>k, <1>3, <1>5 DEF Entry
<1>7. ~en[e].busy /\ ~en[e].pending /\ en[e].owner = w /\ en[e].reg = k /\ en[e].newest = a.newest
      BY <1>3, <1>6 DEF Entry
<1>8. freed = [entry EXCEPT ![e].busy = FALSE, ![e].owner = IF @ = p.own THEN 0 ELSE @, ![e].pending = FALSE]
      BY <1>t, <1>a, <1>1, <1>2 DEF Entry
<1>9. Unregistered(freed, e, p.own) = en
      BY <1>0, <1>4, <1>5 DEF Unregistered
<1>10. entry' = Prune(en, active)
      BY <1>p, <1>e, <1>8, <1>9 DEF CleanupDo
<1>11. Same(en[e], entry'[e], active)
      BY <1>t, <1>6, <1>7, <1>10, PruneKeeps
<1>12. CleanupDoMove(p, a, entry'[e], active)
      BY <1>0, <1>1, <1>7, <1>11 DEF CleanupDoMove, Same, Forgets
<1>13. phys'[e] = 0 /\ op'[o].pc = p.then /\ op'[o].ep = p.ep /\ op'[o].own = p.own /\ op'[o].then = p.then
      BY <1>p, <1>e, <1>t, <1>d DEF CleanupDo, Go
<1> QED BY <1>p, <1>e, <1>a, <1>t, <1>12, <1>13

(* Leaving the setup lease works off what was left to its holder (StartTransportGuard::drop). *)
LEMMA LeaveMoves ==
  ASSUME TypeInv, PendingInv, NEW o \in Procs, LeaveSetup(o)
  PROVE  /\ LeaveMove(entry[op[o].ep], entry'[op[o].ep], active)
         /\ phys'[op[o].ep] = (IF entry[op[o].ep].pending THEN 0 ELSE phys[op[o].ep])
         /\ op[o].ep \in Endpoints /\ op'[o].pc = op[o].then
         /\ op'[o].ep = op[o].ep /\ op'[o].own = op[o].own /\ op'[o].then = op[o].then
<1>p. PICK p : p = op[o]
      OBVIOUS
<1>e. PICK e : e = p.ep
      OBVIOUS
<1>t. /\ p \in OpRec /\ DataInv /\ entry \in [Endpoints -> Entry] /\ active \in SUBSET Requests
      /\ op \in [Procs -> OpRec] /\ e \in Endpoints /\ MaxRequests \in Nat
      /\ phys \in [Endpoints -> 0..MaxRequests]
      BY <1>p, <1>e, TaskPlace DEF TypeInv, TasksInv, DataInv, LeaveSetup
<1>d. p = [f \in DOMAIN p |-> p[f]]
      /\ DOMAIN p = {"kind", "pc", "ep", "sid", "h", "base", "rev", "own", "set", "on", "old", "then"}
      BY <1>t DEF OpRec
<1>a. PICK a \in Entry : a = entry[e]
      BY <1>t
<1>1. PICK w : w = IF a.pending THEN 0 ELSE a.owner
      OBVIOUS
<1>k. w \in 0..MaxRequests
      BY <1>t, <1>1 DEF Entry
<1>2. PICK en : en = [entry EXCEPT ![e].busy = FALSE, ![e].pending = FALSE, ![e].owner = w]
      OBVIOUS
<1>3. en \in [Endpoints -> Entry] /\ en[e] = [a EXCEPT !.busy = FALSE, !.pending = FALSE, !.owner = w]
      BY <1>t, <1>a, <1>k, <1>2 DEF Entry
<1>4. ~en[e].busy /\ ~en[e].pending /\ en[e].owner = w /\ en[e].reg = a.reg /\ en[e].newest = a.newest
      BY <1>3 DEF Entry
<1>5. en = [entry EXCEPT ![e].busy = FALSE, ![e].pending = FALSE, ![e].owner = IF Drains(e) THEN 0 ELSE @]
      BY <1>t, <1>a, <1>1, <1>2 DEF Entry, Drains
<1>6. entry' = Prune(en, active)
      BY <1>p, <1>e, <1>5 DEF LeaveSetup
<1>7. Same(en[e], entry'[e], active)
      BY <1>t, <1>3, <1>4, <1>6, PruneKeeps
<1>8. LeaveMove(a, entry'[e], active)
      BY <1>1, <1>4, <1>7 DEF LeaveMove, Same, Forgets
<1>9. /\ phys'[e] = (IF a.pending THEN 0 ELSE phys[e]) /\ op'[o].pc = p.then
      /\ op'[o].ep = p.ep /\ op'[o].own = p.own /\ op'[o].then = p.then
      BY <1>p, <1>e, <1>a, <1>t, <1>d DEF LeaveSetup, Go, Drains
<1> QED BY <1>p, <1>e, <1>a, <1>t, <1>8, <1>9

(* Preparing sets the transport up, or takes down what was there. *)
LEMMA PrepareMoves ==
  ASSUME TypeInv, NEW o \in Procs, Prepare(o)
  PROVE  LET a == entry[op[o].ep]  b == entry'[op[o].ep] IN
         /\ b.busy = a.busy /\ ~b.pending /\ b.reg = a.reg /\ b.newest = a.newest
         /\ phys'[op[o].ep] = b.owner
         /\ \/ b.owner = o /\ op'[o].then = "backend"
            \/ b.owner = 0 /\ op'[o].then = "failed"
         /\ op[o].ep \in Endpoints /\ o \in Requests /\ op'[o].pc = "leave"
         /\ op'[o].ep = op[o].ep /\ op'[o].own = op[o].own
<1>p. PICK p : p = op[o]
      OBVIOUS
<1>e. PICK e : e = p.ep
      OBVIOUS
<1>0. p.pc = "prepare"
      BY <1>p DEF Prepare
<1>t. /\ p \in OpRec /\ entry \in [Endpoints -> Entry] /\ op \in [Procs -> OpRec] /\ e \in Endpoints
      /\ o \in Requests /\ phys \in [Endpoints -> 0..MaxRequests]
      BY <1>p, <1>e, <1>0, TaskPlace DEF TypeInv, TasksInv, DataInv, Running, AtRest
<1>d. p = [f \in DOMAIN p |-> p[f]]
      /\ DOMAIN p = {"kind", "pc", "ep", "sid", "h", "base", "rev", "own", "set", "on", "old", "then"}
      BY <1>t DEF OpRec
<1>a. PICK a \in Entry : a = entry[e]
      BY <1>t
<1>1. ASSUME NEW w, entry' = [entry EXCEPT ![e].owner = w, ![e].pending = FALSE], phys' = [phys EXCEPT ![e] = w]
      PROVE  /\ entry'[e].busy = a.busy /\ ~entry'[e].pending /\ entry'[e].reg = a.reg
             /\ entry'[e].newest = a.newest /\ entry'[e].owner = w /\ phys'[e] = w
  <2>1. entry'[e] = [a EXCEPT !.owner = w, !.pending = FALSE] /\ phys'[e] = w
        BY <1>1, <1>t, <1>a
  <2> QED BY <2>1 DEF Entry
<1>2. ASSUME NEW x, op' = [op EXCEPT ![o].pc = "leave", ![o].then = x]
      PROVE  op'[o].pc = "leave" /\ op'[o].then = x /\ op'[o].ep = p.ep /\ op'[o].own = p.own
      BY <1>p, <1>t, <1>d, <1>2
<1>3. \/ /\ entry' = [entry EXCEPT ![e].owner = o, ![e].pending = FALSE] /\ phys' = [phys EXCEPT ![e] = o]
         /\ op' = [op EXCEPT ![o].pc = "leave", ![o].then = "backend"]
      \/ /\ entry' = [entry EXCEPT ![e].owner = 0, ![e].pending = FALSE] /\ phys' = [phys EXCEPT ![e] = 0]
         /\ op' = [op EXCEPT ![o].pc = "leave", ![o].then = "failed"]
      BY <1>p, <1>e DEF Prepare
<1>4. CASE /\ entry' = [entry EXCEPT ![e].owner = o, ![e].pending = FALSE] /\ phys' = [phys EXCEPT ![e] = o]
           /\ op' = [op EXCEPT ![o].pc = "leave", ![o].then = "backend"]
      BY <1>p, <1>e, <1>t, <1>a, <1>1, <1>2, <1>4
<1>5. CASE /\ entry' = [entry EXCEPT ![e].owner = 0, ![e].pending = FALSE] /\ phys' = [phys EXCEPT ![e] = 0]
           /\ op' = [op EXCEPT ![o].pc = "leave", ![o].then = "failed"]
      BY <1>p, <1>e, <1>t, <1>a, <1>1, <1>2, <1>5
<1> QED BY <1>3, <1>4, <1>5

(* A claim makes a request the newest of a free endpoint, or ends it. *)
LEMMA ClaimMoves ==
  ASSUME TypeInv, NEW o \in Procs, Claim(o)
  PROVE  LET a == entry[op[o].ep]  b == entry'[op[o].ep] IN
         /\ b.busy = a.busy /\ b.owner = a.owner /\ b.pending = a.pending /\ b.reg = a.reg /\ phys' = phys
         /\ \/ b.newest = o /\ ~a.busy /\ a.newest <= o
               /\ op'[o].pc = (IF op[o].kind = "start" THEN "enter" ELSE "current")
            \/ b.newest = a.newest /\ op'[o].pc = "end"
         /\ op[o].ep \in Endpoints /\ o \in Requests
<1>p. PICK p : p = op[o]
      OBVIOUS
<1>e. PICK e : e = p.ep
      OBVIOUS
<1>0. p.pc = "claim"
      BY <1>p DEF Claim
<1>t. /\ p \in OpRec /\ entry \in [Endpoints -> Entry] /\ op \in [Procs -> OpRec] /\ e \in Endpoints
      /\ o \in Requests
      BY <1>p, <1>e, <1>0, TaskPlace DEF TypeInv, TasksInv, DataInv, Running, AtRest
<1>d. p = [f \in DOMAIN p |-> p[f]]
      /\ DOMAIN p = {"kind", "pc", "ep", "sid", "h", "base", "rev", "own", "set", "on", "old", "then"}
      BY <1>t DEF OpRec
<1>a. PICK a \in Entry : a = entry[e]
      BY <1>t
<1>1. CASE Claims(e, o)
  <2>1. entry'[e] = [a EXCEPT !.newest = o]
        BY <1>p, <1>e, <1>t, <1>a, <1>1 DEF Claim
  <2>2. /\ entry'[e].busy = a.busy /\ entry'[e].owner = a.owner /\ entry'[e].pending = a.pending
        /\ entry'[e].reg = a.reg /\ entry'[e].newest = o
        BY <2>1 DEF Entry
  <2>3. op'[o].pc = (IF p.kind = "start" THEN "enter" ELSE "current") /\ phys' = phys
        BY <1>p, <1>e, <1>t, <1>d, <1>1 DEF Claim, Go
  <2> QED BY <1>p, <1>e, <1>t, <1>a, <1>1, <2>2, <2>3 DEF Claims
<1>2. CASE ~Claims(e, o)
  <2>1. entry' = entry /\ op'[o].pc = "end" /\ phys' = phys
        BY <1>p, <1>e, <1>t, <1>d, <1>2 DEF Claim, Go
  <2> QED BY <1>p, <1>e, <1>t, <2>1
<1> QED BY <1>1, <1>2

(* Entering takes the setup lease of an endpoint the request is still the newest of. *)
LEMMA EnterMoves ==
  ASSUME TypeInv, NEW o \in Procs, StartEnter(o) \/ ReconfigureEnter(o)
  PROVE  LET a == entry[op[o].ep]  b == entry'[op[o].ep] IN
         /\ b.owner = a.owner /\ b.pending = a.pending /\ b.reg = a.reg /\ b.newest = a.newest /\ phys' = phys
         /\ \/ b.busy /\ ~a.busy /\ a.newest = o /\ op'[o].pc \in {"targets", "prepare", "retire"}
            \/ b.busy = a.busy /\ op'[o].pc \in {"end", "input"}
         /\ op[o].ep \in Endpoints /\ o \in Requests /\ op'[o].ep = op[o].ep
<1>p. PICK p : p = op[o]
      OBVIOUS
<1>e. PICK e : e = p.ep
      OBVIOUS
<1>0. p.pc = "enter" /\ p.kind \in {"start", "reconfigure"}
      BY <1>p DEF StartEnter, ReconfigureEnter, At
<1>t. /\ p \in OpRec /\ entry \in [Endpoints -> Entry] /\ op \in [Procs -> OpRec] /\ e \in Endpoints
      /\ o \in Requests
      BY <1>p, <1>e, <1>0, TaskPlace DEF TypeInv, TasksInv, DataInv, Running, AtRest
<1>d. p = [f \in DOMAIN p |-> p[f]]
      /\ DOMAIN p = {"kind", "pc", "ep", "sid", "h", "base", "rev", "own", "set", "on", "old", "then"}
      BY <1>t DEF OpRec
<1>a. PICK a \in Entry : a = entry[e]
      BY <1>t
<1>1. CASE Accepts(e, o)
  <2>1. entry'[e] = [a EXCEPT !.busy = TRUE]
        BY <1>p, <1>e, <1>t, <1>a, <1>1 DEF StartEnter, ReconfigureEnter
  <2>2. /\ entry'[e].busy /\ entry'[e].owner = a.owner /\ entry'[e].pending = a.pending
        /\ entry'[e].reg = a.reg /\ entry'[e].newest = a.newest
        BY <2>1 DEF Entry
  <2>3. CASE StartEnter(o)
    <3>1. PICK S : S = {Target(s) : s \in Stale(e)}
          OBVIOUS
    <3>2. op' = [op EXCEPT ![o].set = S, ![o].pc = "targets"]
          BY <1>p, <1>e, <1>1, <2>3, <3>1 DEF StartEnter
    <3>3. op'[o].pc = "targets" /\ op'[o].ep = p.ep
          BY <1>p, <1>t, <1>d, <3>2
    <3>4. phys' = phys
          BY <2>3 DEF StartEnter
    <3> QED BY <1>p, <1>e, <1>t, <1>a, <1>1, <2>2, <3>3, <3>4 DEF Accepts
  <2>4. CASE ReconfigureEnter(o)
    <3>1. op'[o].pc \in {"prepare", "retire"} /\ op'[o].ep = p.ep /\ phys' = phys
          BY <1>p, <1>e, <1>t, <1>d, <1>1, <2>4 DEF ReconfigureEnter, Go
    <3> QED BY <1>p, <1>e, <1>t, <1>a, <1>1, <2>2, <3>1 DEF Accepts
  <2> QED BY <2>3, <2>4
<1>2. CASE ~Accepts(e, o)
  <2>1. entry' = entry /\ phys' = phys
        BY <1>p, <1>e, <1>2 DEF StartEnter, ReconfigureEnter
  <2>2. op'[o].pc \in {"end", "input"} /\ op'[o].ep = p.ep
        BY <1>p, <1>e, <1>t, <1>d, <1>2 DEF StartEnter, ReconfigureEnter, Go
  <2> QED BY <1>p, <1>e, <1>t, <2>1, <2>2
<1> QED BY <1>1, <1>2

(* Publishing makes the request the registered owner of an endpoint it is the newest of. *)
LEMMA RegisterMoves ==
  ASSUME TypeInv, NEW o \in Procs, Register(o) \/ Commit(o)
  PROVE  LET a == entry[op[o].ep]  b == entry'[op[o].ep] IN
         /\ b.busy = a.busy /\ b.owner = a.owner /\ b.pending = a.pending /\ b.newest = a.newest /\ phys' = phys
         /\ b.reg = a.reg \/ (b.reg = o /\ ~a.busy /\ a.newest = o)
         /\ op[o].ep \in Endpoints /\ o \in Requests
<1>p. PICK p : p = op[o]
      OBVIOUS
<1>e. PICK e : e = p.ep
      OBVIOUS
<1>0. p.pc \in {"register", "commit"} /\ p.kind \in {"start", "reconfigure"}
      BY <1>p DEF Register, Commit, At
<1>t. /\ p \in OpRec /\ entry \in [Endpoints -> Entry] /\ op \in [Procs -> OpRec] /\ e \in Endpoints
      /\ o \in Requests
      BY <1>p, <1>e, <1>0, TaskPlace DEF TypeInv, TasksInv, DataInv, Running, AtRest
<1>a. PICK a \in Entry : a = entry[e]
      BY <1>t
<1>1. \/ entry' = entry
      \/ entry' = [entry EXCEPT ![e].reg = o] /\ Accepts(e, o)
      BY <1>p, <1>e DEF Register, Commit, MayRegister, Current
<1>2. phys' = phys
      BY DEF Register, Commit
<1>3. CASE entry' = [entry EXCEPT ![e].reg = o] /\ Accepts(e, o)
  <2>1. entry'[e] = [a EXCEPT !.reg = o]
        BY <1>t, <1>a, <1>3
  <2>2. /\ entry'[e].busy = a.busy /\ entry'[e].owner = a.owner /\ entry'[e].pending = a.pending
        /\ entry'[e].reg = o /\ entry'[e].newest = a.newest
        BY <2>1 DEF Entry
  <2> QED BY <1>p, <1>e, <1>t, <1>a, <1>2, <1>3, <2>2 DEF Accepts
<1>4. CASE entry' = entry
      BY <1>p, <1>e, <1>t, <1>2, <1>4
<1> QED BY <1>1, <1>3, <1>4

(* The places at which a task holds the setup lease of its endpoint. *)
Leases(p) ==
  \/ p.pc \in {"cleaning", "prepare", "leave"}
  \/ p.kind = "start" /\ InTargets(p)
  \/ p.kind = "reconfigure" /\ p.pc = "retire"

(* The setup lease of an endpoint has one holder, what the books say of an endpoint is what is set *)
(* up there, and a cleanup under way is that of the resource that is there.                        *)
LeaseInv ==
  /\ \A o \in Procs : Leases(op[o]) => entry[op[o].ep].busy
  /\ \A o, q \in Procs : Leases(op[o]) /\ Leases(op[q]) /\ op[o].ep = op[q].ep => o = q
  /\ \A e \in Endpoints : entry[e].busy => \E o \in Procs : Leases(op[o]) /\ op[o].ep = e
  /\ PendingInv
  /\ \A e \in Endpoints : phys[e] = entry[e].owner
  /\ \A o \in Procs : op[o].pc = "cleaning" =>
       /\ entry[op[o].ep].owner = op[o].own /\ op[o].own # 0
       /\ op[o].kind = "start" => op[o].then # "targets"

(* A step takes the lease, gives it back, or leaves it as it is. *)
Takes(o) == /\ ~Leases(op[o]) /\ Leases(op'[o]) /\ op'[o].ep = op[o].ep
            /\ ~entry[op[o].ep].busy /\ entry'[op[o].ep].busy
Drops(o) == /\ Leases(op[o]) /\ ~Leases(op'[o])
            /\ ~entry'[op[o].ep].busy /\ ~entry'[op[o].ep].pending
LeavesAlone(o) == /\ Leases(op'[o]) <=> Leases(op[o])
                  /\ Leases(op[o]) => op'[o].ep = op[o].ep
                  /\ op[o].ep \in Endpoints => entry'[op[o].ep].busy = entry[op[o].ep].busy

(* What each step does about the lease. *)
LEMMA LeaseMoves ==
  ASSUME TypeInv, LeaseInv, NEW o \in Procs, Step(o)
  PROVE  /\ (op[o].ep \in Endpoints /\ (Takes(o) \/ Drops(o))) \/ LeavesAlone(o)
         /\ Takes(o) \/ Drops(o) => op[o].ep \in Endpoints
<1>p. PICK p : p = op[o]
      OBVIOUS
<1>t. /\ p \in OpRec /\ Shape(o, p) /\ op \in [Procs -> OpRec] /\ Shape(o, op'[o]) /\ Acts(o)
      BY <1>p, StepActs DEF TypeInv, TasksInv, Acts
<1>d. p = [f \in DOMAIN p |-> p[f]]
      /\ DOMAIN p = {"kind", "pc", "ep", "sid", "h", "base", "rev", "own", "set", "on", "old", "then"}
      BY <1>t DEF OpRec
<1>n. PendingInv
      BY DEF LeaseInv
<1>g. /\ Leases(p) => p.ep \in Endpoints
      /\ p.pc = "cleaning" /\ p.kind = "start" => p.then # "targets"
      /\ Leases(p) => entry[p.ep].busy
  <2>1. Leases(p) => Running(p) /\ (p.kind \in {"start", "reconfigure"} \/ p.pc \in {"cleaning", "prepare", "leave"})
        BY DEF Leases, Running, AtRest, InTargets
  <2>2. Leases(p) => p.ep \in Endpoints
        BY <1>p, <2>1, TaskPlace
  <2> QED BY <1>p, <2>2 DEF LeaseInv
<1>s. /\ p.pc \in {"cleanup", "cleaning"} /\ p.kind \in {"start", "reconfigure"} => p.then \in {"end", "targets", "restore"}
      /\ p.pc \in {"cleanup", "cleaning"} /\ p.kind \notin {"start", "reconfigure"} => p.then \in {"end", "targets"}
      /\ p.pc = "leave" => p.then \in {"backend", "failed", "end"}
      /\ p.pc = "targets" => p.kind # "reconfigure"
      /\ p.pc \in {"cleanup", "cleaning"} /\ p.kind = "reconfigure" => p.then # "targets"
      BY <1>t DEF Shape, StartShape, ReconfigureShape, CallShape, Running, AtRest, OpRec, Kinds, Calls, ReconfigurePcs
<1>1. CASE CleanupBegin(o)
  <2>1. p.pc = "cleanup"
        BY <1>p, <1>1, ActionPcs
  <2>2. /\ CleanupBeginMove(p, entry[p.ep], entry'[p.ep], op'[o].pc, active) /\ p.ep \in Endpoints
        /\ op'[o].ep = p.ep /\ op'[o].own = p.own /\ op'[o].then = p.then
        BY <1>p, <1>n, <1>1, CleanupBeginMoves
  <2>3. op'[o].kind = p.kind
        BY <1>p, <1>1, <2>1, StepFields, ActionPcs
  <2>4. CASE op'[o].pc = "cleaning" /\ ~entry[p.ep].busy /\ entry'[p.ep].busy
    <3>1. ~Leases(p)
          BY <1>g, <2>4
    <3>2. Leases(op'[o])
          BY <2>4 DEF Leases
    <3> QED BY <1>p, <2>2, <2>4, <3>1, <3>2 DEF Takes
  <2>5. CASE op'[o].pc = p.then /\ entry'[p.ep].busy = entry[p.ep].busy
    <3>1. Leases(op'[o]) <=> Leases(p)
          BY <1>s, <2>1, <2>2, <2>3, <2>5 DEF Leases, InTargets
    <3> QED BY <1>p, <2>2, <2>5, <3>1 DEF LeavesAlone, Takes, Drops
  <2> QED BY <2>2, <2>4, <2>5 DEF CleanupBeginMove
<1>2. CASE CleanupDo(o)
  <2>1. p.pc = "cleaning"
        BY <1>p, <1>2, ActionPcs
  <2>2. /\ CleanupDoMove(p, entry[p.ep], entry'[p.ep], active) /\ p.ep \in Endpoints
        /\ op'[o].pc = p.then /\ op'[o].then = p.then
        BY <1>p, <1>n, <1>2, CleanupDoMoves
  <2>3. op'[o].kind = p.kind
        BY <1>p, <1>2, <2>1, StepFields, ActionPcs
  <2>4. Leases(p) /\ ~Leases(op'[o])
        BY <1>g, <1>s, <2>1, <2>2, <2>3 DEF Leases, InTargets
  <2> QED BY <1>p, <2>2, <2>4 DEF Drops, CleanupDoMove
<1>3. CASE LeaveSetup(o)
  <2>1. p.pc = "leave"
        BY <1>p, <1>3, ActionPcs
  <2>2. /\ LeaveMove(entry[p.ep], entry'[p.ep], active) /\ p.ep \in Endpoints
        /\ op'[o].pc = p.then
        BY <1>p, <1>n, <1>3, LeaveMoves
  <2>4. Leases(p) /\ ~Leases(op'[o])
        BY <1>s, <2>1, <2>2 DEF Leases, InTargets
  <2> QED BY <1>p, <2>2, <2>4 DEF Drops, LeaveMove
<1>4. CASE StartEnter(o) \/ ReconfigureEnter(o)
  <2>1. p.pc = "enter" /\ (StartEnter(o) => p.kind = "start") /\ (ReconfigureEnter(o) => p.kind = "reconfigure")
        BY <1>p, <1>4, ActionPcs
  <2>2. LET a == entry[op[o].ep]  b == entry'[op[o].ep] IN
         /\ \/ b.busy /\ ~a.busy /\ op'[o].pc \in {"targets", "prepare", "retire"}
            \/ b.busy = a.busy /\ op'[o].pc \in {"end", "input"}
         /\ op[o].ep \in Endpoints /\ op'[o].ep = op[o].ep
        BY <1>4, EnterMoves
  <2>3. op'[o].kind = p.kind
        BY <1>p, <1>4, <2>1, StepFields, ActionPcs
  <2>4. ~Leases(p)
        BY <2>1 DEF Leases, InTargets
  <2>5. CASE entry'[p.ep].busy /\ ~entry[p.ep].busy /\ op'[o].pc \in {"targets", "prepare", "retire"}
    <3>1. Leases(op'[o])
      <4>1. CASE StartEnter(o)
        <5>1. op'[o].pc \in {"targets", "end"}
              BY <4>1, StepMoves, ActionPcs DEF Moves
        <5> QED BY <2>1, <2>3, <2>5, <4>1, <5>1 DEF Leases, InTargets
      <4>2. CASE ReconfigureEnter(o)
        <5>1. op'[o].pc \in {"prepare", "retire", "input", "end"}
              BY <4>2, StepMoves, ActionPcs DEF Moves
        <5> QED BY <2>1, <2>3, <2>5, <4>2, <5>1 DEF Leases
      <4> QED BY <1>4, <4>1, <4>2
    <3> QED BY <1>p, <2>2, <2>4, <2>5, <3>1 DEF Takes
  <2>6. CASE entry'[p.ep].busy = entry[p.ep].busy /\ op'[o].pc \in {"end", "input"}
    <3>1. ~Leases(op'[o])
          BY <2>6 DEF Leases, InTargets
    <3> QED BY <1>p, <2>2, <2>4, <2>6, <3>1 DEF LeavesAlone, Takes, Drops
  <2> QED BY <1>p, <2>2, <2>5, <2>6
<1>5. CASE ~CleanupBegin(o) /\ ~CleanupDo(o) /\ ~LeaveSetup(o) /\ ~StartEnter(o) /\ ~ReconfigureEnter(o)
  <2>1. p.ep \in Endpoints => entry'[p.ep].busy = entry[p.ep].busy
    <3>1. CASE entry' = entry
          BY <3>1
    <3>2. CASE Prepare(o)
          BY <1>p, <3>2, PrepareMoves
    <3>3. CASE Claim(o)
          BY <1>p, <3>3, ClaimMoves
    <3>4. CASE Register(o) \/ Commit(o)
          BY <1>p, <3>4, RegisterMoves
    <3>5. CASE End(o)
          BY <1>p, <1>n, <3>5, EntriesElsewhere DEF Same
    <3> QED BY <1>5, <3>1, <3>2, <3>3, <3>4, <3>5, EntrySteps
  <2>2. (Leases(op'[o]) <=> Leases(p)) /\ (Leases(p) => op'[o].ep = p.ep)
    <3>1. CASE Targets(o)
      <4>1. p.pc = "targets"
            BY <1>p, <3>1, ActionPcs
      <4>2. op'[o].kind = p.kind
            BY <1>p, <3>1, <4>1, StepFields, ActionPcs
      <4>3. CASE op' = [op EXCEPT ![o].pc = IF p.kind = "start" THEN "prepare" ELSE "end"]
        <5>1. op'[o].pc = (IF p.kind = "start" THEN "prepare" ELSE "end") /\ op'[o].ep = p.ep
              BY <1>p, <1>t, <1>d, <4>3
        <5> QED BY <1>s, <4>1, <4>2, <5>1 DEF Leases, InTargets
      <4>4. ASSUME NEW t \in p.set, NEW pc,
                   \/ pc = "cleanup"
                   \/ pc = "end" /\ p.kind = "stop",
                   op' = [op EXCEPT ![o].set = p.set \ {t}, ![o].ep = t.ep, ![o].own = t.own,
                                    ![o].pc = pc, ![o].then = "targets"]
            PROVE  (Leases(op'[o]) <=> Leases(p)) /\ (Leases(p) => op'[o].ep = p.ep)
        <5>1. op'[o].pc = pc /\ op'[o].then = "targets" /\ op'[o].ep = t.ep
              BY <1>p, <1>t, <1>d, <4>4
        <5>2. p.kind = "start" => t.ep = p.ep
              BY <1>t, <4>1 DEF Shape, StartShape, InTargets, Running, AtRest
        <5> QED BY <1>s, <4>1, <4>2, <4>4, <5>1, <5>2 DEF Leases, InTargets
      <4>5. \/ op' = [op EXCEPT ![o].pc = IF p.kind = "start" THEN "prepare" ELSE "end"]
            \/ \E t \in p.set :
                 \/ op' = [op EXCEPT ![o].set = p.set \ {t}, ![o].ep = t.ep, ![o].own = t.own,
                                    ![o].pc = "cleanup", ![o].then = "targets"]
                 \/ op' = [op EXCEPT ![o].set = p.set \ {t}, ![o].ep = t.ep, ![o].own = t.own,
                                    ![o].pc = IF p.kind = "stop" THEN "end" ELSE "cleanup", ![o].then = "targets"]
            BY <1>p, <1>t, <3>1 DEF Targets, Go
      <4>6. ASSUME NEW t \in p.set,
                   op' = [op EXCEPT ![o].set = p.set \ {t}, ![o].ep = t.ep, ![o].own = t.own,
                                    ![o].pc = IF p.kind = "stop" THEN "end" ELSE "cleanup", ![o].then = "targets"]
            PROVE  (Leases(op'[o]) <=> Leases(p)) /\ (Leases(p) => op'[o].ep = p.ep)
        <5>1. PICK pc : pc = IF p.kind = "stop" THEN "end" ELSE "cleanup"
              OBVIOUS
        <5> QED BY <4>4, <4>6, <5>1
      <4> QED BY <4>3, <4>4, <4>5, <4>6
    <3>2. CASE RetireOld(o)
      <4>1. p.kind = "reconfigure" /\ p.pc = "retire" /\ op'[o].pc \in {"prepare", "leave"}
            BY <1>p, <3>2, StepMoves, ActionPcs DEF Moves
      <4>2. op'[o].ep = p.ep
            BY <1>p, <4>1, StepFields, ActionPcs
      <4> QED BY <4>1, <4>2 DEF Leases
    <3>3. CASE Prepare(o)
          BY <1>p, <3>3, PrepareMoves, ActionPcs DEF Leases
    <3>4. CASE ~Targets(o) /\ ~RetireOld(o) /\ ~Prepare(o)
      <4>1. ~Leases(p)
        <5>1. p.pc \notin {"cleaning", "prepare", "leave", "cleanup", "targets"}
              BY <1>p, <1>5, <3>4, StepMoves, ActionPcs DEF Moves
        <5>2. ~(p.kind = "reconfigure" /\ p.pc = "retire")
              BY <1>p, <1>5, <3>4, StepMoves, ActionPcs DEF Moves
        <5> QED BY <5>1, <5>2 DEF Leases, InTargets
      <4>2. ~Leases(op'[o])
        <5>1. op'[o].pc \notin {"cleaning", "prepare", "leave", "retire"}
              BY <1>p, <1>5, <3>4, StepMoves DEF Moves
        <5>2. InTargets(op'[o]) => op'[o].kind # "start"
          <6>1. InTargets(op'[o]) => Collect(o) \/ InTargets(p)
                BY <1>p, <1>5, <3>4, TargetsStep
          <6>2. ~InTargets(p)
            <7>1. p.pc \notin {"cleaning", "cleanup", "targets"}
                  BY <1>p, <1>5, <3>4, StepMoves, ActionPcs DEF Moves
            <7> QED BY <7>1 DEF InTargets
          <6>3. Collect(o) => op'[o].kind = p.kind /\ p.kind = "revoke"
                BY <1>p, StepFields, ActionPcs
          <6> QED BY <6>1, <6>2, <6>3
        <5> QED BY <5>1, <5>2 DEF Leases
      <4> QED BY <4>1, <4>2
    <3> QED BY <3>1, <3>2, <3>3, <3>4
  <2> QED BY <1>p, <2>1, <2>2, <1>g DEF LeavesAlone, Takes, Drops
<1> QED BY <1>1, <1>2, <1>3, <1>4, <1>5

(* What a step does to the owner of the endpoint it works at. *)
LEMMA EntryHere ==
  ASSUME TypeInv, LeaseInv, NEW o \in Procs, Step(o), op[o].ep \in Endpoints
  PROVE  LET a == entry[op[o].ep]  b == entry'[op[o].ep] IN
         /\ b.pending => b.busy
         /\ phys'[op[o].ep] = b.owner
         /\ b.owner = a.owner \/ Leases(op[o])
<1>p. PICK p : p = op[o]
      OBVIOUS
<1>e. PICK e \in Endpoints : e = p.ep
      BY <1>p
<1>t. TypeInv /\ entry \in [Endpoints -> Entry] /\ DataInv
      BY DEF TypeInv, DataInv
<1>n. /\ PendingInv /\ phys[e] = entry[e].owner /\ (entry[e].pending => entry[e].busy)
      /\ (p.pc = "cleaning" => entry[e].owner = p.own)
      BY <1>p, <1>e DEF LeaseInv, PendingInv
<1>1. CASE CleanupBegin(o)
      BY <1>p, <1>e, <1>n, <1>1, CleanupBeginMoves DEF CleanupBeginMove
<1>2. CASE CleanupDo(o)
  <2>1. p.pc = "cleaning"
        BY <1>p, <1>2, ActionPcs
  <2> QED BY <1>p, <1>e, <1>n, <1>2, <2>1, CleanupDoMoves DEF CleanupDoMove, Leases
<1>3. CASE LeaveSetup(o)
  <2>1. p.pc = "leave"
        BY <1>p, <1>3, ActionPcs
  <2> QED BY <1>p, <1>e, <1>n, <1>3, <2>1, LeaveMoves DEF LeaveMove, Leases
<1>4. CASE Prepare(o)
  <2>1. p.pc = "prepare"
        BY <1>p, <1>4, ActionPcs
  <2> QED BY <1>p, <1>e, <1>4, <2>1, PrepareMoves DEF Leases
<1>5. CASE Claim(o)
      BY <1>p, <1>e, <1>n, <1>5, ClaimMoves
<1>6. CASE StartEnter(o) \/ ReconfigureEnter(o)
      BY <1>p, <1>e, <1>n, <1>6, EnterMoves
<1>7. CASE Register(o) \/ Commit(o)
      BY <1>p, <1>e, <1>n, <1>7, RegisterMoves
<1>8. CASE End(o)
      BY <1>p, <1>e, <1>n, <1>8, EntriesElsewhere DEF Same
<1>9. CASE entry' = entry /\ phys' = phys
      BY <1>p, <1>e, <1>n, <1>9
<1> QED BY <1>1, <1>2, <1>3, <1>4, <1>5, <1>6, <1>7, <1>8, <1>9, EntrySteps, GuardSteps

(* A step keeps the setup leases and the books right. *)
LEMMA LeaseStep ==
  ASSUME TypeInv, LeaseInv, NEW o \in Procs, Step(o)
  PROVE  LeaseInv'
<1>p. PICK p : p = op[o]
      OBVIOUS
<1>a. \A q \in Procs \ {o} : op'[q] = op[q]
      BY StepActs DEF Acts
<1>n. PendingInv
      BY DEF LeaseInv
<1>l. \A q \in Procs : Leases(op[q]) => op[q].ep \in Endpoints
  <2>1. ASSUME NEW q \in Procs, Leases(op[q]) PROVE op[q].ep \in Endpoints
    <3>1. Running(op[q]) /\ (op[q].kind \in {"start", "reconfigure"} \/ op[q].pc \in {"cleaning", "prepare", "leave"})
          BY <2>1 DEF Leases, Running, AtRest, InTargets
    <3> QED BY <3>1, TaskPlace
  <2> QED BY <2>1
<1>m. /\ \/ p.ep \in Endpoints /\ (Takes(o) \/ Drops(o))
         \/ LeavesAlone(o)
      /\ Takes(o) \/ Drops(o) => p.ep \in Endpoints
      BY <1>p, LeaseMoves
<1>b. \A e \in Endpoints : e # p.ep =>
         /\ entry'[e].busy = entry[e].busy /\ entry'[e].pending = entry[e].pending
         /\ entry'[e].owner = entry[e].owner /\ phys'[e] = phys[e]
      BY <1>p, <1>n, EntriesElsewhere DEF Same
<1>1. \A q \in Procs : Leases(op'[q]) => entry'[op'[q].ep].busy
  <2>1. ASSUME Leases(op'[o]) PROVE entry'[op'[o].ep].busy
        BY <1>p, <1>l, <1>m, <2>1 DEF Takes, Drops, LeavesAlone, LeaseInv
  <2>2. ASSUME NEW q \in Procs \ {o}, Leases(op[q]) PROVE entry'[op[q].ep].busy
    <3>1. entry[op[q].ep].busy /\ op[q].ep \in Endpoints
          BY <1>l, <2>2 DEF LeaseInv
    <3>2. CASE op[q].ep # p.ep
          BY <1>b, <3>1, <3>2
    <3>3. CASE op[q].ep = p.ep
      <4>1. ~Drops(o)
            BY <1>p, <2>2, <3>3 DEF Drops, LeaseInv
      <4> QED BY <1>p, <1>m, <3>1, <3>3, <4>1 DEF Takes, LeavesAlone
    <3> QED BY <3>2, <3>3
  <2> QED BY <1>a, <2>1, <2>2
<1>2. \A q, x \in Procs : Leases(op'[q]) /\ Leases(op'[x]) /\ op'[q].ep = op'[x].ep => q = x
  <2>1. ASSUME NEW q \in Procs \ {o}, Leases(op[q]), Leases(op'[o]), op[q].ep = op'[o].ep PROVE FALSE
    <3>1. entry[op[q].ep].busy
          BY <2>1 DEF LeaseInv
    <3>2. ~Takes(o)
          BY <1>p, <2>1, <3>1 DEF Takes
    <3>3. Leases(p) /\ op'[o].ep = p.ep
          BY <1>p, <1>m, <2>1, <3>2 DEF Drops, LeavesAlone
    <3> QED BY <1>p, <2>1, <3>3 DEF LeaseInv
  <2>2. ASSUME NEW q \in Procs, NEW x \in Procs, Leases(op'[q]), Leases(op'[x]), op'[q].ep = op'[x].ep
        PROVE  q = x
        BY <1>a, <2>1, <2>2 DEF LeaseInv
  <2> QED BY <2>2
<1>3. \A e \in Endpoints : entry'[e].busy => \E q \in Procs : Leases(op'[q]) /\ op'[q].ep = e
  <2>1. ASSUME NEW e \in Endpoints, entry'[e].busy PROVE \E q \in Procs : Leases(op'[q]) /\ op'[q].ep = e
    <3>1. CASE e # p.ep
      <4>1. PICK q \in Procs : Leases(op[q]) /\ op[q].ep = e
            BY <1>b, <2>1, <3>1 DEF LeaseInv
      <4> QED BY <1>a, <1>p, <3>1, <4>1
    <3>2. CASE e = p.ep
      <4>1. CASE Takes(o)
            BY <1>p, <3>2, <4>1 DEF Takes
      <4>2. CASE LeavesAlone(o) /\ ~Takes(o) /\ ~Drops(o)
        <5>1. entry[e].busy
              BY <1>p, <2>1, <3>2, <4>2 DEF LeavesAlone
        <5>2. PICK q \in Procs : Leases(op[q]) /\ op[q].ep = e
              BY <5>1 DEF LeaseInv
        <5> QED BY <1>a, <1>p, <4>2, <5>2 DEF LeavesAlone
      <4>3. ~Drops(o)
            BY <1>p, <2>1, <3>2 DEF Drops
      <4> QED BY <1>m, <4>1, <4>2, <4>3
    <3> QED BY <3>1, <3>2
  <2> QED BY <2>1
<1>4. PendingInv' /\ \A e \in Endpoints : phys'[e] = entry'[e].owner
  <2>1. ASSUME NEW e \in Endpoints
        PROVE  (entry'[e].pending => entry'[e].busy) /\ phys'[e] = entry'[e].owner
    <3>1. CASE e # p.ep
          BY <1>b, <1>n, <3>1 DEF LeaseInv, PendingInv
    <3>2. CASE e = p.ep
          BY <1>p, <3>2, EntryHere
    <3> QED BY <3>1, <3>2
  <2> QED BY <2>1 DEF PendingInv
<1>5. \A q \in Procs : op'[q].pc = "cleaning" =>
        /\ entry'[op'[q].ep].owner = op'[q].own /\ op'[q].own # 0
        /\ op'[q].kind = "start" => op'[q].then # "targets"
  <2>1. ASSUME NEW q \in Procs \ {o}, op[q].pc = "cleaning"
        PROVE  entry'[op[q].ep].owner = entry[op[q].ep].owner
    <3>1. Leases(op[q]) /\ op[q].ep \in Endpoints
          BY <1>l, <2>1 DEF Leases
    <3>2. CASE op[q].ep # p.ep
          BY <1>b, <3>1, <3>2
    <3>3. CASE op[q].ep = p.ep
      <4>1. ~Leases(p)
            BY <1>p, <3>1, <3>3 DEF LeaseInv
      <4> QED BY <1>p, <3>1, <3>3, <4>1, EntryHere
    <3> QED BY <3>2, <3>3
  <2>2. ASSUME op'[o].pc = "cleaning"
        PROVE  /\ entry'[op'[o].ep].owner = op'[o].own /\ op'[o].own # 0
               /\ op'[o].kind = "start" => op'[o].then # "targets"
    <3>0. Shape(o, p) /\ p \in OpRec
          BY <1>p DEF TypeInv, TasksInv
    <3>1. p.pc \in {"cleanup", "cleaning", "leave"} => p.then # "cleaning"
          BY <3>0 DEF Shape, StartShape, ReconfigureShape, CallShape, Running, AtRest, OpRec, Kinds, Calls
    <3>2. CleanupBegin(o) /\ p.pc = "cleanup"
          BY <1>p, <2>2, <3>1, StepMoves, ActionPcs DEF Moves
    <3>3. /\ CleanupBeginMove(p, entry[p.ep], entry'[p.ep], op'[o].pc, active) /\ p.ep \in Endpoints
          /\ op'[o].ep = p.ep /\ op'[o].own = p.own /\ op'[o].then = p.then
          BY <1>p, <1>n, <3>2, CleanupBeginMoves
    <3>4. entry'[p.ep].owner = p.own /\ p.own # 0 /\ ~entry[p.ep].busy
          BY <2>2, <3>1, <3>2, <3>3 DEF CleanupBeginMove
    <3>5. op'[o].kind = p.kind
          BY <1>p, <3>2, StepFields, ActionPcs
    <3>6. ~Leases(p)
          BY <1>p, <3>4 DEF LeaseInv
    <3> QED BY <3>2, <3>3, <3>4, <3>5, <3>6 DEF Leases, InTargets
  <2> QED BY <1>a, <2>1, <2>2 DEF LeaseInv
<1> QED BY <1>1, <1>2, <1>3, <1>4, <1>5 DEF LeaseInv

(* A task that begins holds no lease. *)
LEMMA BeginsLeaseless ==
  ASSUME TypeInv, NEW o \in Procs,
         Begins \/ (\E q \in Procs \ Requests, s \in DOMAIN live, on \in BOOLEAN : InputCall(q, s, on))
  PROVE  op'[o] = op[o] \/ (~Leases(op'[o]) /\ op'[o].pc # "cleaning" /\ op[o].pc = "idle")
<1>r. Requests \subseteq Procs
      BY RequestsAreProcs DEF TypeInv
<1>0. ASSUME NEW q \in Procs, Starts(q), op'[q].pc \in {"claim", "targets", "silence", "remove", "retire", "collect", "apply", "end"},
             op'[q].kind = "start" => op'[q].pc = "claim", op'[q].kind # "reconfigure" \/ op'[q].pc = "claim"
      PROVE  op'[o] = op[o] \/ (~Leases(op'[o]) /\ op'[o].pc # "cleaning" /\ op[o].pc = "idle")
      BY <1>0 DEF Starts, Leases, InTargets
<1>1. ASSUME NEW q \in Requests, NEW e \in Endpoints, StartBegin(q, e)
      PROVE  op'[o] = op[o] \/ (~Leases(op'[o]) /\ op'[o].pc # "cleaning" /\ op[o].pc = "idle")
      BY <1>r, <1>0, <1>1, StartBeginStarts, BegunWith
<1>2. ASSUME NEW q \in Requests, NEW s \in DOMAIN live, NEW moved \in BOOLEAN, ReconfigureBegin(q, s, moved)
      PROVE  op'[o] = op[o] \/ (~Leases(op'[o]) /\ op'[o].pc # "cleaning" /\ op[o].pc = "idle")
      BY <1>r, <1>0, <1>2, ReconfigureBeginStarts, BegunWith
<1>3. ASSUME NEW q \in Procs \ Requests, NEW s \in DOMAIN live, StopStream(q, s)
      PROVE  op'[o] = op[o] \/ (~Leases(op'[o]) /\ op'[o].pc # "cleaning" /\ op[o].pc = "idle")
      BY <1>r, <1>0, <1>3, StopStreamStarts, BegunWith
<1>4. ASSUME NEW q \in Procs \ Requests, NEW s \in DOMAIN live, ForceStop(q, s)
      PROVE  op'[o] = op[o] \/ (~Leases(op'[o]) /\ op'[o].pc # "cleaning" /\ op[o].pc = "idle")
  <2>1. op'[q].pc = "silence" /\ op'[q].kind = "force"
    <3>1. op \in [Procs -> OpRec]
          BY DEF TypeInv, TasksInv
    <3> QED BY <1>4, <3>1 DEF ForceStop, Tombstone, OpRec
  <2> QED BY <1>r, <1>0, <1>4, <2>1, ForceStopStarts
<1>5. ASSUME NEW q \in Procs \ Requests, NEW s \in DOMAIN live, Sweep(q, s)
      PROVE  op'[o] = op[o] \/ (~Leases(op'[o]) /\ op'[o].pc # "cleaning" /\ op[o].pc = "idle")
  <2>1. op'[q].pc \in {"remove", "retire"} /\ op'[q].kind = "sweep"
        BY <1>5, BegunWith
  <2> QED BY <1>r, <1>0, <1>5, <2>1, SweepStarts
<1>6. ASSUME NEW q \in Procs \ Requests, Revoke(q)
      PROVE  op'[o] = op[o] \/ (~Leases(op'[o]) /\ op'[o].pc # "cleaning" /\ op[o].pc = "idle")
      BY <1>r, <1>0, <1>6, RevokeStarts, BegunWith
<1>7. ASSUME NEW q \in Procs \ Requests, NEW s \in DOMAIN live, NEW on \in BOOLEAN, InputCall(q, s, on)
      PROVE  op'[o] = op[o] \/ (~Leases(op'[o]) /\ op'[o].pc # "cleaning" /\ op[o].pc = "idle")
  <2>1. op'[q].pc \in {"end", "apply"} /\ op'[q].kind = "input"
        BY <1>7, BegunWith
  <2> QED BY <1>r, <1>0, <1>7, <2>1, InputCallStarts
<1>8. ASSUME NEW h \in Handles, CaptureEnds(h)
      PROVE  op'[o] = op[o]
      BY <1>8 DEF CaptureEnds
<1> QED BY <1>1, <1>2, <1>3, <1>4, <1>5, <1>6, <1>7, <1>8 DEF Begins

(* Every step keeps the setup leases and the books right. *)
LEMMA LeaseNext ==
  ASSUME TypeInv, LeaseInv, [Next]_vars
  PROVE  LeaseInv'
<1>1. CASE UNCHANGED vars
      BY <1>1 DEF vars, LeaseInv, PendingInv
<1>2. ASSUME Begins \/ (\E q \in Procs \ Requests, s \in DOMAIN live, on \in BOOLEAN : InputCall(q, s, on))
      PROVE  LeaseInv'
  <2>1. entry' = entry /\ phys' = phys
        BY <1>2, BeginsKeep
  <2>2. \A q \in Procs : op'[q] = op[q] \/ (~Leases(op'[q]) /\ op'[q].pc # "cleaning" /\ op[q].pc = "idle")
        BY <1>2, BeginsLeaseless
  <2>3. \A q \in Procs : Leases(op[q]) => op[q].pc # "idle"
        BY DEF Leases, InTargets
  <2>4. \A e \in Endpoints : entry[e].busy => \E q \in Procs : Leases(op'[q]) /\ op'[q].ep = e
        BY <2>2, <2>3 DEF LeaseInv
  <2> QED BY <2>1, <2>2, <2>4 DEF LeaseInv, PendingInv
<1> QED BY <1>1, <1>2, LeaseStep DEF Next

(* At first nobody holds a lease. *)
LEMMA LeaseInit ==
  ASSUME TypeInv, Init
  PROVE  LeaseInv
<1>1. \A o \in Procs : op[o].pc = "idle"
      BY DEF Init, IdleOp
<1>2. \A e \in Endpoints : ~entry[e].busy /\ ~entry[e].pending /\ entry[e].owner = 0 /\ phys[e] = 0
      BY DEF Init, FreshEntry
<1>3. \A o \in Procs : ~Leases(op[o])
      BY <1>1 DEF Leases, InTargets
<1> QED BY <1>1, <1>2, <1>3 DEF LeaseInv, PendingInv

-----------------------------------------------------------------------------

-----------------------------------------------------------------------------
(***************************************************************************)
(* Claims: an endpoint has one session.                                    *)
(***************************************************************************)

(* The newest claim of an endpoint changes by a claim, or is forgotten. *)
LEMMA NewestMoves ==
  ASSUME TypeInv, LeaseInv, NEW o \in Procs, Step(o), NEW e \in Endpoints
  PROVE  \/ entry'[e].newest = entry[e].newest
         \/ /\ Claim(o) /\ e = op[o].ep /\ entry'[e].newest = o /\ ~entry[e].busy /\ entry[e].newest <= o
            /\ op'[o].pc = (IF op[o].kind = "start" THEN "enter" ELSE "current")
         \/ entry'[e].newest = 0 /\ ~entry'[e].busy /\ entry'[e].owner = 0 /\ \A r \in active' : entry[e].newest < r
<1>n. PendingInv
      BY DEF LeaseInv
<1>a. (CleanupBegin(o) \/ CleanupDo(o) \/ LeaveSetup(o)) => active' = active
      BY DEF CleanupBegin, CleanupDo, LeaveSetup
<1>1. CASE e # op[o].ep \/ End(o)
      BY <1>n, <1>1, EntriesElsewhere DEF Same, Forgets
<1>2. CASE e = op[o].ep /\ CleanupBegin(o)
      BY <1>n, <1>a, <1>2, CleanupBeginMoves DEF CleanupBeginMove, Forgets
<1>3. CASE e = op[o].ep /\ CleanupDo(o)
      BY <1>n, <1>a, <1>3, CleanupDoMoves DEF CleanupDoMove, Forgets
<1>4. CASE e = op[o].ep /\ LeaveSetup(o)
      BY <1>n, <1>a, <1>4, LeaveMoves DEF LeaveMove, Forgets
<1>5. CASE e = op[o].ep /\ Prepare(o)
      BY <1>5, PrepareMoves
<1>6. CASE e = op[o].ep /\ Claim(o)
      BY <1>6, ClaimMoves
<1>7. CASE e = op[o].ep /\ (StartEnter(o) \/ ReconfigureEnter(o))
      BY <1>7, EnterMoves
<1>8. CASE e = op[o].ep /\ (Register(o) \/ Commit(o))
      BY <1>8, RegisterMoves
<1>9. CASE entry' = entry
      BY <1>9
<1> QED BY <1>1, <1>2, <1>3, <1>4, <1>5, <1>6, <1>7, <1>8, <1>9, EntrySteps

(* As long as a request that claimed an endpoint works, its claim or a newer one is remembered. *)
LEMMA NewestGrows ==
  ASSUME TypeInv, GuardInv, LeaseInv, NEW o \in Procs, Step(o), NEW e \in Endpoints,
         NEW q \in Requests, Running(op[q]), Running(op'[q]), entry[e].newest >= q
  PROVE  /\ entry'[e].newest >= entry[e].newest
         /\ entry'[e].newest # entry[e].newest =>
              /\ Claim(o) /\ e = op[o].ep /\ entry'[e].newest = o /\ ~entry[e].busy /\ o \in Requests
              /\ op'[o].pc = (IF op[o].kind = "start" THEN "enter" ELSE "current")
<1>1. q \in active /\ Requests \subseteq Nat /\ entry[e].newest \in Nat
  <2>1. entry[e] \in Entry /\ MaxRequests \in Nat
        BY DEF TypeInv, DataInv
  <2> QED BY <2>1 DEF GuardInv, Requests, Entry
<1>2. q \in active'
  <2>1. CASE ~End(o)
        BY <1>1, <2>1, GuardSteps
  <2>2. CASE End(o)
    <3>1. op'[o].pc = "done"
          BY <2>2, StepMoves, ActionPcs DEF Moves
    <3>2. q # o
          BY <3>1 DEF Running, AtRest
    <3> QED BY <1>1, <2>2, <3>2 DEF End
  <2> QED BY <2>1, <2>2
<1>3. ~\A r \in active' : entry[e].newest < r
      BY <1>1, <1>2
<1>4. Claim(o) => o \in Requests
      BY ClaimMoves
<1> QED BY <1>1, <1>3, <1>4, NewestMoves

(* What a step does to the sessions: it registers one, publishes a replacement, or leaves *)
(* the place, the capture and the owner of every session alone.                           *)
LEMMA SessionsMove ==
  ASSUME TypeInv, NEW o \in Procs, Step(o), NEW s \in DOMAIN live'
  PROVE  \/ /\ s \in DOMAIN live /\ live'[s].ep = live[s].ep /\ live'[s].handle = live[s].handle
            /\ live'[s].owner = live[s].owner
         \/ /\ Register(o) /\ MayRegister(o) /\ s = o /\ o \in Requests
            /\ live'[s].ep = op[o].ep /\ live'[s].owner = o /\ live'[s].handle = op[o].h
            /\ op'[o].pc = (IF op[o].on THEN "enable" ELSE "end")
         \/ /\ Commit(o) /\ Current(o) /\ op[o].h # 0 /\ s = op[o].sid /\ s \in DOMAIN live
            /\ live'[s].ep = live[s].ep /\ live'[s].owner = o /\ live'[s].handle = op[o].h
            /\ live'[s].released = live[s].released /\ live'[s].stopped = live[s].stopped
            /\ op'[o].pc = "end" /\ entry'[op[o].ep].reg = o
<1>p. PICK p : p = op[o]
      OBVIOUS
<1>t. /\ live \in [DOMAIN live -> Session] /\ p \in OpRec /\ op \in [Procs -> OpRec] /\ Shape(o, p)
      /\ entry \in [Endpoints -> Entry]
      BY <1>p DEF TypeInv, DataInv, TasksInv
<1>d. p = [f \in DOMAIN p |-> p[f]]
      /\ DOMAIN p = {"kind", "pc", "ep", "sid", "h", "base", "rev", "own", "set", "on", "old", "then"}
      BY <1>t DEF OpRec
<1>1. CASE Register(o)
  <2>1. p.kind = "start" /\ p.pc = "register"
        BY <1>p, <1>1, ActionPcs
  <2>2. o \in Requests
        BY <1>p, <2>1, TaskPlace DEF Running, AtRest
  <2>3. CASE MayRegister(o)
    <3>1. live' = [x \in DOMAIN live \cup {o} |-> IF x = o THEN NewSession(o) ELSE live[x]]
          /\ Go(o, IF op[o].on THEN "enable" ELSE "end")
          BY <1>1, <2>3 DEF Register
    <3>2. op'[o].pc = (IF op[o].on THEN "enable" ELSE "end")
          BY <1>p, <1>t, <1>d, <3>1 DEF Go
    <3>3. NewSession(o).ep = op[o].ep /\ NewSession(o).owner = o /\ NewSession(o).handle = op[o].h
          BY DEF NewSession, NewHandle
    <3> QED BY <1>1, <2>2, <2>3, <3>1, <3>2, <3>3
  <2>4. CASE ~MayRegister(o)
        BY <1>1, <2>4 DEF Register
  <2> QED BY <2>3, <2>4
<1>2. CASE Commit(o)
  <2>1. CASE Current(o) /\ p.h # 0
    <3>1. live' = [live EXCEPT ![p.sid].handle = p.h, ![p.sid].owner = o, ![p.sid].input = p.on] /\ Go(o, "end")
          BY <1>p, <1>2, <2>1 DEF Commit
    <3>2. op'[o].pc = "end"
          BY <1>p, <1>t, <1>d, <3>1 DEF Go
    <3>3. s # p.sid => live'[s] = live[s] /\ s \in DOMAIN live
          BY <3>1, <1>t
    <3>4. s = p.sid => live'[s] = [live[s] EXCEPT !.handle = p.h, !.owner = o, !.input = p.on] /\ s \in DOMAIN live
          BY <3>1, <1>t
    <3>5. s = p.sid => /\ live'[s].ep = live[s].ep /\ live'[s].owner = o /\ live'[s].handle = p.h
                       /\ live'[s].released = live[s].released /\ live'[s].stopped = live[s].stopped
          BY <1>t, <3>4 DEF Session
    <3>6. entry'[p.ep].reg = o
      <4>1. p.ep \in Endpoints
            BY <1>p, <1>2, RegisterMoves
      <4>2. entry' = [entry EXCEPT ![p.ep].reg = o]
            BY <1>p, <1>2, <2>1 DEF Commit
      <4> QED BY <1>t, <4>1, <4>2 DEF Entry
    <3> QED BY <1>p, <1>2, <2>1, <3>2, <3>3, <3>4, <3>5, <3>6
  <2>2. CASE ~(Current(o) /\ p.h # 0)
    <3>1. live' = live \/ live' = [live EXCEPT ![p.sid].input = FALSE, ![p.sid].released = TRUE, ![p.sid].rev = @ + 1]
          BY <1>p, <1>2, <2>2 DEF Commit
    <3> QED BY <1>t, <3>1 DEF Session
  <2> QED BY <2>1, <2>2
<1> QED BY <1>1, <1>2, SessionsKept

(* A start that has taken the sessions of its endpoint out, and not registered its own. *)
Entered(p) ==
  /\ p.kind = "start"
  /\ \/ p.pc \in {"prepare", "leave", "failed", "backend", "frame", "policy", "register"}
     \/ InTargets(p)
(* A reconfiguration that has found its session current once. *)
CheckedPcs == {"enter", "retire", "prepare", "leave", "failed", "backend", "frame", "input", "commit",
               "restore", "discard", "cleanup", "cleaning"}
Checked(p) == p.kind = "reconfigure" /\ p.pc \in CheckedPcs

(* Sessions are registered in the order of their numbers, by whoever is the newest of its endpoint. *)
ClaimInv ==
  /\ \A o \in Requests : Running(op[o]) /\ op[o].pc \notin {"claim", "end"} => entry[op[o].ep].newest >= o
  /\ \A o \in Requests : Entered(op[o]) =>
       \A s \in DOMAIN live : live[s].ep = op[o].ep => s > o /\ entry[op[o].ep].newest >= s
  /\ OneSessionPerEndpoint
  /\ \A o \in Requests : Checked(op[o]) /\ entry[op[o].ep].newest = o =>
       \A s \in DOMAIN live : live[s].ep = op[o].ep => s = op[o].sid
  /\ \A o \in Requests : Leases(op[o]) /\ op[o].pc # "cleaning" => entry[op[o].ep].newest = o

(* A request stays at its endpoint, and about its session, until it ends. *)
LEMMA RequestStays ==
  ASSUME TypeInv, NEW o \in Requests, Step(o), ~End(o)
  PROVE  /\ op'[o].ep = op[o].ep /\ op'[o].kind = op[o].kind /\ op'[o].sid = op[o].sid
         /\ Running(op[o]) /\ Running(op'[o]) /\ op[o].kind \in {"start", "reconfigure"} /\ op[o].ep \in Endpoints
<1>p. o \in Procs
      BY RequestsAreProcs DEF TypeInv
<1>a. /\ Running(op[o]) /\ Shape(o, op[o]) /\ Shape(o, op'[o]) /\ op'[o].pc # "idle" /\ op \in [Procs -> OpRec]
      BY <1>p, StepActs DEF Acts, TypeInv, TasksInv
<1>k. op[o].kind \in {"start", "reconfigure"}
      BY <1>a DEF Shape, Running, AtRest
<1>1. op'[o].kind = op[o].kind /\ op'[o].sid = op[o].sid
      BY <1>p, <1>k, StepFields, ActionPcs
<1>2. op'[o].ep = op[o].ep
  <2>1. CASE Targets(o)
    <3>1. op[o].pc = "targets" /\ op[o].kind = "start"
          BY <1>p, <1>a, <1>k, <2>1, ActionPcs DEF Shape, ReconfigureShape, Running, AtRest, ReconfigurePcs
    <3>2. op[o].set \subseteq {t \in TargetRec : t.ep = op[o].ep}
          BY <1>a, <3>1 DEF Shape, StartShape, InTargets, Running, AtRest
    <3>3. \/ op'[o].ep = op[o].ep
          \/ \E t \in op[o].set : op'[o].ep = t.ep
      <4>p. PICK p \in OpRec : p = op[o]
            BY <1>p, <1>a
      <4>d. p = [f \in DOMAIN p |-> p[f]]
            /\ DOMAIN p = {"kind", "pc", "ep", "sid", "h", "base", "rev", "own", "set", "on", "old", "then"}
            BY DEF OpRec
      <4>1. CASE op' = [op EXCEPT ![o].pc = IF p.kind = "start" THEN "prepare" ELSE "end"]
            BY <1>p, <1>a, <4>p, <4>d, <4>1
      <4>2. ASSUME NEW t \in p.set, NEW pc,
                   op' = [op EXCEPT ![o].set = p.set \ {t}, ![o].ep = t.ep, ![o].own = t.own,
                                    ![o].pc = pc, ![o].then = "targets"]
            PROVE  op'[o].ep = t.ep
            BY <1>p, <1>a, <4>p, <4>d, <4>2
      <4>3. \/ op' = [op EXCEPT ![o].pc = IF p.kind = "start" THEN "prepare" ELSE "end"]
            \/ \E t \in p.set :
                 \/ op' = [op EXCEPT ![o].set = p.set \ {t}, ![o].ep = t.ep, ![o].own = t.own,
                                    ![o].pc = "cleanup", ![o].then = "targets"]
                 \/ op' = [op EXCEPT ![o].set = p.set \ {t}, ![o].ep = t.ep, ![o].own = t.own,
                                    ![o].pc = IF p.kind = "stop" THEN "end" ELSE "cleanup", ![o].then = "targets"]
            BY <1>p, <1>a, <4>p, <2>1 DEF Targets, Go
      <4>4. ASSUME NEW t \in p.set,
                   op' = [op EXCEPT ![o].set = p.set \ {t}, ![o].ep = t.ep, ![o].own = t.own,
                                    ![o].pc = IF p.kind = "stop" THEN "end" ELSE "cleanup", ![o].then = "targets"]
            PROVE  op'[o].ep = t.ep
        <5>1. PICK pc : pc = IF p.kind = "stop" THEN "end" ELSE "cleanup"
              OBVIOUS
        <5> QED BY <4>2, <4>4, <5>1
      <4> QED BY <4>p, <4>1, <4>2, <4>3, <4>4
    <3> QED BY <3>2, <3>3
  <2> QED BY <1>p, <1>k, <2>1, StepFields, ActionPcs
<1>3. Running(op'[o])
      BY <1>p, <1>a, StepMoves DEF Moves, Running, AtRest, Shape, StartShape, ReconfigureShape
<1>4. op[o].ep \in Endpoints
      BY <1>p, <1>a, <1>k, TaskPlace
<1> QED BY <1>1, <1>2, <1>3, <1>4, <1>a, <1>k

(* Where the claims of a step leave the other requests. *)
LEMMA ClaimOthers ==
  ASSUME TypeInv, GuardInv, LeaseInv, ClaimInv, NEW o \in Procs, Step(o), NEW q \in Requests, q # o
  PROVE  /\ Running(op'[q]) /\ op'[q].pc \notin {"claim", "end"} =>
              entry'[op'[q].ep].newest >= q
         /\ Entered(op'[q]) =>
              \A s \in DOMAIN live' : live'[s].ep = op'[q].ep => s > q /\ entry'[op'[q].ep].newest >= s
         /\ Checked(op'[q]) /\ entry'[op'[q].ep].newest = q =>
              \A s \in DOMAIN live' : live'[s].ep = op'[q].ep => s = op'[q].sid
         /\ Leases(op'[q]) /\ op'[q].pc # "cleaning" => entry'[op'[q].ep].newest = q
<1>p. PICK p : p = op[q]
      OBVIOUS
<1>0. q \in Procs /\ op'[q] = p /\ Requests \subseteq Procs
      BY <1>p, StepActs, RequestsAreProcs DEF Acts, TypeInv
<1>t. /\ entry \in [Endpoints -> Entry] /\ entry' \in [Endpoints -> Entry]
      /\ DOMAIN live \subseteq Requests /\ DOMAIN live' \subseteq Requests /\ MaxRequests \in Nat
      BY StepTypes DEF TypeInv, DataInv
<1>e. Running(p) => p.ep \in Endpoints
  <2>1. Running(p) => p.kind \in {"start", "reconfigure"}
        BY <1>p, <1>0 DEF TypeInv, TasksInv, Shape, Running, AtRest
  <2> QED BY <1>p, <1>0, <2>1, TaskPlace
<1>n. \A e \in Endpoints : entry[e].newest \in Nat /\ entry'[e].newest \in Nat
      BY <1>t DEF Entry
<1>r. Requests \subseteq Nat /\ q \in Nat
      BY <1>t DEF Requests
<1>c. Running(p) /\ p.pc \notin {"claim", "end"} =>
        /\ entry[p.ep].newest >= q
        /\ entry'[p.ep].newest >= entry[p.ep].newest
        /\ entry'[p.ep].newest # entry[p.ep].newest => ~entry[p.ep].busy
      BY <1>p, <1>0, <1>e, NewestGrows DEF ClaimInv
<1>1. Running(p) /\ p.pc \notin {"claim", "end"} => entry'[p.ep].newest >= q
      BY <1>c, <1>e, <1>n, <1>r
<1>s. \A s \in DOMAIN live' :
        \/ s \in DOMAIN live /\ live'[s].ep = live[s].ep
        \/ s = o /\ o \in Requests /\ live'[s].ep = op[o].ep /\ entry[op[o].ep].newest = o
      BY SessionsMove DEF MayRegister, Accepts
<1>2. ASSUME Entered(p), NEW s \in DOMAIN live', live'[s].ep = p.ep
      PROVE  s > q /\ entry'[p.ep].newest >= s
  <2>1. Running(p) /\ p.pc \notin {"claim", "end"}
        BY <1>2 DEF Entered, InTargets, Running, AtRest
  <2>2. p.ep \in Endpoints /\ s \in Nat
        BY <1>e, <1>r, <1>t, <2>1
  <2>3. CASE s \in DOMAIN live /\ live'[s].ep = live[s].ep
    <3>1. s > q /\ entry[p.ep].newest >= s
          BY <1>p, <1>2, <2>3 DEF ClaimInv
    <3> QED BY <1>c, <1>n, <2>1, <2>2, <3>1
  <2>4. CASE s = o /\ o \in Requests /\ live'[s].ep = op[o].ep /\ entry[op[o].ep].newest = o
    <3>1. entry[p.ep].newest = s
          BY <1>2, <2>4
    <3> QED BY <1>c, <1>n, <1>r, <2>1, <2>2, <2>4, <3>1
  <2> QED BY <1>s, <2>3, <2>4
<1>3. ASSUME Checked(p), entry'[p.ep].newest = q, NEW s \in DOMAIN live', live'[s].ep = p.ep
      PROVE  s = p.sid
  <2>1. Running(p) /\ p.pc \notin {"claim", "end"}
        BY <1>3 DEF Checked, CheckedPcs, Running, AtRest
  <2>2. entry[p.ep].newest = q
        BY <1>c, <1>e, <1>n, <1>r, <1>3, <2>1
  <2>3. CASE s \in DOMAIN live /\ live'[s].ep = live[s].ep
        BY <1>p, <1>3, <2>2, <2>3 DEF ClaimInv
  <2>4. CASE s = o /\ o \in Requests /\ live'[s].ep = op[o].ep /\ entry[op[o].ep].newest = o
        BY <1>3, <2>2, <2>4
  <2> QED BY <1>s, <2>3, <2>4
<1>4. ASSUME Leases(p), p.pc # "cleaning" PROVE entry'[p.ep].newest = q
  <2>1. Running(p) /\ p.pc \notin {"claim", "end"}
        BY <1>4 DEF Leases, InTargets, Running, AtRest
  <2>2. entry[p.ep].newest = q /\ entry[p.ep].busy
        BY <1>p, <1>0, <1>4 DEF ClaimInv, LeaseInv
  <2> QED BY <1>c, <2>1, <2>2
<1> QED BY <1>0, <1>1, <1>2, <1>3, <1>4

(* Where its own step leaves the claim of a request. *)
LEMMA ClaimOwn ==
  ASSUME TypeInv, GuardInv, KnowInv, LeaseInv, ClaimInv, NEW o \in Requests, Step(o)
  PROVE  /\ Running(op'[o]) /\ op'[o].pc \notin {"claim", "end"} =>
              entry'[op'[o].ep].newest >= o
         /\ Entered(op'[o]) =>
              \A s \in DOMAIN live' : live'[s].ep = op'[o].ep => s > o /\ entry'[op'[o].ep].newest >= s
         /\ Checked(op'[o]) /\ entry'[op'[o].ep].newest = o =>
              \A s \in DOMAIN live' : live'[s].ep = op'[o].ep => s = op'[o].sid
         /\ Leases(op'[o]) /\ op'[o].pc # "cleaning" => entry'[op'[o].ep].newest = o
<1>p. PICK p : p = op[o]
      OBVIOUS
<1>r. PICK r : r = op'[o]
      OBVIOUS
<1>0. o \in Procs /\ Shape(o, p) /\ Shape(o, r) /\ Running(p) /\ r.pc # "idle"
      BY <1>p, <1>r, StepActs, RequestsAreProcs DEF Acts, TypeInv, TasksInv
<1>t. /\ entry \in [Endpoints -> Entry] /\ entry' \in [Endpoints -> Entry]
      /\ DOMAIN live \subseteq Requests /\ DOMAIN live' \subseteq Requests /\ MaxRequests \in Nat
      BY <1>0, StepTypes DEF TypeInv, DataInv
<1>q. /\ \A e \in Endpoints : entry[e].newest \in Nat /\ entry'[e].newest \in Nat
      /\ Requests \subseteq Nat
      BY <1>t DEF Entry, Requests
<1>1. CASE End(o)
  <2>1. r.pc = "done"
        BY <1>r, <1>0, <1>1, EndDone
  <2> QED BY <1>r, <2>1 DEF Running, AtRest, Entered, Checked, CheckedPcs, Leases, InTargets
<1>2. CASE ~End(o)
  <2>e. /\ r.ep = p.ep /\ r.kind = p.kind /\ r.sid = p.sid /\ Running(r)
        /\ p.kind \in {"start", "reconfigure"} /\ p.ep \in Endpoints
        BY <1>p, <1>r, <1>2, RequestStays
  <2>m. Moves(o)
        BY <1>0, StepMoves
  <2>c. p.pc # "claim" =>
          /\ entry[p.ep].newest >= o
          /\ entry'[p.ep].newest = entry[p.ep].newest
    <3>1. p.pc # "end"
          BY <1>p, <1>2, <2>m DEF Moves
    <3>2. p.pc # "claim" => entry[p.ep].newest >= o
          BY <1>p, <1>0, <3>1 DEF ClaimInv
    <3> QED BY <1>p, <1>r, <1>0, <1>q, <2>e, <3>1, <3>2, NewestGrows, ActionPcs
  <2>s. \A s \in DOMAIN live' : ~Register(o) => s \in DOMAIN live /\ live'[s].ep = live[s].ep
        BY <1>0, SessionsMove
  <2>1. r.pc \notin {"claim", "end"} => entry'[p.ep].newest >= o
    <3>1. CASE p.pc = "claim" /\ r.pc \notin {"claim", "end"}
      <4>1. Claim(o)
            BY <1>p, <2>m, <3>1 DEF Moves
      <4> QED BY <1>p, <1>r, <1>0, <1>q, <3>1, <4>1, ClaimMoves
    <3> QED BY <1>q, <2>c, <2>e, <3>1
  <2>2. ASSUME Entered(r), NEW s \in DOMAIN live', live'[s].ep = p.ep
        PROVE  s > o /\ entry'[p.ep].newest >= s
    <3>0. ~Register(o)
      <4>1. Register(o) => r.pc \in {"enable", "end", "discard"}
            BY <1>p, <1>r, <2>m, <1>0, ActionPcs DEF Moves
      <4> QED BY <2>2, <4>1 DEF Entered, InTargets
    <3>1. s \in DOMAIN live /\ live'[s].ep = live[s].ep
          BY <2>s, <3>0
    <3>2. CASE StartEnter(o)
      <4>1. r.pc # "end"
            BY <2>2 DEF Entered, InTargets
      <4>2. live' = Drop(Stale(p.ep))
            BY <1>p, <1>r, <1>t, <3>2, <4>1, <1>0 DEF StartEnter, Go, TypeInv, TasksInv, OpRec
      <4>3. s \notin Stale(p.ep)
            BY <4>2 DEF Drop
      <4> QED BY <2>2, <3>1, <4>3 DEF Stale
    <3>3. CASE ~StartEnter(o)
      <4>1. Entered(p)
        <5>1. CASE InTargets(r)
          <6>1. InTargets(p)
                BY <1>p, <1>r, <1>0, <2>e, <3>3, <5>1, TargetsStep, ActionPcs
          <6> QED BY <2>e, <2>2, <6>1 DEF Entered
        <5>2. CASE r.pc \in {"prepare", "leave", "failed", "backend", "frame", "policy", "register"}
          <6>1. p.kind = "start"
                BY <2>e, <2>2 DEF Entered
          <6>2. p.pc \in {"targets", "prepare", "leave", "failed", "backend", "frame", "policy", "register"}
                BY <1>p, <1>r, <1>0, <2>m, <3>3, <5>2, <6>1 DEF Moves, Shape, StartShape, Running, AtRest
          <6> QED BY <6>1, <6>2 DEF Entered, InTargets
        <5> QED BY <2>2, <5>1, <5>2 DEF Entered
      <4>2. s > o /\ entry[p.ep].newest >= s
            BY <1>p, <2>2, <3>1, <4>1 DEF ClaimInv
      <4>3. p.pc # "claim"
            BY <4>1 DEF Entered, InTargets
      <4> QED BY <2>c, <4>2, <4>3
    <3> QED BY <3>2, <3>3
  <2>3. ASSUME Checked(r), entry'[p.ep].newest = o, NEW s \in DOMAIN live', live'[s].ep = p.ep
        PROVE  s = p.sid
    <3>0. ~Register(o)
          BY <1>p, <1>0, <2>e, <2>3, ActionPcs DEF Checked
    <3>1. s \in DOMAIN live /\ live'[s].ep = live[s].ep
          BY <2>s, <3>0
    <3>2. CASE CheckCurrent(o) /\ p.pc = "current"
      <4>1. r.pc # "end" /\ p.kind = "reconfigure"
            BY <2>e, <2>3 DEF Checked, CheckedPcs
      <4>2. Current(o)
            BY <1>p, <1>r, <1>0, <3>2, <4>1 DEF CheckCurrent, Go, TypeInv, TasksInv, OpRec
      <4>3. p.sid \in DOMAIN live /\ live[p.sid].ep = p.ep
            BY <1>p, <1>0, <3>2, <4>1, <4>2 DEF Current, Accepting, KnowInv, PreCommit, Running, AtRest
      <4> QED BY <2>3, <3>1, <4>3 DEF ClaimInv, OneSessionPerEndpoint
    <3>3. CASE ~(CheckCurrent(o) /\ p.pc = "current")
      <4>0. p.kind = "reconfigure" /\ r.pc \in CheckedPcs
            BY <2>e, <2>3 DEF Checked
      <4>1. p.pc \in CheckedPcs
        <5>1. p.pc \in ReconfigurePcs
              BY <1>0, <4>0 DEF Shape, ReconfigureShape
        <5>2. p.pc \notin {"claim", "end"}
          <6>1. Claim(o) => r.pc \in {"current", "end"}
                BY <1>p, <1>r, <1>0, <4>0, ClaimMoves
          <6> QED BY <1>p, <1>r, <1>2, <2>m, <4>0, <6>1 DEF Moves, CheckedPcs
        <5>3. p.pc # "current"
              BY <1>p, <1>r, <2>m, <3>3 DEF Moves
        <5> QED BY <5>1, <5>2, <5>3 DEF CheckedPcs, ReconfigurePcs
      <4>2. entry[p.ep].newest = o
            BY <2>c, <2>3, <4>1 DEF CheckedPcs
      <4> QED BY <1>p, <2>3, <3>1, <4>0, <4>1, <4>2 DEF ClaimInv, Checked
    <3> QED BY <3>2, <3>3
  <2>4. ASSUME Leases(r), r.pc # "cleaning" PROVE entry'[p.ep].newest = o
    <3>1. CASE StartEnter(o) \/ ReconfigureEnter(o)
      <4>1. r.pc \notin {"end", "input"}
            BY <2>4 DEF Leases, InTargets
      <4> QED BY <1>p, <1>r, <1>0, <3>1, <4>1, EnterMoves
    <3>2. CASE ~StartEnter(o) /\ ~ReconfigureEnter(o)
      <4>1. Leases(p) /\ p.pc # "cleaning"
        <5>1. CASE InTargets(r) /\ r.kind = "start"
          <6>1. InTargets(p)
                BY <1>p, <1>r, <1>0, <2>e, <3>2, <5>1, TargetsStep, ActionPcs
          <6>2. p.pc # "cleaning"
                BY <1>p, <1>0, <2>e, <5>1, <6>1 DEF LeaseInv, InTargets
          <6> QED BY <2>e, <5>1, <6>1, <6>2 DEF Leases
        <5>2. CASE r.pc \in {"prepare", "leave"} \/ (r.kind = "reconfigure" /\ r.pc = "retire")
          <6>0. p.pc = "targets" => p.kind = "start"
                BY <1>0, <2>e DEF Shape, ReconfigureShape, ReconfigurePcs, Running, AtRest
          <6>1. p.pc \in {"targets", "prepare", "leave"} \/ (p.kind = "reconfigure" /\ p.pc = "retire")
                BY <1>p, <1>r, <1>0, <2>e, <2>m, <3>2, <5>2 DEF Moves, Shape, StartShape, ReconfigureShape, Running, AtRest
          <6> QED BY <6>0, <6>1 DEF Leases, InTargets
        <5> QED BY <2>4, <5>1, <5>2 DEF Leases
      <4>2. p.pc # "claim"
            BY <4>1 DEF Leases, InTargets
      <4>3. entry[p.ep].newest = o
            BY <1>p, <4>1 DEF ClaimInv
      <4> QED BY <2>c, <4>2, <4>3
    <3> QED BY <3>1, <3>2
  <2> QED BY <1>r, <2>e, <2>1, <2>2, <2>3, <2>4
<1> QED BY <1>1, <1>2

(* A step of a task keeps the claims right. *)
LEMMA ClaimStep ==
  ASSUME TypeInv, GuardInv, KnowInv, LeaseInv, ClaimInv, NEW o \in Procs, Step(o)
  PROVE  ClaimInv'
<1>t. /\ entry \in [Endpoints -> Entry] /\ Requests \subseteq Nat
      /\ DOMAIN live \subseteq Requests /\ MaxRequests \in Nat
      BY DEF TypeInv, DataInv, Requests
<1>1. OneSessionPerEndpoint'
  <2>1. CASE Register(o) /\ MayRegister(o) /\ o \in Requests
    <3>1. op[o].kind = "start" /\ op[o].pc = "register"
          BY <2>1, ActionPcs
    <3>2. Entered(op[o]) /\ op[o].ep \in Endpoints
          BY <2>1, <3>1, TaskPlace DEF Entered, Running, AtRest
    <3>3. entry[op[o].ep].newest = o
          BY <2>1 DEF MayRegister, Accepts
    <3>4. \A s \in DOMAIN live : live[s].ep # op[o].ep
      <4>1. \A s \in DOMAIN live : live[s].ep = op[o].ep => s > o /\ o >= s /\ s \in Nat /\ o \in Nat
            BY <1>t, <2>1, <3>2, <3>3 DEF ClaimInv
      <4> QED BY <4>1
    <3>5. \A s \in DOMAIN live' : (s \in DOMAIN live /\ live'[s].ep = live[s].ep) \/ (s = o /\ live'[s].ep = op[o].ep)
          BY SessionsMove
    <3> QED BY <3>4, <3>5 DEF ClaimInv, OneSessionPerEndpoint
  <2>2. CASE ~(Register(o) /\ MayRegister(o) /\ o \in Requests)
    <3>1. \A s \in DOMAIN live' : s \in DOMAIN live /\ live'[s].ep = live[s].ep
          BY <2>2, SessionsMove
    <3> QED BY <3>1 DEF ClaimInv, OneSessionPerEndpoint
  <2> QED BY <2>1, <2>2
<1>2. \A q \in Requests :
         /\ Running(op'[q]) /\ op'[q].pc \notin {"claim", "end"} => entry'[op'[q].ep].newest >= q
         /\ Entered(op'[q]) =>
              \A s \in DOMAIN live' : live'[s].ep = op'[q].ep => s > q /\ entry'[op'[q].ep].newest >= s
         /\ Checked(op'[q]) /\ entry'[op'[q].ep].newest = q =>
              \A s \in DOMAIN live' : live'[s].ep = op'[q].ep => s = op'[q].sid
         /\ Leases(op'[q]) /\ op'[q].pc # "cleaning" => entry'[op'[q].ep].newest = q
      BY ClaimOwn, ClaimOthers
<1> QED BY <1>1, <1>2 DEF ClaimInv

(* Every step keeps the claims right. *)
LEMMA ClaimNext ==
  ASSUME TypeInv, GuardInv, KnowInv, LeaseInv, ClaimInv, [Next]_vars
  PROVE  ClaimInv'
<1>1. CASE UNCHANGED vars
      BY <1>1 DEF vars, ClaimInv, OneSessionPerEndpoint
<1>2. CASE \E o \in Procs : Step(o)
      BY <1>2, ClaimStep
<1>3. CASE Begins \/ (\E o \in Procs \ Requests, s \in DOMAIN live, on \in BOOLEAN : InputCall(o, s, on))
  <2>1. /\ DOMAIN live' \subseteq DOMAIN live
        /\ \A s \in DOMAIN live' : live'[s].ep = live[s].ep
        BY <1>3, BeginsKeepSessions
  <2>2. entry' = entry
        BY <1>3, BeginsKeep
  <2>3. \A q \in Requests : op'[q] = op[q] \/ op'[q].pc = "claim"
        BY <1>3, BeginsOne
  <2>4. \A q \in Requests : op'[q].pc = "claim" =>
          ~Entered(op'[q]) /\ ~Checked(op'[q]) /\ ~Leases(op'[q])
        BY DEF Entered, Checked, CheckedPcs, Leases, InTargets
  <2>5. OneSessionPerEndpoint'
        BY <2>1 DEF ClaimInv, OneSessionPerEndpoint
  <2> QED BY <2>1, <2>2, <2>3, <2>4, <2>5 DEF ClaimInv
<1> QED BY <1>1, <1>2, <1>3 DEF Next

(* At first nothing is claimed. *)
LEMMA ClaimInit ==
  ASSUME TypeInv, Init
  PROVE  ClaimInv
<1>1. \A o \in Procs : op[o].kind = "none" /\ op[o].pc = "idle"
      BY DEF Init, IdleOp
<1>2. Requests \subseteq Procs
      BY RequestsAreProcs DEF TypeInv
<1> QED BY <1>1, <1>2 DEF Init, ClaimInv, OneSessionPerEndpoint, Entered, Checked, Leases, InTargets, CheckedPcs,
          Running, AtRest

(* No session is at an endpoint a start is setting up. *)
LEMMA SetupAlone ==
  ASSUME TypeInv, ClaimInv, NEW o \in Requests, op[o].kind = "start", Leases(op[o]), op[o].pc # "cleaning"
  PROVE  \A s \in DOMAIN live : live[s].ep # op[o].ep
<1>1. Entered(op[o])
      BY DEF Leases, Entered, InTargets
<1>2. \A s \in DOMAIN live : live[s].ep = op[o].ep => s > o /\ o >= s
      BY <1>1 DEF ClaimInv
<1>3. \A s \in DOMAIN live : s \in Nat /\ o \in Nat
      BY DEF TypeInv, DataInv, Requests
<1> QED BY <1>2, <1>3

-----------------------------------------------------------------------------

(***************************************************************************)
(* Owners: what an endpoint's transport was prepared by.                   *)
(***************************************************************************)

(* The steps of a request that has published its owner. *)
PublishedPcs == {"end", "done", "enable", "flag", "displace", "disable"}
Unpublished(p) == p.pc \notin PublishedPcs
(* A request whose transport stands ready for what it is about to publish. *)
Prepared(p) ==
  \/ p.pc = "leave" /\ p.then = "backend"
  \/ p.pc \in {"backend", "frame"}
  \/ p.kind = "start" /\ p.pc \in {"policy", "register"}
  \/ p.kind = "reconfigure" /\ p.pc \in {"input", "commit"} /\ p.h # 0
(* A task that is taking the transport of an owner down. *)
Doomed(p, k) ==
  \/ p.pc \in {"cleanup", "cleaning", "silence"} /\ p.own = k
  \/ InTargets(p) /\ \E t \in p.set : t.own = k
(* A task that speaks of an owner. *)
Refers(p, k) == p.own = k \/ (InTargets(p) /\ \E t \in p.set : t.own = k)

OwnerInv ==
  /\ \A s, t \in DOMAIN live : live[s].owner = live[t].owner => s = t
  /\ \A o \in Requests : Unpublished(op[o]) =>
       /\ \A s \in DOMAIN live : live[s].owner # o
       /\ \A q \in Procs \ {o} : ~Refers(op[q], o)
  /\ \A o \in Procs, s \in DOMAIN live : Usable(s) => ~Doomed(op[o], live[s].owner)
  /\ \A e \in Endpoints, s \in DOMAIN live :
       entry[e].pending /\ live[s].ep = e /\ Usable(s) => live[s].owner # entry[e].owner
  /\ \A s \in DOMAIN live : Usable(s) /\ native[live[s].handle] = "running" /\ live[s].handle \notin pendingRet
       => entry[live[s].ep].owner = live[s].owner
  /\ \A o \in Requests : Prepared(op[o]) /\ entry[op[o].ep].newest = o =>
       entry[op[o].ep].owner = o /\ (op[o].pc = "leave" => ~entry[op[o].ep].pending)
  /\ \A o \in Procs : op[o].kind = "force" /\ op[o].pc = "silence" /\ op[o].sid \in DOMAIN live
       => live[op[o].sid].stopped

(* Whose transport a step comes to speak of. *)
LEMMA OwnMoves ==
  ASSUME TypeInv, NEW o \in Procs, Step(o)
  PROVE  LET p == op[o]  r == op'[o] IN
         \/ r.own = p.own /\ r.pc # "silence" /\ (r.pc = "cleanup" => Silence(o) \/ SweepRemove(o))
         \/ r.own = 0 /\ r.pc = "done"
         \/ r.own = o /\ r.pc = "cleanup" /\ o \in Requests /\ p.pc \in {"discard", "backend", "commit"}
         \/ /\ p.sid \in DOMAIN live /\ r.own = live[p.sid].owner /\ r.pc = "silence" /\ r.sid = p.sid
            /\ r.ep = live[p.sid].ep /\ p.sid \in DOMAIN live' /\ live'[p.sid].stopped
         \/ /\ Targets(o) /\ p.pc = "targets" /\ r.then = "targets"
            /\ \E t \in p.set : /\ r.own = t.own /\ r.ep = t.ep /\ r.set = p.set \ {t}
                                /\ r.pc = "cleanup" \/ (r.pc = "end" /\ p.kind = "stop")
<1>p. PICK p : p = op[o]
      OBVIOUS
<1>t. /\ p \in OpRec /\ Shape(o, p) /\ op \in [Procs -> OpRec] /\ live \in [DOMAIN live -> Session]
      BY <1>p DEF TypeInv, TasksInv, DataInv
<1>d. p = [f \in DOMAIN p |-> p[f]]
      /\ DOMAIN p = {"kind", "pc", "ep", "sid", "h", "base", "rev", "own", "set", "on", "old", "then"}
      BY <1>t DEF OpRec
<1>r. Requests \subseteq Procs
      BY RequestsAreProcs DEF TypeInv
<1>1. CASE Discard(o) \/ Backend(o) \/ Commit(o)
  <2>1. p.pc \in {"discard", "backend", "commit"}
        BY <1>p, <1>1, ActionPcs
  <2>2. o \in Requests
    <3>1. p.kind \in {"start", "reconfigure"}
          BY <1>t, <2>1 DEF Shape, CallShape, Calls, Running, AtRest, OpRec, Kinds
    <3> QED BY <1>t, <3>1 DEF Shape, Calls
  <2>3. ASSUME NEW x, GoCleanup(o, o, x) PROVE op'[o].own = o /\ op'[o].pc = "cleanup"
        BY <1>p, <1>t, <1>d, <2>3 DEF GoCleanup
  <2>4. ASSUME NEW x, GoDiscard(o, x) PROVE op'[o].own = p.own /\ op'[o].pc = "discard"
        BY <1>p, <1>t, <1>d, <2>4 DEF GoDiscard
  <2>5. Go(o, "end") => op'[o].own = p.own /\ op'[o].pc = "end"
        BY <1>p, <1>t, <1>d DEF Go
  <2>6. op' = [op EXCEPT ![o].pc = "input", ![o].h = 0] => op'[o].own = p.own /\ op'[o].pc = "input"
        BY <1>p, <1>t, <1>d
  <2>7. ASSUME NEW h, op' = [op EXCEPT ![o].pc = "frame", ![o].h = h] PROVE op'[o].own = p.own /\ op'[o].pc = "frame"
        BY <1>p, <1>t, <1>d, <2>7
  <2>8. \/ \E x : GoCleanup(o, o, x)
        \/ \E x : GoDiscard(o, x)
        \/ Go(o, "end") \/ op' = [op EXCEPT ![o].pc = "input", ![o].h = 0]
        \/ \E h : op' = [op EXCEPT ![o].pc = "frame", ![o].h = h]
    <3>1. CASE Discard(o)
          BY <3>1 DEF Discard
    <3>2. CASE Backend(o)
          BY <3>2 DEF Backend
    <3>3. CASE Commit(o)
          BY <3>3 DEF Commit
    <3> QED BY <1>1, <3>1, <3>2, <3>3
  <2> QED BY <1>p, <2>1, <2>2, <2>3, <2>4, <2>5, <2>6, <2>7, <2>8
<1>2. CASE Silence(o) \/ SweepRemove(o)
  <2>1. CASE GoCleanup(o, p.own, "end")
    <3>1. op'[o].own = p.own /\ op'[o].pc = "cleanup"
          BY <1>p, <1>t, <1>d, <2>1 DEF GoCleanup
    <3> QED BY <1>p, <1>2, <3>1
  <2>2. CASE Go(o, "end")
        BY <1>p, <1>t, <1>d, <2>2 DEF Go
  <2> QED BY <1>p, <1>2, <2>1, <2>2 DEF Silence, SweepRemove
<1>3. CASE InputApply(o)
  <2>0. p.kind = "input" /\ p.pc = "apply"
        BY <1>p, <1>3, ActionPcs
  <2>1. CASE p.sid \in DOMAIN live /\ ~live[p.sid].released /\ Tombstone(o, p.sid)
    <3>0. o \in Procs \ Requests
          BY <1>t, <2>0 DEF Shape
    <3>1. /\ op'[o].pc = "silence" /\ op'[o].sid = p.sid /\ op'[o].own = live[p.sid].owner /\ op'[o].ep = live[p.sid].ep
          BY <2>1, <3>0, TombstoneActs
    <3>2. live' = [live EXCEPT ![p.sid].stopped = TRUE, ![p.sid].rev = @ + 1, ![p.sid].input = FALSE,
                          ![p.sid].released = TRUE]
          BY <2>1 DEF Tombstone
    <3>3. PICK a \in Session : a = live[p.sid]
          BY <1>t, <2>1
    <3>4. live'[p.sid] = [a EXCEPT !.stopped = TRUE, !.rev = @ + 1, !.input = FALSE, !.released = TRUE]
          BY <1>t, <2>1, <3>2, <3>3
    <3>5. live'[p.sid].stopped /\ p.sid \in DOMAIN live'
          BY <1>t, <2>1, <3>2, <3>4 DEF Session
    <3> QED BY <1>p, <2>1, <3>1, <3>5
  <2>2. CASE Go(o, "store") \/ Go(o, "end")
        BY <1>p, <1>t, <1>d, <2>2 DEF Go
  <2> QED BY <1>p, <1>3, <2>1, <2>2 DEF InputApply
<1>4. CASE Targets(o)
  <2>0. p.pc = "targets"
        BY <1>p, <1>4, ActionPcs
  <2>2. ASSUME NEW t \in p.set, NEW pc,
               op' = [op EXCEPT ![o].set = p.set \ {t}, ![o].ep = t.ep, ![o].own = t.own,
                                ![o].pc = pc, ![o].then = "targets"]
        PROVE  /\ op'[o].own = t.own /\ op'[o].ep = t.ep /\ op'[o].set = p.set \ {t} /\ op'[o].pc = pc
               /\ op'[o].then = "targets"
        BY <1>p, <1>t, <1>d, <2>2
  <2>3. \/ op' = [op EXCEPT ![o].pc = IF p.kind = "start" THEN "prepare" ELSE "end"]
        \/ \E t \in p.set, pc \in {"cleanup", "end"} :
             /\ op' = [op EXCEPT ![o].set = p.set \ {t}, ![o].ep = t.ep, ![o].own = t.own,
                                 ![o].pc = pc, ![o].then = "targets"]
             /\ pc = "end" => p.kind = "stop"
        BY <1>p, <1>4 DEF Targets, Go
  <2>4. ASSUME NEW t \in p.set, NEW pc \in {"cleanup", "end"}, pc = "end" => p.kind = "stop",
               op' = [op EXCEPT ![o].set = p.set \ {t}, ![o].ep = t.ep, ![o].own = t.own,
                                ![o].pc = pc, ![o].then = "targets"]
        PROVE  /\ op'[o].then = "targets"
               /\ op'[o].own = t.own /\ op'[o].ep = t.ep /\ op'[o].set = p.set \ {t}
               /\ op'[o].pc = "cleanup" \/ (op'[o].pc = "end" /\ p.kind = "stop")
        BY <2>2, <2>4
  <2>5. CASE \E t \in p.set, pc \in {"cleanup", "end"} :
             /\ op' = [op EXCEPT ![o].set = p.set \ {t}, ![o].ep = t.ep, ![o].own = t.own,
                                 ![o].pc = pc, ![o].then = "targets"]
             /\ pc = "end" => p.kind = "stop"
        BY <1>p, <1>4, <2>0, <2>4, <2>5, ZenonT(30)
  <2>6. CASE op' = [op EXCEPT ![o].pc = IF p.kind = "start" THEN "prepare" ELSE "end"]
    <3>1. op'[o].own = p.own /\ op'[o].pc \in {"prepare", "end"}
          BY <1>p, <1>t, <1>d, <2>6
    <3> QED BY <1>p, <3>1
  <2> QED BY <2>3, <2>5, <2>6
<1>5. CASE End(o)
      BY <1>t, <1>5 DEF End, IdleOp
<1>6. CASE ~Discard(o) /\ ~Backend(o) /\ ~Commit(o) /\ ~Silence(o) /\ ~SweepRemove(o) /\ ~InputApply(o)
           /\ ~Targets(o) /\ ~End(o)
  <2>1. op'[o].own = p.own
        BY <1>p, <1>6, StepFields
  <2>2. op'[o].pc \notin {"silence", "cleanup"}
    <3>1. p.pc \in {"cleanup", "cleaning", "leave"} => p.then \notin {"silence", "cleanup"}
          BY <1>t DEF Shape, StartShape, ReconfigureShape, CallShape, Running, AtRest, OpRec, Kinds, Calls
    <3> QED BY <1>p, <1>6, <3>1, StepMoves DEF Moves
  <2> QED BY <1>p, <2>1, <2>2
<1> QED BY <1>1, <1>2, <1>3, <1>4, <1>5, <1>6

(* A task comes to speak of an owner that a session has, or of itself. *)
LEMMA RefersComes ==
  ASSUME TypeInv, NEW o \in Procs, Step(o), NEW q \in Procs, NEW k \in Requests, Refers(op'[q], k)
  PROVE  \/ Refers(op[q], k)
         \/ \E s \in DOMAIN live : live[s].owner = k
         \/ q = o /\ k = o
<1>k. k # 0
      BY DEF TypeInv, DataInv, Requests
<1>1. CASE q # o
  <2>1. op'[q] = op[q]
        BY <1>1, StepActs DEF Acts
  <2> QED BY <2>1
<1>2. CASE q = o /\ op'[o].own = k
  <2>1. op[o].pc = "targets" => InTargets(op[o])
        BY DEF InTargets
  <2> QED BY <1>k, <1>2, <2>1, OwnMoves DEF Refers
<1>3. CASE q = o /\ InTargets(op'[o]) /\ \E t \in op'[o].set : t.own = k
  <2>1. \A s : Target(s).own = live[s].owner
        BY DEF Target
  <2>2. Stale(op[o].ep) \subseteq DOMAIN live
        BY DEF Stale
  <2> QED BY <1>3, <2>1, <2>2, TargetsStep DEF Refers
<1> QED BY <1>1, <1>2, <1>3 DEF Refers

(* A task comes to take down what was prepared by itself, or for a session it ends. *)
LEMMA DoomedComes ==
  ASSUME TypeInv, KnowInv, NEW o \in Procs, Step(o), NEW q \in Procs, NEW k \in Requests, Doomed(op'[q], k)
  PROVE  \/ Doomed(op[q], k)
         \/ q = o /\ k = o /\ Unpublished(op[o]) /\ Unpublished(op'[o])
         \/ \E s \in DOMAIN live : live[s].owner = k /\ (s \in DOMAIN live' => live'[s].stopped)
<1>1. CASE q # o
  <2>1. op'[q] = op[q]
        BY <1>1, StepActs DEF Acts
  <2> QED BY <2>1
<1>2. CASE q = o /\ op'[o].pc \in {"cleanup", "cleaning", "silence"} /\ op'[o].own = k
  <2>0. k # 0
        BY DEF TypeInv, DataInv, Requests
  <2>1. CASE op'[o].own = op[o].own /\ op'[o].pc # "silence" /\ (op'[o].pc = "cleanup" => Silence(o) \/ SweepRemove(o))
    <3>1. CASE op'[o].pc = "cleaning"
      <4>1. op[o].pc \in {"cleanup", "cleaning", "leave"}
            BY <3>1, StepMoves DEF Moves
      <4>2. op[o].pc = "leave" => op[o].then # "cleaning"
            BY DEF TypeInv, TasksInv, Shape, StartShape, ReconfigureShape, CallShape, Running, AtRest, OpRec, Kinds, Calls
      <4>3. op[o].pc \in {"cleanup", "cleaning"}
            BY <3>1, <4>1, <4>2, StepMoves DEF Moves
      <4> QED BY <1>2, <2>1, <4>3 DEF Doomed
    <3>2. CASE op'[o].pc = "cleanup" /\ Silence(o)
      <4>1. op[o].pc = "silence"
            BY <3>2, ActionPcs
      <4> QED BY <1>2, <2>1, <4>1 DEF Doomed
    <3>3. CASE op'[o].pc = "cleanup" /\ SweepRemove(o)
      <4>1. op[o].kind = "sweep" /\ op[o].pc = "remove"
            BY <3>3, ActionPcs
      <4>2. Go(o, "end") => op'[o].pc = "end"
            BY DEF Go, TypeInv, TasksInv, OpRec
      <4>3. op[o].sid \in DOMAIN live /\ live' = Drop({op[o].sid})
            BY <3>3, <4>2 DEF SweepRemove
      <4>4. live[op[o].sid].owner = op[o].own
            BY <4>1, <4>3 DEF KnowInv
      <4>5. op[o].sid \notin DOMAIN live'
            BY <4>3 DEF Drop
      <4> QED BY <1>2, <2>1, <4>3, <4>4, <4>5
    <3> QED BY <1>2, <2>1, <3>1, <3>2, <3>3
  <2>2. CASE op'[o].own = o /\ op'[o].pc = "cleanup" /\ o \in Requests /\ op[o].pc \in {"discard", "backend", "commit"}
        BY <1>2, <2>2 DEF Unpublished, PublishedPcs
  <2>3. CASE op[o].sid \in DOMAIN live /\ op'[o].own = live[op[o].sid].owner /\ live'[op[o].sid].stopped
        BY <1>2, <2>3
  <2>4. CASE op[o].pc = "targets" /\ \E t \in op[o].set : op'[o].own = t.own
        BY <1>2, <2>4 DEF Doomed, InTargets
  <2> QED BY <1>2, <2>0, <2>1, <2>2, <2>3, <2>4, OwnMoves
<1>3. CASE q = o /\ InTargets(op'[o]) /\ \E t \in op'[o].set : t.own = k
  <2>1. \A s : Target(s).own = live[s].owner
        BY DEF Target
  <2>2. Stale(op[o].ep) \subseteq DOMAIN live
        BY DEF Stale
  <2>3. \A S : live' = Drop(S) => \A s \in S : s \notin DOMAIN live'
        BY DEF Drop
  <2> QED BY <1>3, <2>1, <2>2, <2>3, TargetsStep DEF Doomed
<1> QED BY <1>1, <1>2, <1>3 DEF Doomed

(* A session that is stopped stays so; no step makes a session usable again. *)
LEMMA UsableBefore ==
  ASSUME TypeInv, KnowInv, NEW o \in Procs, Step(o), NEW s \in DOMAIN live, s \in DOMAIN live',
         \A q \in Procs : op[q].kind = "force" /\ op[q].pc = "silence" /\ op[q].sid \in DOMAIN live
            => live[op[q].sid].stopped
  PROVE  /\ live[s].stopped => live'[s].stopped
         /\ ~live'[s].stopped /\ ~live'[s].released => ~live[s].stopped /\ ~live[s].released
<1>t. live \in [DOMAIN live -> Session] /\ op \in [Procs -> OpRec]
      BY DEF TypeInv, DataInv, TasksInv
<1>a. PICK a \in Session : a = live[s]
      BY <1>t
<1>d. a = [f \in DOMAIN a |-> a[f]]
      /\ DOMAIN a = {"ep", "handle", "input", "released", "stopped", "rev", "owner"}
      BY DEF Session
<1>1. CASE StartEnter(o) \/ SweepRemove(o) \/ Collect(o)
  <2>1. live'[s] = live[s]
        BY <1>1 DEF StartEnter, SweepRemove, Collect, Drop
  <2> QED BY <2>1
<1>2. CASE Register(o)
  <2>1. op[o].kind = "start" /\ op[o].pc = "register"
        BY <1>2, ActionPcs
  <2>2. s # o
        BY <2>1 DEF KnowInv, Past
  <2> QED BY <1>2, <2>2 DEF Register
<1>3. CASE FlagEnabled(o)
  <2>1. live' = [live EXCEPT ![o].input = TRUE] \/ live' = live
        BY <1>3 DEF FlagEnabled
  <2> QED BY <1>t, <1>a, <1>d, <2>1
<1>4. CASE Displace(o)
  <2>1. live'[s] = [live[s] EXCEPT !.input = @ /\ s \notin Displaced(o)]
        BY <1>4 DEF Displace
  <2> QED BY <1>a, <1>d, <2>1
<1>5. CASE Commit(o)
  <2>1. \/ live' = [live EXCEPT ![op[o].sid].handle = op[o].h, ![op[o].sid].owner = o, ![op[o].sid].input = op[o].on]
        \/ live' = [live EXCEPT ![op[o].sid].input = FALSE, ![op[o].sid].released = TRUE, ![op[o].sid].rev = @ + 1]
        \/ live' = live
        BY <1>5 DEF Commit
  <2> QED BY <1>t, <1>a, <1>d, <2>1
<1>6. CASE Silence(o)
  <2>1. op[o].kind = "force" /\ op[o].pc = "silence"
        BY <1>6, ActionPcs
  <2>2. live' = live \/ live' = [live EXCEPT ![op[o].sid].released = FALSE]
        BY <1>6 DEF Silence, Stranded
  <2>3. s = op[o].sid => live[s].stopped
        BY <2>1
  <2>4. CASE s # op[o].sid
        BY <1>t, <2>2, <2>4
  <2>5. CASE s = op[o].sid
    <3>1. live'[s].stopped
          BY <1>t, <1>a, <1>d, <2>2, <2>3, <2>5
    <3> QED BY <3>1
  <2> QED BY <2>4, <2>5
<1>7. CASE InputApply(o)
  <2>1. live' = live \/ live' = [live EXCEPT ![op[o].sid].stopped = TRUE, ![op[o].sid].rev = @ + 1, ![op[o].sid].input = FALSE,
                                             ![op[o].sid].released = TRUE]
        BY <1>7 DEF InputApply, Tombstone
  <2> QED BY <1>t, <1>a, <1>d, <2>1
<1>8. CASE InputStore(o)
  <2>1. live' = live \/ live' = [live EXCEPT ![op[o].sid].input = op[o].on]
        BY <1>8 DEF InputStore
  <2> QED BY <1>t, <1>a, <1>d, <2>1
<1>9. CASE live' = live
      BY <1>9
<1> QED BY <1>1, <1>2, <1>3, <1>4, <1>5, <1>6, <1>7, <1>8, <1>9, LiveSteps

(* What a step leaves of a session that has a running capture. *)
LEMMA RunningBefore ==
  ASSUME TypeInv, BornInv, NEW o \in Procs, Step(o), NEW s \in DOMAIN live, NEW h \in Handles, h = live[s].handle,
         native'[h] = "running", h \notin pendingRet'
  PROVE  native[h] = "running" /\ h \notin pendingRet
<1>1. native[h] # "none"
      BY DEF BornInv
<1>2. native[h] = "running"
  <2>1. CASE native[h] # "running"
    <3>1. native'[h] = "running" /\ Backend(o) /\ op[o].pc = "backend" /\ o \in Requests /\ h = OwnHandle(o, op[o])
          BY <2>1, NativeStep
    <3>2. BeforeBackend(op[o]) /\ Running(op[o])
          BY <3>1 DEF BeforeBackend, Running, AtRest
    <3> QED BY <1>1, <3>1, <3>2 DEF BornInv
  <2> QED BY <2>1
<1>3. h \notin pendingRet
      BY NativeStep
<1> QED BY <1>2, <1>3

(* A step keeps owners apart: no two sessions have the same, and an owner that is not published is nobody's. *)
LEMMA OwnersApart ==
  ASSUME TypeInv, GuardInv, KnowInv, OwnerInv, NEW o \in Procs, Step(o)
  PROVE  /\ \A s, t \in DOMAIN live' : live'[s].owner = live'[t].owner => s = t
         /\ \A k \in Requests : Unpublished(op'[k]) =>
              /\ \A s \in DOMAIN live' : live'[s].owner # k
              /\ \A q \in Procs \ {k} : ~Refers(op'[q], k)
<1>r. Requests \subseteq Procs /\ \A q \in Procs \ {o} : op'[q] = op[q]
      BY RequestsAreProcs, StepActs DEF TypeInv, Acts
<1>s. \A s \in DOMAIN live' :
        \/ s \in DOMAIN live /\ live'[s].owner = live[s].owner
        \/ live'[s].owner = o /\ o \in Requests /\ Unpublished(op[o]) /\ ~Unpublished(op'[o])
           /\ (s = o \/ (s = op[o].sid /\ op[o].kind = "reconfigure"))
           /\ (s # o => op[o].kind = "reconfigure")
  <2>1. Register(o) => op[o].pc = "register" /\ op[o].kind = "start"
        BY ActionPcs
  <2>2. Commit(o) => op[o].pc = "commit" /\ op[o].kind = "reconfigure" /\ o \in Requests
    <3>1. op[o].kind = "reconfigure" => o \in Requests
          BY DEF TypeInv, TasksInv, Shape, Calls
    <3> QED BY <3>1, ActionPcs
  <2> QED BY <2>1, <2>2, SessionsMove DEF Unpublished, PublishedPcs
<1>1. ASSUME NEW s \in DOMAIN live', NEW t \in DOMAIN live', live'[s].owner = live'[t].owner PROVE s = t
  <2>1. CASE s \in DOMAIN live /\ live'[s].owner = live[s].owner /\ t \in DOMAIN live /\ live'[t].owner = live[t].owner
        BY <1>1, <2>1 DEF OwnerInv
  <2>2. ASSUME o \in Requests, Unpublished(op[o]) PROVE \A x \in DOMAIN live : live[x].owner # o
        BY <2>2 DEF OwnerInv
  <2>3. CASE ~(s \in DOMAIN live /\ live'[s].owner = live[s].owner) /\ ~(t \in DOMAIN live /\ live'[t].owner = live[t].owner)
    <3>1. /\ s = o \/ (s = op[o].sid /\ op[o].kind = "reconfigure")
          /\ s # o => op[o].kind = "reconfigure"
          BY <1>s, <2>3
    <3>2. /\ t = o \/ (t = op[o].sid /\ op[o].kind = "reconfigure")
          /\ t # o => op[o].kind = "reconfigure"
          BY <1>s, <2>3
    <3>3. ~(Register(o) /\ Commit(o))
          BY ActionPcs
    <3>4. (Register(o) /\ s = o /\ t = o) \/ (Commit(o) /\ s = op[o].sid /\ t = op[o].sid)
          BY <2>3, <3>3, SessionsMove
    <3> QED BY <3>4
  <2> QED BY <1>s, <1>1, <2>1, <2>2, <2>3
<1>2. ASSUME NEW k \in Requests, Unpublished(op'[k])
      PROVE  /\ \A s \in DOMAIN live' : live'[s].owner # k
             /\ \A q \in Procs \ {k} : ~Refers(op'[q], k)
  <2>1. Unpublished(op[k])
    <3>1. CASE k # o
          BY <1>r, <1>2, <3>1
    <3>2. CASE k = o
          BY <1>2, <3>2, StepMoves DEF Moves, Unpublished, PublishedPcs
    <3> QED BY <3>1, <3>2
  <2>2. /\ \A s \in DOMAIN live : live[s].owner # k
        /\ \A q \in Procs \ {k} : ~Refers(op[q], k)
        BY <2>1 DEF OwnerInv
  <2>3. \A s \in DOMAIN live' : live'[s].owner # k
        BY <1>s, <1>2, <2>2
  <2>4. \A q \in Procs \ {k} : ~Refers(op'[q], k)
        BY <2>2, RefersComes
  <2> QED BY <2>3, <2>4
<1> QED BY <1>1, <1>2

(* A step takes no usable session's transport down. *)
LEMMA NotDoomed ==
  ASSUME TypeInv, GuardInv, KnowInv, OwnerInv, NEW o \in Procs, Step(o)
  PROVE  /\ \A q \in Procs, s \in DOMAIN live' :
              ~live'[s].stopped /\ ~live'[s].released => ~Doomed(op'[q], live'[s].owner)
         /\ \A q \in Procs : op'[q].kind = "force" /\ op'[q].pc = "silence" /\ op'[q].sid \in DOMAIN live'
              => live'[op'[q].sid].stopped
<1>r. Requests \subseteq Procs /\ \A q \in Procs \ {o} : op'[q] = op[q]
      BY RequestsAreProcs, StepActs DEF TypeInv, Acts
<1>f. \A q \in Procs : op[q].kind = "force" /\ op[q].pc = "silence" /\ op[q].sid \in DOMAIN live
        => live[op[q].sid].stopped
      BY DEF OwnerInv
<1>u. \A s \in DOMAIN live \cap DOMAIN live' :
        /\ live[s].stopped => live'[s].stopped
        /\ ~live'[s].stopped /\ ~live'[s].released => ~live[s].stopped /\ ~live[s].released
      BY <1>f, UsableBefore
<1>1. ASSUME NEW q \in Procs, NEW s \in DOMAIN live', ~live'[s].stopped, ~live'[s].released,
             Doomed(op'[q], live'[s].owner)
      PROVE  FALSE
  <2>0. live'[s].owner \in Requests
    <3>1. live' \in [DOMAIN live' -> Session]
          BY LiveStays
    <3> QED BY <3>1 DEF Session
  <2>1. CASE s \in DOMAIN live /\ live'[s].owner = live[s].owner
    <3>1. Usable(s) /\ ~Doomed(op[q], live[s].owner)
          BY <1>1, <1>u, <2>1 DEF Usable, OwnerInv
    <3>2. ~(q = o /\ live[s].owner = o /\ Unpublished(op[o]))
          BY <2>0, <2>1 DEF OwnerInv
    <3>3. ~\E t \in DOMAIN live : live[t].owner = live[s].owner /\ (t \in DOMAIN live' => live'[t].stopped)
          BY <1>1, <2>1 DEF OwnerInv
    <3> QED BY <1>1, <2>0, <2>1, <3>1, <3>2, <3>3, DoomedComes
  <2>2. CASE live'[s].owner = o /\ o \in Requests /\ Unpublished(op[o]) /\ op'[o].pc \in {"enable", "end"}
    <3>1. q # o
          BY <1>1, <2>2 DEF Doomed, InTargets
    <3>2. ~Refers(op[q], o)
          BY <2>2, <3>1 DEF OwnerInv
    <3> QED BY <1>1, <1>r, <2>2, <3>1, <3>2 DEF Refers, Doomed
  <2>3. Register(o) => op[o].pc = "register"
        BY ActionPcs
  <2>4. Commit(o) => op[o].pc = "commit" /\ o \in Requests
    <3>1. op[o].kind = "reconfigure" => o \in Requests
          BY DEF TypeInv, TasksInv, Shape, Calls
    <3> QED BY <3>1, ActionPcs
  <2> QED BY <2>1, <2>2, <2>3, <2>4, SessionsMove DEF Unpublished, PublishedPcs
<1>2. ASSUME NEW q \in Procs, op'[q].kind = "force", op'[q].pc = "silence", op'[q].sid \in DOMAIN live'
      PROVE  live'[op'[q].sid].stopped
  <2>1. CASE q # o
    <3>1. op'[q] = op[q]
          BY <1>r, <2>1
    <3>2. op[q].sid \in DOMAIN live
      <4>1. Past(op[op[q].sid])
            BY <1>2, <3>1 DEF KnowInv, Running, AtRest, About
      <4>2. ~(Register(o) /\ op[q].sid = o)
            BY <4>1, ActionPcs DEF Past
      <4> QED BY <1>2, <3>1, <4>2, SessionsMove
    <3> QED BY <1>2, <1>f, <1>u, <3>1, <3>2
  <2>2. CASE q = o
    <3>1. InputApply(o)
      <4>1. op[o].pc \in {"cleanup", "cleaning", "leave"} => op[o].then # "silence"
            BY DEF TypeInv, TasksInv, Shape, StartShape, ReconfigureShape, CallShape, Running, AtRest, OpRec, Kinds, Calls
      <4> QED BY <1>2, <2>2, <4>1, StepMoves DEF Moves
    <3>2. op[o].pc = "apply"
          BY <3>1, ActionPcs
    <3> QED BY <1>2, <2>2, <3>2, OwnMoves
  <2> QED BY <2>1, <2>2
<1> QED BY <1>1, <1>2

(* Who changes the owner of an endpoint, and who leaves its transport to be taken down. *)
LEMMA OwnerChanges ==
  ASSUME TypeInv, LeaseInv, NEW o \in Procs, Step(o), NEW e \in Endpoints
  PROVE  /\ entry'[e].owner # entry[e].owner =>
              /\ e = op[o].ep /\ Leases(op[o])
              /\ \/ op[o].pc = "cleaning" /\ entry[e].owner = op[o].own /\ entry'[e].owner = 0
                 \/ Prepare(o) /\ op[o].pc = "prepare" /\ o \in Requests
                 \/ LeaveSetup(o) /\ op[o].pc = "leave" /\ entry[e].pending /\ entry'[e].owner = 0
         /\ entry'[e].pending =>
              /\ entry'[e].owner = entry[e].owner
              /\ \/ entry[e].pending
                 \/ e = op[o].ep /\ op[o].pc = "cleanup" /\ entry[e].owner = op[o].own /\ op[o].own # 0
<1>n. PendingInv
      BY DEF LeaseInv
<1>1. CASE e # op[o].ep \/ End(o)
      BY <1>n, <1>1, EntriesElsewhere DEF Same
<1>2. CASE e = op[o].ep /\ CleanupBegin(o)
      BY <1>n, <1>2, CleanupBeginMoves, ActionPcs DEF CleanupBeginMove
<1>3. CASE e = op[o].ep /\ CleanupDo(o)
  <2>1. op[o].pc = "cleaning"
        BY <1>3, ActionPcs
  <2>2. entry[e].owner = op[o].own /\ Leases(op[o])
        BY <1>3, <2>1 DEF LeaseInv, Leases
  <2> QED BY <1>n, <1>3, <2>1, <2>2, CleanupDoMoves DEF CleanupDoMove
<1>4. CASE e = op[o].ep /\ LeaveSetup(o)
  <2>1. op[o].pc = "leave"
        BY <1>4, ActionPcs
  <2> QED BY <1>n, <1>4, <2>1, LeaveMoves DEF LeaveMove, Leases
<1>5. CASE e = op[o].ep /\ Prepare(o)
  <2>1. op[o].pc = "prepare"
        BY <1>5, ActionPcs
  <2> QED BY <1>5, <2>1, PrepareMoves DEF Leases
<1>6. CASE e = op[o].ep /\ Claim(o)
      BY <1>6, ClaimMoves
<1>7. CASE e = op[o].ep /\ (StartEnter(o) \/ ReconfigureEnter(o))
      BY <1>7, EnterMoves
<1>8. CASE e = op[o].ep /\ (Register(o) \/ Commit(o))
      BY <1>8, RegisterMoves
<1>9. CASE entry' = entry
      BY <1>9
<1> QED BY <1>1, <1>2, <1>3, <1>4, <1>5, <1>6, <1>7, <1>8, <1>9, EntrySteps

(* What a publication says of the endpoint: its transport is free of setups, and the request's own. *)
LEMMA Publishes ==
  ASSUME TypeInv, KnowInv, LeaseInv, OwnerInv, NEW o \in Procs, Step(o), NEW s \in DOMAIN live',
         ~(/\ s \in DOMAIN live /\ live'[s].ep = live[s].ep /\ live'[s].handle = live[s].handle
           /\ live'[s].owner = live[s].owner)
  PROVE  /\ o \in Requests /\ live'[s].owner = o /\ live'[s].ep = op[o].ep /\ op[o].ep \in Endpoints
         /\ ~entry[op[o].ep].busy /\ ~entry[op[o].ep].pending /\ entry[op[o].ep].owner = o
         /\ Unpublished(op[o])
<1>1. CASE Register(o) /\ MayRegister(o) /\ s = o /\ o \in Requests /\ live'[s].ep = op[o].ep /\ live'[s].owner = o
  <2>1. op[o].kind = "start" /\ op[o].pc = "register"
        BY <1>1, ActionPcs
  <2>2. ~entry[op[o].ep].busy /\ entry[op[o].ep].newest = o
        BY <1>1 DEF MayRegister, Accepts
  <2>3. Prepared(op[o]) /\ Unpublished(op[o])
        BY <2>1 DEF Prepared, Unpublished, PublishedPcs
  <2>4. op[o].ep \in Endpoints
        BY <1>1, RegisterMoves
  <2> QED BY <1>1, <2>2, <2>3, <2>4 DEF OwnerInv, LeaseInv, PendingInv
<1>2. CASE Commit(o) /\ Current(o) /\ op[o].h # 0 /\ s = op[o].sid /\ s \in DOMAIN live
           /\ live'[s].ep = live[s].ep /\ live'[s].owner = o
  <2>1. op[o].kind = "reconfigure" /\ op[o].pc = "commit"
        BY <1>2, ActionPcs
  <2>2. ~entry[op[o].ep].busy /\ entry[op[o].ep].newest = o
        BY <1>2 DEF Current, Accepts
  <2>3. Prepared(op[o]) /\ Unpublished(op[o])
        BY <1>2, <2>1 DEF Prepared, Unpublished, PublishedPcs
  <2>4. op[o].ep \in Endpoints /\ o \in Requests
        BY <1>2, RegisterMoves
  <2>5. live[s].ep = op[o].ep
        BY <1>2, <2>1 DEF KnowInv, PreCommit, Running, AtRest
  <2> QED BY <1>2, <2>2, <2>3, <2>4, <2>5 DEF OwnerInv, LeaseInv, PendingInv
<1> QED BY <1>1, <1>2, SessionsMove

(* A step leaves no usable session's transport to be taken down, and takes none down. *)
LEMMA TransportKept ==
  ASSUME TypeInv, GuardInv, BornInv, KnowInv, StoppedInv, LeaseInv, ClaimInv, OwnerInv, NEW o \in Procs, Step(o),
         NEW s \in DOMAIN live', ~live'[s].stopped, ~live'[s].released
  PROVE  /\ entry'[live'[s].ep].pending => live'[s].owner # entry'[live'[s].ep].owner
         /\ native'[live'[s].handle] = "running" /\ live'[s].handle \notin pendingRet'
              => entry'[live'[s].ep].owner = live'[s].owner
<1>f. \A q \in Procs : op[q].kind = "force" /\ op[q].pc = "silence" /\ op[q].sid \in DOMAIN live
        => live[op[q].sid].stopped
      BY DEF OwnerInv
<1>r. Requests \subseteq Procs
      BY RequestsAreProcs DEF TypeInv
<1>1. CASE s \in DOMAIN live /\ live'[s].ep = live[s].ep /\ live'[s].handle = live[s].handle /\ live'[s].owner = live[s].owner
  <2>t. /\ live[s].ep \in Endpoints /\ live[s].handle \in Handles /\ live[s].owner \in Requests
        BY <1>1, SessionTypes DEF TypeInv
  <2>u. Usable(s)
        BY <1>1, <1>f, UsableBefore DEF Usable
  <2>1. ASSUME entry'[live[s].ep].pending PROVE live[s].owner # entry'[live[s].ep].owner
    <3>1. CASE entry[live[s].ep].pending
          BY <1>1, <2>t, <2>u, <2>1, <3>1, OwnerChanges DEF OwnerInv
    <3>2. CASE op[o].pc = "cleanup" /\ entry[live[s].ep].owner = op[o].own
      <4>1. live[s].owner # op[o].own
            BY <1>1, <2>u, <3>2 DEF OwnerInv, Doomed
      <4> QED BY <2>t, <2>1, <3>2, <4>1, OwnerChanges
    <3> QED BY <2>t, <2>1, <3>1, <3>2, OwnerChanges
  <2>2. ASSUME native'[live[s].handle] = "running", live[s].handle \notin pendingRet'
        PROVE  entry'[live[s].ep].owner = live[s].owner
    <3>0. native[live[s].handle] = "running" /\ live[s].handle \notin pendingRet
          BY <1>1, <2>t, <2>2, RunningBefore
    <3>1. entry[live[s].ep].owner = live[s].owner
          BY <1>1, <2>u, <3>0 DEF OwnerInv
    <3>2. ~(op[o].pc = "cleaning" /\ entry[live[s].ep].owner = op[o].own)
          BY <1>1, <2>u, <3>1 DEF OwnerInv, Doomed
    <3>3. ~(entry[live[s].ep].pending)
          BY <1>1, <2>t, <2>u, <3>1 DEF OwnerInv
    <3>4. ~(live[s].ep = op[o].ep /\ Leases(op[o]) /\ op[o].pc = "prepare" /\ o \in Requests)
      <4>1. ASSUME live[s].ep = op[o].ep, Leases(op[o]), op[o].pc = "prepare", o \in Requests PROVE FALSE
        <5>1. op[o].kind \in {"start", "reconfigure"} /\ Running(op[o])
              BY <4>1, TaskPlace DEF Running, AtRest
        <5>2. op[o].kind # "start"
              BY <1>1, <4>1, SetupAlone
        <5>3. Checked(op[o]) /\ AfterRetire(op[o]) /\ PreCommit(op[o])
              BY <4>1, <5>1, <5>2 DEF Checked, CheckedPcs, AfterRetire, PreCommit
        <5>4. entry[op[o].ep].newest = o
              BY <4>1 DEF ClaimInv
        <5>5. s = op[o].sid
              BY <1>1, <4>1, <5>3, <5>4 DEF ClaimInv
        <5>6. live[s].handle = op[o].base
              BY <1>1, <5>1, <5>2, <5>3, <5>5 DEF KnowInv
        <5>7. native[op[o].base] = "stopped"
              BY <5>1, <5>2, <5>3 DEF StoppedInv
        <5> QED BY <3>0, <5>6, <5>7
      <4> QED BY <4>1
    <3> QED BY <2>t, <3>1, <3>2, <3>3, <3>4, OwnerChanges
  <2> QED BY <1>1, <2>1, <2>2
<1>2. CASE ~(/\ s \in DOMAIN live /\ live'[s].ep = live[s].ep /\ live'[s].handle = live[s].handle
             /\ live'[s].owner = live[s].owner)
  <2>1. /\ o \in Requests /\ live'[s].owner = o /\ live'[s].ep = op[o].ep /\ op[o].ep \in Endpoints
        /\ ~entry[op[o].ep].pending /\ entry[op[o].ep].owner = o
        BY <1>2, Publishes
  <2>2. Register(o) \/ Commit(o)
        BY <1>2, SessionsMove
  <2>3. entry'[op[o].ep].owner = o /\ ~entry'[op[o].ep].pending
        BY <2>1, <2>2, RegisterMoves
  <2> QED BY <2>1, <2>3
<1> QED BY <1>1, <1>2

(* A request's own step leaves the transport it prepared in place. *)
LEMMA PreparedOwn ==
  ASSUME TypeInv, GuardInv, LeaseInv, ClaimInv, OwnerInv, NEW o \in Requests, Step(o),
         Prepared(op'[o]), entry'[op'[o].ep].newest = o
  PROVE  entry'[op'[o].ep].owner = o /\ (op'[o].pc = "leave" => ~entry'[op'[o].ep].pending)
<1>p. PICK p : p = op[o]
      OBVIOUS
<1>r. PICK r : r = op'[o]
      OBVIOUS
<1>0. /\ o \in Procs /\ Shape(o, p) /\ Shape(o, r) /\ p \in OpRec /\ op \in [Procs -> OpRec]
      BY <1>p, <1>r, StepActs, RequestsAreProcs DEF Acts, TypeInv, TasksInv
<1>d. p = [f \in DOMAIN p |-> p[f]]
      /\ DOMAIN p = {"kind", "pc", "ep", "sid", "h", "base", "rev", "own", "set", "on", "old", "then"}
      BY <1>0 DEF OpRec
<1>y. /\ entry \in [Endpoints -> Entry] /\ entry' \in [Endpoints -> Entry] /\ MaxRequests \in Nat
      BY <1>0, StepTypes DEF TypeInv, DataInv
<1>t. /\ entry \in [Endpoints -> Entry] /\ entry' \in [Endpoints -> Entry] /\ Requests \subseteq Nat /\ MaxRequests \in Nat
      BY <1>y DEF Requests
<1>q. \A e \in Endpoints : entry[e].newest \in Nat /\ entry'[e].newest \in Nat
      BY <1>t DEF Entry
<1>e. ~End(o)
  <2>1. End(o) => r.pc = "done"
        BY <1>r, <1>0, EndDone
  <2> QED BY <1>r, <2>1 DEF Prepared
<1>s. /\ r.ep = p.ep /\ r.kind = p.kind /\ Running(p) /\ Running(r)
      /\ p.kind \in {"start", "reconfigure"} /\ p.ep \in Endpoints
      BY <1>p, <1>r, <1>e, RequestStays
<1>m. Moves(o)
      BY <1>0, StepMoves
<1>1. CASE Prepare(o)
      BY <1>p, <1>r, <1>0, <1>s, <1>1, PrepareMoves DEF Prepared
<1>2. CASE ~Prepare(o)
  <2>1. Prepared(p) /\ (r.pc = "leave" => FALSE)
    <3>1. r.pc # "leave"
      <4>1. r.pc = "leave" => p.kind = "reconfigure" /\ RetireOld(o)
        <5>1. p.pc \in {"cleanup", "cleaning", "leave"} => p.then # "leave"
              BY <1>0, <1>s DEF Shape, StartShape, ReconfigureShape
        <5> QED BY <1>p, <1>r, <1>m, <1>2, <5>1 DEF Moves
      <4>2. RetireOld(o) => r.then = "end" \/ r.pc # "leave"
            BY <1>p, <1>r, <1>0, <1>d DEF RetireOld, Go
      <4> QED BY <1>r, <4>1, <4>2 DEF Prepared
    <3>2. CASE r.pc \in {"backend", "frame"}
      <4>1. p.pc \in {"cleanup", "cleaning", "leave"} => (p.then \in {"backend", "frame"} => p.pc = "leave" /\ p.then = "backend")
            BY <1>0, <1>s DEF Shape, StartShape, ReconfigureShape
      <4> QED BY <1>p, <1>r, <1>m, <1>2, <3>1, <3>2, <4>1 DEF Moves, Prepared
    <3>3. CASE r.kind = "start" /\ r.pc \in {"policy", "register"}
      <4>1. p.pc \in {"cleanup", "cleaning", "leave"} => p.then \notin {"policy", "register"}
            BY <1>0, <1>s DEF Shape, StartShape, ReconfigureShape
      <4> QED BY <1>p, <1>r, <1>s, <1>m, <1>2, <3>1, <3>3, <4>1 DEF Moves, Prepared
    <3>4. CASE r.kind = "reconfigure" /\ r.pc \in {"input", "commit"} /\ r.h # 0
      <4>1. p.pc \in {"cleanup", "cleaning", "leave"} => p.then \notin {"input", "commit"}
            BY <1>0, <1>s DEF Shape, StartShape, ReconfigureShape
      <4>2. op' = [op EXCEPT ![o].pc = "input", ![o].h = 0] => r.h = 0
            BY <1>p, <1>r, <1>0, <1>d
      <4>3. ~Discard(o)
        <5>1. p.then = "input" \/ GoCleanup(o, o, p.then) \/ ~Discard(o)
              BY <1>p DEF Discard
        <5>2. GoCleanup(o, o, p.then) => r.pc = "cleanup"
              BY <1>p, <1>r, <1>0, <1>d DEF GoCleanup
        <5>3. Discard(o) /\ p.then = "input" => r.h = 0
              BY <1>p, <4>2 DEF Discard
        <5> QED BY <3>4, <5>1, <5>2, <5>3
      <4>4. ~Backend(o)
        <5>1. Backend(o) => (\E h : op' = [op EXCEPT ![o].pc = "frame", ![o].h = h])
                            \/ op' = [op EXCEPT ![o].pc = "input", ![o].h = 0] \/ GoCleanup(o, o, AfterFailure(p))
              BY <1>p DEF Backend
        <5>2. ASSUME NEW h, op' = [op EXCEPT ![o].pc = "frame", ![o].h = h] PROVE r.pc = "frame"
              BY <1>p, <1>r, <1>0, <1>d, <5>2
        <5>3. GoCleanup(o, o, AfterFailure(p)) => r.pc = "cleanup"
              BY <1>p, <1>r, <1>0, <1>d DEF GoCleanup
        <5> QED BY <3>4, <4>2, <5>1, <5>2, <5>3
      <4>5. ~SetupFailed(o)
        <5>1. SetupFailed(o) => op' = [op EXCEPT ![o].pc = "input", ![o].h = 0] \/ Go(o, AfterFailure(p))
              BY <1>p DEF SetupFailed
        <5>2. Go(o, AfterFailure(p)) => r.pc \in {"end", "restore"}
              BY <1>p, <1>r, <1>0, <1>d DEF Go, AfterFailure
        <5> QED BY <3>4, <4>2, <5>1, <5>2
      <4>6. ~ReconfigureEnter(o)
        <5>1. ReconfigureEnter(o) => op' = [op EXCEPT ![o].pc = "input", ![o].h = 0]
                                     \/ Go(o, IF p.old THEN "prepare" ELSE "retire") \/ Go(o, "end")
              BY <1>p DEF ReconfigureEnter
        <5>2. Go(o, IF p.old THEN "prepare" ELSE "retire") \/ Go(o, "end") => r.pc \in {"prepare", "retire", "end"}
              BY <1>p, <1>r, <1>0, <1>d DEF Go
        <5> QED BY <3>4, <4>2, <5>1, <5>2
      <4>7. p.pc \in {"frame", "input", "commit"}
            BY <1>p, <1>r, <1>m, <1>2, <3>1, <3>4, <4>1, <4>3, <4>4, <4>5, <4>6 DEF Moves
      <4>8. p.pc \in {"input", "commit"} => r.h = p.h
            BY <1>p, <1>r, <1>0, <4>7, StepFields, <1>e, ActionPcs
      <4> QED BY <1>s, <3>4, <4>7, <4>8 DEF Prepared
    <3> QED BY <1>r, <3>1, <3>2, <3>3, <3>4 DEF Prepared
  <2>2. p.pc \notin {"claim", "end"}
        BY <2>1 DEF Prepared
  <2>3. entry[p.ep].newest = o
    <3>1. entry[p.ep].newest >= o
          BY <1>p, <1>s, <2>2 DEF ClaimInv
    <3> QED BY <1>p, <1>r, <1>0, <1>q, <1>s, <1>t, <2>2, <3>1, NewestGrows
  <2>4. entry[p.ep].owner = o /\ (p.pc = "leave" => ~entry[p.ep].pending)
        BY <1>p, <2>1, <2>3 DEF OwnerInv
  <2>5. p.pc \notin {"cleaning", "prepare"}
        BY <2>1 DEF Prepared
  <2>6. entry'[p.ep].owner = entry[p.ep].owner
        BY <1>p, <1>s, <1>0, <2>4, <2>5, OwnerChanges
  <2> QED BY <1>r, <1>s, <2>1, <2>4, <2>6
<1> QED BY <1>1, <1>2

(* Another task's step leaves the transport a request has prepared in place. *)
LEMMA PreparedOthers ==
  ASSUME TypeInv, GuardInv, LeaseInv, ClaimInv, OwnerInv, NEW o \in Procs, Step(o), NEW q \in Requests, q # o,
         Prepared(op[q]), entry'[op[q].ep].newest = q
  PROVE  entry'[op[q].ep].owner = q /\ (op[q].pc = "leave" => ~entry'[op[q].ep].pending)
<1>p. PICK p : p = op[q]
      OBVIOUS
<1>0. q \in Procs /\ op'[q] = p /\ Requests \subseteq Procs
      BY <1>p, StepActs, RequestsAreProcs DEF Acts, TypeInv
<1>t. /\ entry \in [Endpoints -> Entry] /\ entry' \in [Endpoints -> Entry] /\ MaxRequests \in Nat
      /\ Requests \subseteq Nat
  <2>1. entry \in [Endpoints -> Entry] /\ entry' \in [Endpoints -> Entry] /\ MaxRequests \in Nat
        BY StepTypes DEF TypeInv, DataInv
  <2> QED BY <2>1 DEF Requests
<1>q. \A e \in Endpoints : entry[e].newest \in Nat /\ entry'[e].newest \in Nat
      BY <1>t DEF Entry
<1>1. Running(p) /\ p.pc \notin {"claim", "end"} /\ Unpublished(p)
      BY <1>p DEF Prepared, Running, AtRest, Unpublished, PublishedPcs
<1>2. p.ep \in Endpoints
  <2>1. p.kind \in {"start", "reconfigure"}
        BY <1>p, <1>0, <1>1 DEF TypeInv, TasksInv, Shape, Running, AtRest
  <2> QED BY <1>p, <1>0, <1>1, <2>1, TaskPlace
<1>3. entry[p.ep].newest = q
  <2>1. entry[p.ep].newest >= q
        BY <1>p, <1>1 DEF ClaimInv
  <2>2. entry'[p.ep].newest >= entry[p.ep].newest
        BY <1>p, <1>0, <1>1, <1>2, <2>1, NewestGrows
  <2>3. entry'[p.ep].newest = q /\ q \in Nat /\ entry[p.ep].newest \in Nat
        BY <1>p, <1>2, <1>q, <1>t
  <2> QED BY <2>1, <2>2, <2>3
<1>4. entry[p.ep].owner = q /\ (p.pc = "leave" => ~entry[p.ep].pending)
      BY <1>p, <1>3 DEF OwnerInv
<1>5. op[o].own # q
      BY <1>p, <1>1 DEF OwnerInv, Refers
<1>6. ~(p.ep = op[o].ep /\ Leases(op[o]) /\ op[o].pc \in {"prepare", "leave"})
  <2>1. ASSUME p.ep = op[o].ep, Leases(op[o]), op[o].pc \in {"prepare", "leave"} PROVE FALSE
    <3>1. o \in Requests
          BY <2>1, TaskPlace DEF Running, AtRest
    <3>2. entry[p.ep].newest = o
          BY <2>1, <3>1 DEF ClaimInv
    <3> QED BY <1>3, <3>2
  <2> QED BY <2>1
<1>7. entry'[p.ep].owner = q
      BY <1>2, <1>4, <1>5, <1>6, OwnerChanges
<1>8. p.pc = "leave" => ~entry'[p.ep].pending
      BY <1>2, <1>4, <1>5, OwnerChanges
<1> QED BY <1>p, <1>7, <1>8

(* A step of a task keeps the owners right. *)
LEMMA OwnerStep ==
  ASSUME TypeInv, GuardInv, BornInv, KnowInv, StoppedInv, LeaseInv, ClaimInv, OwnerInv, NEW o \in Procs, Step(o)
  PROVE  OwnerInv'
<1>1. \A e \in Endpoints, s \in DOMAIN live' :
        entry'[e].pending /\ live'[s].ep = e /\ ~live'[s].stopped /\ ~live'[s].released
          => live'[s].owner # entry'[e].owner
      BY TransportKept
<1>2. \A s \in DOMAIN live' :
        /\ ~live'[s].stopped /\ ~live'[s].released
        /\ native'[live'[s].handle] = "running" /\ live'[s].handle \notin pendingRet'
        => entry'[live'[s].ep].owner = live'[s].owner
      BY TransportKept
<1>3. \A q \in Requests : Prepared(op'[q]) /\ entry'[op'[q].ep].newest = q =>
        entry'[op'[q].ep].owner = q /\ (op'[q].pc = "leave" => ~entry'[op'[q].ep].pending)
  <2>1. \A q \in Requests : q # o => op'[q] = op[q]
        BY StepActs, RequestsAreProcs DEF Acts, TypeInv
  <2> QED BY <2>1, PreparedOwn, PreparedOthers
<1> QED BY <1>1, <1>2, <1>3, OwnersApart, NotDoomed DEF OwnerInv, Usable

(* A task that begins speaks only of owners of sessions, and dooms only those it takes out or buries. *)
LEMMA DoomedBegins ==
  ASSUME TypeInv,
         Begins \/ (\E o \in Procs \ Requests, s \in DOMAIN live, on \in BOOLEAN : InputCall(o, s, on)),
         NEW q \in Procs, NEW k \in Requests
  PROVE  /\ Refers(op'[q], k) => Refers(op[q], k) \/ \E s \in DOMAIN live : live[s].owner = k
         /\ Doomed(op'[q], k) =>
              \/ Doomed(op[q], k)
              \/ \E s \in DOMAIN live : live[s].owner = k /\ (s \in DOMAIN live' => live'[s].stopped)
         /\ op'[q].kind = "force" /\ op'[q].pc = "silence" =>
              \/ op'[q] = op[q]
              \/ op'[q].sid \in DOMAIN live' => live'[op'[q].sid].stopped
         /\ \A s \in DOMAIN live : live[s].stopped /\ s \in DOMAIN live' => live'[s].stopped
         /\ \A s \in DOMAIN live' : ~live'[s].stopped /\ ~live'[s].released => ~live[s].stopped /\ ~live[s].released
         /\ op'[q] = op[q] \/ op'[q].pc \notin {"leave", "backend", "frame", "policy", "register", "input", "commit"}
         /\ Unpublished(op'[q]) => Unpublished(op[q])
<1> DEFINE G == /\ Refers(op'[q], k) => Refers(op[q], k) \/ \E s \in DOMAIN live : live[s].owner = k
                /\ Doomed(op'[q], k) =>
                     \/ Doomed(op[q], k)
                     \/ \E s \in DOMAIN live : live[s].owner = k /\ (s \in DOMAIN live' => live'[s].stopped)
                /\ op'[q].kind = "force" /\ op'[q].pc = "silence" =>
                     \/ op'[q] = op[q]
                     \/ op'[q].sid \in DOMAIN live' => live'[op'[q].sid].stopped
                /\ \A s \in DOMAIN live : live[s].stopped /\ s \in DOMAIN live' => live'[s].stopped
                /\ \A s \in DOMAIN live' : ~live'[s].stopped /\ ~live'[s].released => ~live[s].stopped /\ ~live[s].released
                /\ op'[q] = op[q] \/ op'[q].pc \notin {"leave", "backend", "frame", "policy", "register", "input", "commit"}
                /\ Unpublished(op'[q]) => Unpublished(op[q])
<1>t. live \in [DOMAIN live -> Session] /\ Requests \subseteq Procs /\ op \in [Procs -> OpRec]
      BY RequestsAreProcs DEF TypeInv, DataInv, TasksInv
<1>f. \A s \in DOMAIN live : /\ live[s] = [f \in DOMAIN live[s] |-> live[s][f]]
                             /\ DOMAIN live[s] = {"ep", "handle", "input", "released", "stopped", "rev", "owner"}
      BY <1>t DEF Session
<1>i. op[q].pc = "idle" => Unpublished(op[q])
      BY DEF Unpublished, PublishedPcs
<1>z. op[q].pc = "idle" => op[q].own = 0
      BY DEF TypeInv, TasksInv, Shape, AtRest
<1>k. k # 0
      BY DEF TypeInv, DataInv, Requests
<1>1. ASSUME NEW o \in Requests, NEW e \in Endpoints, StartBegin(o, e) PROVE G
  <2>1. /\ Starts(o) /\ op'[o].pc = "claim" /\ op'[o].own = op[o].own /\ op'[o].kind = "start"
        BY <1>1, StartBeginStarts, BegunWith
  <2>2. live' = live
        BY <1>1 DEF StartBegin
  <2> QED BY <1>t, <1>i, <1>z, <1>k, <2>1, <2>2 DEF Starts, Refers, Doomed, InTargets
<1>2. ASSUME NEW o \in Requests, NEW s \in DOMAIN live, NEW moved \in BOOLEAN, ReconfigureBegin(o, s, moved) PROVE G
  <2>1. Starts(o) /\ op'[o].pc = "claim" /\ op'[o].own = op[o].own /\ op'[o].kind = "reconfigure"
        BY <1>2, ReconfigureBeginStarts, BegunWith
  <2>2. /\ DOMAIN live' = DOMAIN live
        /\ \A x \in DOMAIN live : live'[x].stopped = live[x].stopped /\ live'[x].released = live[x].released
        BY <1>t, <1>f, <1>2 DEF ReconfigureBegin
  <2> QED BY <1>t, <1>i, <1>z, <1>k, <2>1, <2>2 DEF Starts, Refers, Doomed, InTargets
<1>3. ASSUME NEW o \in Procs \ Requests, NEW s \in DOMAIN live, StopStream(o, s) PROVE G
  <2>1. Starts(o) /\ op'[o].pc = "targets" /\ op'[o].own = op[o].own /\ op'[o].kind = "stop" /\ op'[o].set = {Target(s)}
        BY <1>3, StopStreamStarts, BegunWith
  <2>2. /\ DOMAIN live' = DOMAIN live \ {s} /\ \A x \in DOMAIN live' : live'[x] = live[x]
        /\ Target(s).own = live[s].owner
        BY <1>3 DEF StopStream, Drop, Target
  <2> QED BY <1>t, <1>i, <1>z, <1>k, <2>1, <2>2 DEF Starts, Refers, Doomed, InTargets
<1>4. ASSUME NEW o \in Procs \ Requests, NEW s \in DOMAIN live, ForceStop(o, s) PROVE G
  <2>1. /\ Starts(o) /\ op'[o].pc = "silence" /\ op'[o].own = live[s].owner /\ op'[o].kind = "force" /\ op'[o].sid = s
        BY <1>4, ForceStopStarts, TombstoneActs DEF ForceStop
  <2>2. live' = [live EXCEPT ![s].stopped = TRUE, ![s].rev = @ + 1, ![s].input = FALSE, ![s].released = TRUE]
        BY <1>4 DEF ForceStop, Tombstone
  <2>3. PICK a \in Session : a = live[s]
        BY <1>t
  <2>4. live'[s] = [a EXCEPT !.stopped = TRUE, !.rev = @ + 1, !.input = FALSE, !.released = TRUE]
        BY <1>t, <2>2, <2>3
  <2>5. live'[s].stopped /\ s \in DOMAIN live'
        BY <1>t, <2>2, <2>4 DEF Session
  <2>6. DOMAIN live' = DOMAIN live /\ \A x \in DOMAIN live \ {s} : live'[x] = live[x]
        BY <1>t, <2>2
  <2> QED BY <1>t, <1>i, <1>z, <1>k, <2>1, <2>5, <2>6 DEF Starts, Refers, Doomed, InTargets
<1>5. ASSUME NEW o \in Procs \ Requests, NEW s \in DOMAIN live, Sweep(o, s) PROVE G
  <2>1. /\ Starts(o) /\ op'[o].pc \in {"remove", "retire"} /\ op'[o].own = live[s].owner /\ op'[o].kind = "sweep"
        BY <1>5, SweepStarts, BegunWith
  <2>2. live' = live
        BY <1>5 DEF Sweep
  <2> QED BY <1>t, <1>i, <1>z, <1>k, <2>1, <2>2 DEF Starts, Refers, Doomed, InTargets
<1>6. ASSUME NEW o \in Procs \ Requests, Revoke(o) PROVE G
  <2>1. /\ Starts(o) /\ op'[o].pc = "collect" /\ op'[o].own = op[o].own /\ op'[o].kind = "revoke"
        BY <1>6, RevokeStarts, BegunWith
  <2>2. live' = live
        BY <1>6 DEF Revoke
  <2> QED BY <1>t, <1>i, <1>z, <1>k, <2>1, <2>2 DEF Starts, Refers, Doomed, InTargets
<1>7. ASSUME NEW h \in Handles, CaptureEnds(h) PROVE G
  <2>1. op' = op /\ live' = live
        BY <1>7 DEF CaptureEnds
  <2> QED BY <2>1
<1>8. ASSUME NEW o \in Procs \ Requests, NEW s \in DOMAIN live, NEW on \in BOOLEAN, InputCall(o, s, on) PROVE G
  <2>1. Starts(o) /\ op'[o].pc \in {"apply", "end"} /\ op'[o].own = op[o].own /\ op'[o].kind = "input"
        BY <1>8, InputCallStarts, BegunWith
  <2>2. PICK b \in BOOLEAN : b = (live[s].input /\ on)
        OBVIOUS
  <2>3. live' = [live EXCEPT ![s].input = b]
        BY <1>8, <2>2 DEF InputCall
  <2>4. DOMAIN live' = DOMAIN live /\ \A r \in DOMAIN live : live'[r].stopped = live[r].stopped /\ live'[r].released = live[r].released
        BY <1>t, <1>f, <2>3
  <2> QED BY <1>t, <1>i, <1>z, <1>k, <2>1, <2>4 DEF Starts, Refers, Doomed, InTargets
<1> QED BY <1>1, <1>2, <1>3, <1>4, <1>5, <1>6, <1>7, <1>8 DEF Begins

(* Every step keeps the owners right. *)
LEMMA OwnerNext ==
  ASSUME TypeInv, GuardInv, BornInv, KnowInv, StoppedInv, LeaseInv, ClaimInv, OwnerInv, [Next]_vars
  PROVE  OwnerInv'
<1>1. CASE UNCHANGED vars
      BY <1>1 DEF vars, OwnerInv, Usable
<1>2. CASE \E o \in Procs : Step(o)
      BY <1>2, OwnerStep
<1>3. CASE Begins \/ (\E o \in Procs \ Requests, s \in DOMAIN live, on \in BOOLEAN : InputCall(o, s, on))
  <2>r. Requests \subseteq Procs /\ \A s \in DOMAIN live : live[s].owner \in Requests /\ live[s].handle \in Handles
        BY RequestsAreProcs, SessionTypes DEF TypeInv
  <2>1. /\ DOMAIN live' \subseteq DOMAIN live
        /\ \A s \in DOMAIN live' : /\ live'[s].ep = live[s].ep /\ live'[s].handle = live[s].handle
                                   /\ live'[s].owner = live[s].owner
        BY <1>3, BeginsKeepSessions
  <2>2. entry' = entry /\ pendingRet' = pendingRet
        BY <1>3, BeginsKeep
  <2>3. \A h \in Handles : native'[h] = "running" => native[h] = "running"
        BY <1>3, NativeBegin
  <2>d. \A q \in Procs, k \in Requests :
         /\ Refers(op'[q], k) => Refers(op[q], k) \/ \E s \in DOMAIN live : live[s].owner = k
         /\ Doomed(op'[q], k) =>
              \/ Doomed(op[q], k)
              \/ \E s \in DOMAIN live : live[s].owner = k /\ (s \in DOMAIN live' => live'[s].stopped)
         /\ op'[q].kind = "force" /\ op'[q].pc = "silence" =>
              \/ op'[q] = op[q]
              \/ op'[q].sid \in DOMAIN live' => live'[op'[q].sid].stopped
         /\ \A s \in DOMAIN live : live[s].stopped /\ s \in DOMAIN live' => live'[s].stopped
         /\ \A s \in DOMAIN live' : ~live'[s].stopped /\ ~live'[s].released => ~live[s].stopped /\ ~live[s].released
         /\ op'[q] = op[q] \/ op'[q].pc \notin {"leave", "backend", "frame", "policy", "register", "input", "commit"}
         /\ Unpublished(op'[q]) => Unpublished(op[q])
        BY <1>3, DoomedBegins
  <2>4. \A s, t \in DOMAIN live' : live'[s].owner = live'[t].owner => s = t
        BY <2>1 DEF OwnerInv
  <2>5. \A k \in Requests : Unpublished(op'[k]) =>
          /\ \A s \in DOMAIN live' : live'[s].owner # k
          /\ \A q \in Procs \ {k} : ~Refers(op'[q], k)
        BY <2>r, <2>1, <2>d DEF OwnerInv
  <2>6. \A q \in Procs, s \in DOMAIN live' :
          ~live'[s].stopped /\ ~live'[s].released => ~Doomed(op'[q], live'[s].owner)
    <3>1. ASSUME NEW q \in Procs, NEW s \in DOMAIN live', ~live'[s].stopped, ~live'[s].released,
                 Doomed(op'[q], live'[s].owner)
          PROVE  FALSE
      <4>1. s \in DOMAIN live /\ live'[s].owner = live[s].owner /\ live[s].owner \in Requests
            BY <2>r, <2>1
      <4>2. Usable(s)
            BY <2>d, <3>1, <4>1 DEF Usable
      <4>3. ~Doomed(op[q], live[s].owner)
            BY <4>1, <4>2 DEF OwnerInv
      <4>4. \E t \in DOMAIN live : live[t].owner = live[s].owner /\ (t \in DOMAIN live' => live'[t].stopped)
            BY <2>d, <3>1, <4>1, <4>3
      <4> QED BY <3>1, <4>1, <4>4 DEF OwnerInv
    <3> QED BY <3>1
  <2>7. \A s \in DOMAIN live' : ~live'[s].stopped /\ ~live'[s].released => s \in DOMAIN live /\ Usable(s)
    <3>1. ASSUME NEW s \in DOMAIN live', ~live'[s].stopped, ~live'[s].released PROVE s \in DOMAIN live /\ Usable(s)
      <4>1. s \in DOMAIN live /\ s \in Procs /\ s \in Requests
            BY <2>r, <2>1 DEF TypeInv, DataInv
      <4> QED BY <2>d, <3>1, <4>1 DEF Usable
    <3> QED BY <3>1
  <2>8. \A e \in Endpoints, s \in DOMAIN live' :
          entry'[e].pending /\ live'[s].ep = e /\ ~live'[s].stopped /\ ~live'[s].released
            => live'[s].owner # entry'[e].owner
        BY <2>1, <2>2, <2>7 DEF OwnerInv
  <2>9. \A s \in DOMAIN live' :
          /\ ~live'[s].stopped /\ ~live'[s].released
          /\ native'[live'[s].handle] = "running" /\ live'[s].handle \notin pendingRet'
          => entry'[live'[s].ep].owner = live'[s].owner
        BY <2>r, <2>1, <2>2, <2>3, <2>7 DEF OwnerInv
  <2>10. \A q \in Requests : Prepared(op'[q]) /\ entry'[op'[q].ep].newest = q =>
          entry'[op'[q].ep].owner = q /\ (op'[q].pc = "leave" => ~entry'[op'[q].ep].pending)
    <3>1. \A q \in Requests : Prepared(op'[q]) => op'[q] = op[q]
          BY <2>r, <2>d DEF Prepared
    <3> QED BY <2>2, <3>1 DEF OwnerInv
  <2>11. \A q \in Procs : op'[q].kind = "force" /\ op'[q].pc = "silence" /\ op'[q].sid \in DOMAIN live'
          => live'[op'[q].sid].stopped
    <3>1. ASSUME NEW q \in Procs, op'[q].kind = "force", op'[q].pc = "silence", op'[q].sid \in DOMAIN live'
          PROVE  live'[op'[q].sid].stopped
      <4>0. op'[q].sid \in Requests /\ op'[q].sid \in DOMAIN live
            BY <2>1, <3>1 DEF TypeInv, DataInv
      <4>1. CASE op'[q] = op[q]
            BY <2>d, <3>1, <4>0, <4>1 DEF OwnerInv
      <4> QED BY <2>d, <3>1, <4>0, <4>1
    <3> QED BY <3>1
  <2> QED BY <2>4, <2>5, <2>6, <2>8, <2>9, <2>10, <2>11 DEF OwnerInv, Usable
<1> QED BY <1>1, <1>2, <1>3 DEF Next

(* At first nobody owns anything. *)
LEMMA OwnerInit ==
  ASSUME TypeInv, Init
  PROVE  OwnerInv
<1>1. \A o \in Procs : op[o].kind = "none" /\ op[o].pc = "idle" /\ op[o].own = 0
      BY DEF Init, IdleOp
<1>2. Requests \subseteq Procs /\ 0 \notin Requests
  <2>1. Requests \subseteq Procs /\ MaxRequests \in Nat
        BY RequestsAreProcs DEF TypeInv, DataInv
  <2>2. 0 \notin Requests
        BY <2>1 DEF Requests
  <2> QED BY <2>1, <2>2
<1>3. \A e \in Endpoints : ~entry[e].pending
      BY DEF Init, FreshEntry
<1>4. DOMAIN live = {}
      BY DEF Init
<1>5. \A o \in Procs : ~Prepared(op[o]) /\ ~InTargets(op[o])
      BY <1>1 DEF Prepared, InTargets
<1> QED BY <1>1, <1>2, <1>3, <1>4, <1>5 DEF OwnerInv, Refers, Doomed

(* A session that streams when everything has settled has the transport its owner prepared. *)
LEMMA TransportStays ==
  ASSUME TypeInv, LeaseInv, OwnerInv
  PROVE  SessionKeepsTransport
<1>1. \A s \in DOMAIN live : live[s].ep \in Endpoints
      BY SessionTypes DEF TypeInv
<1> QED BY <1>1 DEF SessionKeepsTransport, OwnerInv, LeaseInv

-----------------------------------------------------------------------------

(***************************************************************************)
(* What is left: every entry of the books has a session or a task.         *)
(***************************************************************************)

(* A task that will take the transport of an owner at an endpoint down. *)
Cleans(p, e, k) ==
  \/ p.pc \in {"cleanup", "cleaning"} /\ p.own = k /\ p.ep = e
  \/ p.kind = "force" /\ p.pc = "silence" /\ p.own = k /\ p.ep = e
  \/ InTargets(p) /\ \E t \in p.set : t.own = k /\ t.ep = e
(* A request that will publish the transport it has prepared, or take it down. *)
WillClean(p) ==
  \/ p.pc = "leave" /\ p.then = "backend"
  \/ p.pc \in {"backend", "frame", "policy", "register", "discard", "input", "commit"}
(* A stopStream could not stop its capture and kept the transport. *)
Kept == \E s \in Requests : <<"kept", s>> \in past
(* An entry nobody needs is forgotten. *)
Tidy(a, act) == ~a.busy /\ a.reg = 0 /\ a.owner = 0 /\ (\A r \in act : a.newest < r) => a = FreshEntry

LeftInv ==
  /\ \A e \in Endpoints : Tidy(entry[e], active)
  /\ \A e \in Endpoints : entry[e].reg # 0 =>
       \/ \E s \in DOMAIN live : live[s].ep = e /\ live[s].owner = entry[e].reg
       \/ \E o \in Procs : Cleans(op[o], e, entry[e].reg)
       \/ Kept
  /\ \A e \in Endpoints : entry[e].owner # 0 =>
       \/ \E s \in DOMAIN live : live[s].ep = e /\ live[s].owner = entry[e].owner
       \/ entry[e].pending
       \/ \E o \in Procs : Cleans(op[o], e, entry[e].owner)
       \/ WillClean(op[entry[e].owner]) /\ op[entry[e].owner].ep = e
       \/ Kept

(* What is forgotten is what nobody needs (session_lifecycle.rs: Starts::prune). *)
LEMMA PruneTidies ==
  ASSUME DataInv, NEW en \in [Endpoints -> Entry], NEW act \in SUBSET Requests, NEW e \in Endpoints
  PROVE  Tidy(Prune(en, act)[e], act)
<1>1. en[e].newest \in Nat /\ \A r \in act : r \in Nat
      BY DEF DataInv, Entry, Requests
<1>2. CASE en[e].busy \/ en[e].reg # 0 \/ en[e].owner # 0 \/ \E r \in act : en[e].newest >= r
  <2>1. Prune(en, act)[e] = en[e]
        BY <1>2 DEF Prune
  <2> QED BY <1>1, <1>2, <2>1 DEF Tidy
<1>3. CASE ~(en[e].busy \/ en[e].reg # 0 \/ en[e].owner # 0 \/ \E r \in act : en[e].newest >= r)
  <2>1. Prune(en, act)[e] = FreshEntry
        BY <1>3 DEF Prune
  <2> QED BY <2>1 DEF Tidy
<1> QED BY <1>2, <1>3

(* What is recorded of a behaviour stays recorded. *)
LEMMA PastGrows ==
  ASSUME Next
  PROVE  past \subseteq past' /\ (Kept => Kept')
<1>1. past \subseteq past'
  <2>1. ASSUME NEW o \in Procs, Step(o) PROVE past \subseteq past'
    <3>1. CASE Targets(o)
          BY <3>1 DEF Targets
    <3>2. CASE Displace(o)
          BY <3>2 DEF Displace
    <3>3. CASE Commit(o)
          BY <3>3 DEF Commit
    <3>4. CASE DisableOthers(o)
          BY <3>4 DEF DisableOthers
    <3> QED BY <2>1, <3>1, <3>2, <3>3, <3>4 DEF Step
  <2>2. ASSUME NEW o \in Procs \ Requests, NEW s \in DOMAIN live, NEW on \in BOOLEAN, InputCall(o, s, on)
        PROVE  past \subseteq past'
        BY <2>2 DEF InputCall
  <2> QED BY <2>1, <2>2 DEF Next
<1> QED BY <1>1 DEF Kept

(* Working off a session either goes on with its transport, or is a stopStream that keeps it. *)
LEMMA TargetsGoOn ==
  ASSUME TypeInv, NEW o \in Procs, Targets(o), op[o].set # {}
  PROVE  \/ Kept'
         \/ op'[o].pc = "cleanup" /\ op'[o].then = "targets"
            /\ \E t \in op[o].set : op'[o].set = op[o].set \ {t} /\ op'[o].own = t.own /\ op'[o].ep = t.ep
<1>p. PICK p : p = op[o]
      OBVIOUS
<1>t. /\ p \in OpRec /\ Shape(o, p) /\ op \in [Procs -> OpRec] /\ p.pc = "targets"
      BY <1>p DEF TypeInv, TasksInv, Targets
<1>d. p = [f \in DOMAIN p |-> p[f]]
      /\ DOMAIN p = {"kind", "pc", "ep", "sid", "h", "base", "rev", "own", "set", "on", "old", "then"}
      BY <1>t DEF OpRec
<1>s. p.set \subseteq TargetRec
      BY <1>t DEF Shape, StartShape, ReconfigureShape, CallShape, Running, AtRest, InTargets, ReconfigurePcs, OpRec, Kinds, Calls
<1>1. ASSUME NEW t \in p.set,
             op' = [op EXCEPT ![o].set = p.set \ {t}, ![o].ep = t.ep, ![o].own = t.own,
                              ![o].pc = "cleanup", ![o].then = "targets"]
      PROVE  op'[o].pc = "cleanup" /\ op'[o].then = "targets"
             /\ op'[o].set = p.set \ {t} /\ op'[o].own = t.own /\ op'[o].ep = t.ep
      BY <1>p, <1>t, <1>d, <1>1
<1>2. \E t \in p.set :
        \/ op' = [op EXCEPT ![o].set = p.set \ {t}, ![o].ep = t.ep, ![o].own = t.own,
                            ![o].pc = "cleanup", ![o].then = "targets"]
        \/ past' = past \cup {<<"kept", t.sid>>}
      BY <1>p DEF Targets
<1>3. ASSUME NEW t \in p.set, past' = past \cup {<<"kept", t.sid>>} PROVE Kept'
  <2>1. t.sid \in Requests
        BY <1>s DEF TargetRec
  <2> QED BY <1>3, <2>1 DEF Kept
<1> QED BY <1>p, <1>1, <1>2, <1>3

(* A task that will take a transport down goes on to, or has done it. *)
LEMMA CleansStays ==
  ASSUME TypeInv, LeaseInv, NEW o \in Procs, Step(o), NEW q \in Procs, NEW e \in Endpoints, NEW k \in Requests,
         Cleans(op[q], e, k)
  PROVE  \/ Cleans(op'[q], e, k)
         \/ Kept'
         \/ entry'[e].reg # k /\ (entry'[e].owner = k => entry'[e].pending)
<1>n. PendingInv /\ k # 0
      BY DEF LeaseInv, TypeInv, DataInv, Requests
<1>1. CASE q # o
  <2>1. op'[q] = op[q]
        BY <1>1, StepActs DEF Acts
  <2> QED BY <2>1
<1>2. CASE q = o /\ op[o].pc = "cleanup" /\ op[o].own = k /\ op[o].ep = e
  <2>1. CleanupBegin(o)
        BY <1>2, StepMoves DEF Moves
  <2>2. CleanupBeginMove(op[o], entry[e], entry'[e], op'[o].pc, active) /\ op'[o].own = k /\ op'[o].ep = e
        BY <1>n, <1>2, <2>1, CleanupBeginMoves
  <2> QED BY <1>n, <1>2, <2>2 DEF CleanupBeginMove, Cleans
<1>3. CASE q = o /\ op[o].pc = "cleaning" /\ op[o].own = k /\ op[o].ep = e
  <2>1. CleanupDo(o)
        BY <1>3, StepMoves DEF Moves
  <2>2. CleanupDoMove(op[o], entry[e], entry'[e], active)
        BY <1>n, <1>3, <2>1, CleanupDoMoves
  <2> QED BY <1>n, <1>3, <2>2 DEF CleanupDoMove
<1>4. CASE q = o /\ op[o].kind = "force" /\ op[o].pc = "silence" /\ op[o].own = k /\ op[o].ep = e
  <2>1. Silence(o) /\ op'[o].pc = "cleanup"
        BY <1>4, StepMoves DEF Moves
  <2>2. op'[o].ep = op[o].ep
        BY <1>4, StepFields, ActionPcs
  <2>3. op'[o].own = op[o].own
        BY <1>4, <2>1, OwnMoves
  <2> QED BY <1>4, <2>1, <2>2, <2>3 DEF Cleans
<1>5. CASE q = o /\ InTargets(op[o]) /\ \E t \in op[o].set : t.own = k /\ t.ep = e
  <2>1. PICK t \in op[o].set : t.own = k /\ t.ep = e
        BY <1>5
  <2>2. CASE op[o].pc = "targets"
    <3>1. Targets(o)
          BY <2>2, StepMoves DEF Moves
    <3>2. CASE op'[o].pc = "cleanup" /\ op'[o].then = "targets"
               /\ \E u \in op[o].set : op'[o].set = op[o].set \ {u} /\ op'[o].own = u.own /\ op'[o].ep = u.ep
      <4>1. PICK u \in op[o].set : op'[o].set = op[o].set \ {u} /\ op'[o].own = u.own /\ op'[o].ep = u.ep
            BY <3>2
      <4>2. CASE u = t
            BY <1>5, <2>1, <3>2, <4>1, <4>2 DEF Cleans
      <4>3. CASE u # t
            BY <1>5, <2>1, <3>2, <4>1, <4>3 DEF Cleans, InTargets
      <4> QED BY <4>2, <4>3
    <3> QED BY <2>1, <3>1, <3>2, TargetsGoOn
  <2>3. CASE op[o].pc \in {"cleanup", "cleaning"} /\ op[o].then = "targets"
    <3>1. (CleanupBegin(o) \/ CleanupDo(o)) /\ op'[o].pc \in {"cleaning", "targets"}
          BY <2>3, StepMoves DEF Moves
    <3>2. op'[o].then = op[o].then /\ op'[o].set = op[o].set
          BY <2>3, StepFields, ActionPcs
    <3> QED BY <1>5, <2>1, <2>3, <3>1, <3>2 DEF Cleans, InTargets
  <2> QED BY <1>5, <2>2, <2>3 DEF InTargets
<1> QED BY <1>1, <1>2, <1>3, <1>4, <1>5 DEF Cleans

(* A request goes on to publish the transport it has prepared, or to take it down. *)
LEMMA WillCleanStays ==
  ASSUME TypeInv, KnowInv, NEW o \in Procs, Step(o), NEW k \in Requests, NEW e \in Endpoints,
         WillClean(op[k]), op[k].ep = e
  PROVE  \/ WillClean(op'[k]) /\ op'[k].ep = e
         \/ Cleans(op'[k], e, k)
         \/ \E s \in DOMAIN live' : live'[s].ep = e /\ live'[s].owner = k
<1>1. CASE k # o
  <2>1. op'[k] = op[k]
        BY <1>1, StepActs, RequestsAreProcs DEF Acts, TypeInv
  <2> QED BY <2>1
<1>2. CASE k = o
  <2>e. ~End(o)
        BY <1>2, ActionPcs DEF WillClean
  <2>s. /\ op'[o].ep = op[o].ep /\ op'[o].kind = op[o].kind
        BY <1>2, <2>e, RequestStays
  <2>1. CASE op'[o].pc = "cleanup"
    <3>1. ~Silence(o) /\ ~SweepRemove(o) /\ ~Targets(o)
          BY <1>2, ActionPcs DEF WillClean
    <3>2. op'[o].own = o
          BY <2>1, <3>1, OwnMoves
    <3> QED BY <1>2, <2>s, <2>1, <3>2 DEF Cleans
  <2>2. CASE op[o].pc = "register" /\ op'[o].pc \in {"enable", "end"}
    <3>1. Register(o)
          BY <2>2, StepMoves DEF Moves
    <3>2. GoDiscard(o, "end") => op'[o].pc = "discard"
          BY DEF GoDiscard, TypeInv, TasksInv, OpRec
    <3>3. live' = [s \in DOMAIN live \cup {o} |-> IF s = o THEN NewSession(o) ELSE live[s]]
          BY <2>2, <3>1, <3>2 DEF Register
    <3>4. o \in DOMAIN live' /\ live'[o] = NewSession(o)
          BY <3>3
    <3> QED BY <1>2, <3>4 DEF NewSession
  <2>3. CASE op[o].pc = "commit" /\ op'[o].pc = "end"
    <3>1. Commit(o) /\ op[o].kind = "reconfigure"
          BY <2>3, StepMoves DEF Moves
    <3>2. \A x : (GoDiscard(o, x) => op'[o].pc = "discard") /\ (GoCleanup(o, o, x) => op'[o].pc = "cleanup")
      <4>1. ASSUME NEW x, GoDiscard(o, x) PROVE op'[o].pc = "discard"
            BY <4>1 DEF GoDiscard, TypeInv, TasksInv, OpRec
      <4>2. ASSUME NEW x, GoCleanup(o, o, x) PROVE op'[o].pc = "cleanup"
            BY <4>2 DEF GoCleanup, TypeInv, TasksInv, OpRec
      <4> QED BY <4>1, <4>2
    <3>3. /\ Current(o)
          /\ live' = [live EXCEPT ![op[o].sid].handle = op[o].h, ![op[o].sid].owner = o, ![op[o].sid].input = op[o].on]
          BY <2>3, <3>1, <3>2 DEF Commit
    <3>4. op[o].sid \in DOMAIN live
          BY <3>3 DEF Current, Accepting
    <3>5. live[op[o].sid].ep = op[o].ep
          BY <2>3, <3>1, <3>4 DEF KnowInv, PreCommit, Running, AtRest
    <3>6. PICK a \in Session : a = live[op[o].sid]
          BY <3>4, SessionTypes DEF TypeInv
    <3>7. live'[op[o].sid] = [a EXCEPT !.handle = op[o].h, !.owner = o, !.input = op[o].on] /\ op[o].sid \in DOMAIN live'
          BY <3>3, <3>4, <3>6 DEF TypeInv, DataInv
    <3>8. live'[op[o].sid].ep = a.ep /\ live'[op[o].sid].owner = o
          BY <3>7 DEF Session
    <3> QED BY <1>2, <3>5, <3>6, <3>7, <3>8
  <2>4. CASE op'[o].pc # "cleanup" /\ ~(op[o].pc = "register" /\ op'[o].pc \in {"enable", "end"})
             /\ ~(op[o].pc = "commit" /\ op'[o].pc = "end")
    <3>1. WillClean(op'[o])
          BY <1>2, <2>4, StepMoves DEF Moves, WillClean
    <3> QED BY <1>2, <2>s, <3>1
  <2> QED BY <2>1, <2>2, <2>3, <2>4
<1> QED BY <1>1, <1>2

(* A session leaves the map only with a task that takes its transport down, or is published anew. *)
LEMMA SessionWitness ==
  ASSUME TypeInv, KnowInv, LeaseInv, OwnerInv, NEW o \in Procs, Step(o), NEW s \in DOMAIN live
  PROVE  \/ s \in DOMAIN live' /\ live'[s].ep = live[s].ep /\ live'[s].owner = live[s].owner
         \/ Cleans(op'[o], live[s].ep, live[s].owner)
         \/ /\ s \in DOMAIN live' /\ live'[s].ep = live[s].ep /\ live'[s].owner = o /\ o \in Requests
            /\ entry'[live[s].ep].reg = o /\ entry'[live[s].ep].owner = o
<1>t. live \in [DOMAIN live -> Session] /\ live[s].ep \in Endpoints
      BY SessionTypes DEF TypeInv, DataInv
<1>1. CASE s \in DOMAIN live'
  <2>1. CASE live'[s].ep = live[s].ep /\ live'[s].handle = live[s].handle /\ live'[s].owner = live[s].owner
        BY <1>1, <2>1
  <2>2. CASE ~(live'[s].ep = live[s].ep /\ live'[s].handle = live[s].handle /\ live'[s].owner = live[s].owner)
    <3>1. /\ o \in Requests /\ live'[s].owner = o /\ live'[s].ep = op[o].ep /\ op[o].ep \in Endpoints
          /\ entry[op[o].ep].owner = o
          BY <1>1, <2>2, Publishes
    <3>2. CASE Register(o)
      <4>1. s # o
            BY <3>2, ActionPcs DEF KnowInv, Past
      <4> QED BY <1>1, <2>2, <3>2, <4>1, SessionsMove, ActionPcs
    <3>3. CASE ~Register(o)
      <4>1. /\ Commit(o) /\ s = op[o].sid /\ live'[s].ep = live[s].ep /\ entry'[op[o].ep].reg = o
            BY <1>1, <2>2, <3>3, SessionsMove
      <4>2. entry'[op[o].ep].owner = entry[op[o].ep].owner
            BY <4>1, RegisterMoves
      <4> QED BY <1>1, <3>1, <4>1, <4>2
    <3> QED BY <3>2, <3>3
  <2> QED BY <2>1, <2>2
<1>2. CASE s \notin DOMAIN live'
  <2>1. CASE StartEnter(o) \/ Collect(o)
    <3>1. op'[o].pc = "targets"
      <4>1. CASE StartEnter(o)
        <5>1. CASE Accepts(op[o].ep, o)
              BY <4>1, <5>1 DEF StartEnter, TypeInv, TasksInv, OpRec
        <5>2. CASE ~Accepts(op[o].ep, o)
              BY <1>2, <4>1, <5>2 DEF StartEnter
        <5> QED BY <5>1, <5>2
      <4>2. CASE Collect(o)
            BY <4>2, StepMoves, ActionPcs DEF Moves
      <4> QED BY <2>1, <4>1, <4>2
    <3>2. op[o].pc \in {"enter", "collect"}
          BY <2>1, ActionPcs
    <3>3. Target(s) \in op'[o].set
          BY <1>2, <2>1, <3>1, <3>2, TargetsStep DEF InTargets, Drop
    <3>4. Target(s).ep = live[s].ep /\ Target(s).own = live[s].owner
          BY DEF Target
    <3> QED BY <3>1, <3>3, <3>4 DEF Cleans, InTargets
  <2>2. CASE SweepRemove(o)
    <3>1. /\ live' = Drop({op[o].sid}) /\ GoCleanup(o, op[o].own, "end")
          BY <1>2, <2>2 DEF SweepRemove
    <3>2. s = op[o].sid
          BY <1>2, <3>1 DEF Drop
    <3>3. op[o].kind = "sweep" /\ op[o].pc = "remove"
          BY <2>2, ActionPcs
    <3>4. op[o].own = live[s].owner /\ op[o].ep = live[s].ep
          BY <3>2, <3>3 DEF KnowInv
    <3>5. PICK p \in OpRec : p = op[o]
          BY DEF TypeInv, TasksInv
    <3>6. op'[o] = [p EXCEPT !.pc = "cleanup", !.own = p.own, !.then = "end"]
          BY <3>1, <3>5 DEF GoCleanup, TypeInv, TasksInv
    <3>7. op'[o].pc = "cleanup" /\ op'[o].own = p.own /\ op'[o].ep = p.ep
          BY <3>5, <3>6 DEF OpRec
    <3> QED BY <3>4, <3>5, <3>7 DEF Cleans
  <2>3. CASE ~StartEnter(o) /\ ~Collect(o) /\ ~SweepRemove(o)
    <3>1. DOMAIN live \subseteq DOMAIN live'
      <4>1. CASE Register(o)
            BY <4>1 DEF Register
      <4>2. CASE FlagEnabled(o)
            BY <1>t, <4>2 DEF FlagEnabled
      <4>3. CASE Displace(o)
            BY <4>3 DEF Displace
      <4>4. CASE Commit(o)
            BY <1>t, <4>4 DEF Commit
      <4>5. CASE Silence(o)
            BY <1>t, <4>5 DEF Silence, Stranded
      <4>6. CASE InputApply(o)
            BY <1>t, <4>6 DEF InputApply, Tombstone
      <4>7. CASE InputStore(o)
            BY <1>t, <4>7 DEF InputStore
      <4> QED BY <2>3, <4>1, <4>2, <4>3, <4>4, <4>5, <4>6, <4>7, LiveSteps
    <3> QED BY <1>2, <3>1
  <2> QED BY <2>1, <2>2, <2>3
<1> QED BY <1>1, <1>2

(* How a step changes who is registered at an endpoint, whose its transport is and what is left to be taken down. *)
LEMMA BooksMove ==
  ASSUME TypeInv, KnowInv, LeaseInv, NEW o \in Procs, Step(o), NEW e \in Endpoints
  PROVE  LET a == entry[e]  b == entry'[e] IN
         /\ \/ b.reg \in {a.reg, 0}
            \/ b.reg = o /\ \E s \in DOMAIN live' : live'[s].ep = e /\ live'[s].owner = o
         /\ \/ b.owner \in {a.owner, 0}
            \/ b.owner = o /\ WillClean(op'[o]) /\ op'[o].ep = e
         /\ a.pending => \/ b.pending \/ b.owner = 0
                         \/ b.owner = o /\ WillClean(op'[o]) /\ op'[o].ep = e
<1>n. PendingInv
      BY DEF LeaseInv
<1>0. CASE entry' = entry
      BY <1>0
<1>1. CASE e # op[o].ep \/ End(o)
      BY <1>n, <1>1, EntriesElsewhere DEF Same
<1>2. CASE e = op[o].ep /\ CleanupBegin(o)
      BY <1>n, <1>2, CleanupBeginMoves DEF CleanupBeginMove
<1>3. CASE e = op[o].ep /\ CleanupDo(o)
  <2>1. CleanupDoMove(op[o], entry[e], entry'[e], active) /\ op[o].pc = "cleaning"
        BY <1>n, <1>3, CleanupDoMoves, ActionPcs
  <2>2. entry[e].owner = op[o].own
        BY <1>3, <2>1 DEF LeaseInv
  <2> QED BY <2>1, <2>2 DEF CleanupDoMove
<1>4. CASE e = op[o].ep /\ Prepare(o)
  <2>1. /\ entry'[e].reg = entry[e].reg /\ op'[o].pc = "leave" /\ op'[o].ep = e
        /\ \/ entry'[e].owner = o /\ op'[o].then = "backend"
           \/ entry'[e].owner = 0
        BY <1>4, PrepareMoves
  <2> QED BY <2>1 DEF WillClean
<1>5. CASE e = op[o].ep /\ LeaveSetup(o)
      BY <1>n, <1>5, LeaveMoves DEF LeaveMove
<1>6. CASE e = op[o].ep /\ Claim(o)
      BY <1>6, ClaimMoves
<1>7. CASE e = op[o].ep /\ (StartEnter(o) \/ ReconfigureEnter(o))
      BY <1>7, EnterMoves
<1>8. CASE e = op[o].ep /\ Register(o)
  <2>1. entry'[e].owner = entry[e].owner /\ entry'[e].pending = entry[e].pending
        BY <1>8, RegisterMoves
  <2>2. CASE MayRegister(o)
    <3>1. live' = [s \in DOMAIN live \cup {o} |-> IF s = o THEN NewSession(o) ELSE live[s]]
          BY <1>8, <2>2 DEF Register
    <3>2. o \in DOMAIN live' /\ live'[o] = NewSession(o)
          BY <3>1
    <3>3. live'[o].ep = e /\ live'[o].owner = o
          BY <1>8, <3>2 DEF NewSession
    <3>4. entry'[e].reg = entry[e].reg \/ entry'[e].reg = o
          BY <1>8, RegisterMoves
    <3> QED BY <2>1, <3>2, <3>3, <3>4
  <2>3. CASE ~MayRegister(o)
        BY <1>8, <2>3 DEF Register
  <2> QED BY <2>2, <2>3
<1>9. CASE e = op[o].ep /\ Commit(o)
  <2>1. entry'[e].owner = entry[e].owner /\ entry'[e].pending = entry[e].pending
        BY <1>9, RegisterMoves
  <2>2. CASE Current(o) /\ op[o].h # 0 /\ entry' # entry
    <3>0. op[o].kind = "reconfigure" /\ op[o].pc = "commit"
          BY <1>9, ActionPcs
    <3>1. live' = [live EXCEPT ![op[o].sid].handle = op[o].h, ![op[o].sid].owner = o, ![op[o].sid].input = op[o].on]
          BY <1>9, <2>2 DEF Commit
    <3>2. op[o].sid \in DOMAIN live
          BY <2>2 DEF Current, Accepting
    <3>3. live[op[o].sid].ep = op[o].ep
          BY <3>0, <3>2 DEF KnowInv, PreCommit, Running, AtRest
    <3>4. PICK a \in Session : a = live[op[o].sid]
          BY <3>2, SessionTypes DEF TypeInv
    <3>5. live'[op[o].sid] = [a EXCEPT !.handle = op[o].h, !.owner = o, !.input = op[o].on] /\ op[o].sid \in DOMAIN live'
          BY <3>1, <3>2, <3>4 DEF TypeInv, DataInv
    <3>6. live'[op[o].sid].ep = a.ep /\ live'[op[o].sid].owner = o
          BY <3>5 DEF Session
    <3>7. entry'[e].reg = entry[e].reg \/ entry'[e].reg = o
          BY <1>9, RegisterMoves
    <3> QED BY <1>9, <2>1, <3>3, <3>4, <3>5, <3>6, <3>7
  <2>3. CASE entry' = entry
        BY <2>3
  <2> QED BY <1>9, <2>2, <2>3 DEF Commit
<1> QED BY <1>0, <1>1, <1>2, <1>3, <1>4, <1>5, <1>6, <1>7, <1>8, <1>9, EntrySteps

(* A step forgets the entries nobody needs any more. *)
LEMMA TidyStep ==
  ASSUME TypeInv, GuardInv, LeaseInv, NEW o \in Procs, Step(o), NEW e \in Endpoints, Tidy(entry[e], active)
  PROVE  Tidy(entry'[e], active')
<1>p. PICK p : p = op[o]
      OBVIOUS
<1>t. /\ DataInv /\ entry \in [Endpoints -> Entry] /\ active \in SUBSET Requests /\ 0 \in 0..MaxRequests
      /\ \A x \in Endpoints : entry[x].owner \in 0..MaxRequests /\ entry[x].reg \in 0..MaxRequests
      BY DEF TypeInv, DataInv, Entry
<1>h. /\ p.pc \in {"cleanup", "cleaning", "prepare", "leave", "claim"} => p.ep \in Endpoints
      /\ Running(p) /\ p.kind \in {"start", "reconfigure"} => p.ep \in Endpoints /\ o \in Requests
      /\ p.pc = "claim" => o \in Requests
      BY <1>p, TaskPlace DEF Running, AtRest
<1>u. \A en \in [Endpoints -> Entry], x \in Endpoints : \A k : Unregistered(en, x, k) \in [Endpoints -> Entry]
  <2>1. SUFFICES ASSUME NEW en \in [Endpoints -> Entry], NEW x \in Endpoints, NEW k
                 PROVE  Unregistered(en, x, k) \in [Endpoints -> Entry]
        OBVIOUS
  <2>2. (IF en[x].reg = k THEN 0 ELSE en[x].reg) \in 0..MaxRequests
        BY <1>t DEF Entry
  <2>3. [en EXCEPT ![x].reg = IF en[x].reg = k THEN 0 ELSE en[x].reg] \in [Endpoints -> Entry]
        BY <1>t, <2>2, EntryTypes, ZenonT(30)
  <2> QED BY <2>3 DEF Unregistered
<1>r. \A en \in [Endpoints -> Entry], act \in SUBSET Requests : Tidy(Prune(en, act)[e], act)
      BY <1>t, PruneTidies
<1>s. entry'[e] = entry[e] /\ active' = active => Tidy(entry'[e], active')
      OBVIOUS
<1>a. End(o) \/ active' = active
      BY GuardSteps
<1>0. CASE entry' = entry /\ ~End(o)
      BY <1>0, <1>a, <1>s
<1>1. CASE CleanupBegin(o)
  <2>1. p.ep \in Endpoints /\ active' = active
        BY <1>p, <1>1, <1>h DEF CleanupBegin
  <2>2. [entry EXCEPT ![p.ep].pending = TRUE] \in [Endpoints -> Entry]
        BY <1>t, <2>1, EntryTypes
  <2>3. /\ Tidy(Prune(Unregistered([entry EXCEPT ![p.ep].pending = TRUE], p.ep, p.own), active)[e], active)
        /\ Tidy(Prune(Unregistered(entry, p.ep, p.own), active)[e], active)
        BY <1>t, <1>u, <1>r, <2>1, <2>2
  <2>4. ASSUME entry' = [entry EXCEPT ![p.ep].busy = TRUE] PROVE Tidy(entry'[e], active')
    <3>1. CASE e = p.ep
      <4>1. PICK a \in Entry : a = entry[e]
            BY <1>t
      <4>2. entry'[e] = [a EXCEPT !.busy = TRUE]
            BY <1>t, <2>1, <2>4, <3>1, <4>1
      <4>3. entry'[e].busy
            BY <4>2 DEF Entry
      <4> QED BY <4>3 DEF Tidy
    <3>2. CASE e # p.ep
          BY <1>t, <1>s, <2>1, <2>4, <3>2
    <3> QED BY <3>1, <3>2
  <2> QED BY <1>p, <1>1, <2>1, <2>3, <2>4 DEF CleanupBegin
<1>2. CASE CleanupDo(o)
  <2>1. p.ep \in Endpoints /\ active' = active
        BY <1>p, <1>2, <1>h DEF CleanupDo
  <2>2. (IF entry[p.ep].owner = p.own THEN 0 ELSE entry[p.ep].owner) \in 0..MaxRequests
        BY <1>t, <2>1
  <2>3. [entry EXCEPT ![p.ep].busy = FALSE,
                      ![p.ep].owner = IF entry[p.ep].owner = p.own THEN 0 ELSE entry[p.ep].owner,
                      ![p.ep].pending = FALSE] \in [Endpoints -> Entry]
        BY <1>t, <2>1, <2>2, EntryTypes
  <2>4. PICK freed \in [Endpoints -> Entry] :
          freed = [entry EXCEPT ![p.ep].busy = FALSE, ![p.ep].owner = IF @ = p.own THEN 0 ELSE @, ![p.ep].pending = FALSE]
        BY <1>t, <2>1, <2>3
  <2>5. Tidy(Prune(Unregistered(freed, p.ep, p.own), active)[e], active)
        BY <1>t, <1>u, <1>r, <2>1
  <2>6. entry' = Prune(Unregistered(freed, p.ep, p.own), active)
        BY <1>p, <1>2, <2>4 DEF CleanupDo
  <2> QED BY <2>1, <2>5, <2>6
<1>3. CASE LeaveSetup(o)
  <2>1. p.ep \in Endpoints /\ active' = active
        BY <1>p, <1>3, <1>h DEF LeaveSetup
  <2>2. (IF Drains(p.ep) THEN 0 ELSE entry[p.ep].owner) \in 0..MaxRequests
        BY <1>t, <2>1
  <2>3. [entry EXCEPT ![p.ep].busy = FALSE, ![p.ep].pending = FALSE,
                      ![p.ep].owner = IF Drains(p.ep) THEN 0 ELSE entry[p.ep].owner] \in [Endpoints -> Entry]
        BY <1>t, <2>1, <2>2, EntryTypes
  <2>4. PICK freed \in [Endpoints -> Entry] :
          freed = [entry EXCEPT ![p.ep].busy = FALSE, ![p.ep].pending = FALSE, ![p.ep].owner = IF Drains(p.ep) THEN 0 ELSE @]
        BY <1>t, <2>1, <2>3
  <2>5. entry' = Prune(freed, active)
        BY <1>p, <1>3, <2>4 DEF LeaveSetup
  <2> QED BY <1>t, <1>r, <2>1, <2>5
<1>4. CASE End(o)
  <2>1. entry' = Prune(entry, active \ {o}) /\ active' = active \ {o} /\ active \ {o} \in SUBSET Requests
        BY <1>4, <1>t DEF End
  <2> QED BY <1>t, <1>r, <2>1
<1>5. CASE Prepare(o)
  <2>1. p.ep \in Endpoints /\ active' = active /\ Leases(p)
        BY <1>p, <1>5, <1>h DEF Prepare, Leases
  <2>2. CASE e = p.ep
    <3>1. entry'[e].busy = entry[e].busy
          BY <1>p, <1>5, <2>2, PrepareMoves
    <3> QED BY <1>p, <2>1, <2>2, <3>1 DEF LeaseInv, Tidy
  <2>3. CASE e # p.ep
        BY <1>p, <1>t, <1>s, <1>5, <2>1, <2>3 DEF Prepare
  <2> QED BY <2>2, <2>3
<1>6. CASE Claim(o)
  <2>1. p.ep \in Endpoints /\ active' = active /\ p.pc = "claim" /\ o \in Requests
        BY <1>p, <1>6, <1>h DEF Claim
  <2>2. o \in active
        BY <1>p, <2>1 DEF GuardInv, Running, AtRest
  <2>3. CASE e = p.ep /\ entry' # entry
    <3>1. entry' = [entry EXCEPT ![e].newest = o]
          BY <1>p, <1>6, <2>3 DEF Claim
    <3>2. PICK a \in Entry : a = entry[e]
          BY <1>t
    <3>3. entry'[e] = [a EXCEPT !.newest = o]
          BY <1>t, <3>1, <3>2
    <3>4. entry'[e].newest = o
          BY <3>3 DEF Entry
    <3>5. o \in Nat
          BY <2>1 DEF Requests
    <3>6. ~(entry'[e].newest < o)
          BY <3>4, <3>5
    <3> QED BY <2>1, <2>2, <3>6 DEF Tidy
  <2>4. CASE e # p.ep \/ entry' = entry
        BY <1>p, <1>t, <1>s, <1>6, <2>1, <2>4 DEF Claim
  <2> QED BY <2>3, <2>4
<1>7. CASE StartEnter(o) \/ ReconfigureEnter(o)
  <2>1. p.ep \in Endpoints /\ active' = active
        BY <1>p, <1>7, EnterMoves, <1>a, ActionPcs
  <2>2. entry' = entry \/ entry' = [entry EXCEPT ![p.ep].busy = TRUE]
        BY <1>p, <1>7 DEF StartEnter, ReconfigureEnter
  <2>3. CASE e = p.ep /\ entry' # entry
    <3>1. PICK a \in Entry : a = entry[e]
          BY <1>t
    <3>2. entry'[e] = [a EXCEPT !.busy = TRUE]
          BY <1>t, <2>2, <2>3, <3>1
    <3>3. entry'[e].busy
          BY <3>2 DEF Entry
    <3> QED BY <3>3 DEF Tidy
  <2>4. CASE e # p.ep \/ entry' = entry
        BY <1>t, <1>s, <2>1, <2>2, <2>4
  <2> QED BY <2>3, <2>4
<1>8. CASE Register(o) \/ Commit(o)
  <2>1. p.ep \in Endpoints /\ active' = active /\ o \in Requests
        BY <1>p, <1>8, RegisterMoves, <1>a, ActionPcs
  <2>2. entry' = entry \/ entry' = [entry EXCEPT ![p.ep].reg = o]
        BY <1>p, <1>8 DEF Register, Commit
  <2>3. CASE e = p.ep /\ entry' # entry
    <3>1. PICK a \in Entry : a = entry[e]
          BY <1>t
    <3>2. entry'[e] = [a EXCEPT !.reg = o]
          BY <1>t, <2>2, <2>3, <3>1
    <3>3. entry'[e].reg = o /\ o # 0
          BY <2>1, <3>2 DEF Entry, Requests
    <3> QED BY <3>3 DEF Tidy
  <2>4. CASE e # p.ep \/ entry' = entry
        BY <1>t, <1>s, <2>1, <2>2, <2>4
  <2> QED BY <2>3, <2>4
<1> QED BY <1>0, <1>1, <1>2, <1>3, <1>4, <1>5, <1>6, <1>7, <1>8, EntrySteps

(* A step of a task leaves nothing behind that no task takes care of. *)
LEMMA LeftStep ==
  ASSUME TypeInv, GuardInv, KnowInv, LeaseInv, OwnerInv, LeftInv, NEW o \in Procs, Step(o), Next
  PROVE  LeftInv'
<1>e. entry' \in [Endpoints -> Entry] /\ MaxRequests \in Nat
      BY EntryStays DEF TypeInv, DataInv
<1>f. \A e \in Endpoints : entry'[e].reg \in 0..MaxRequests /\ entry'[e].owner \in 0..MaxRequests
      BY <1>e DEF Entry
<1>g. \A k \in 0..MaxRequests : k # 0 => k \in Requests
      BY <1>e DEF Requests
<1>t. /\ \A e \in Endpoints : entry'[e].reg \in 0..MaxRequests /\ entry'[e].owner \in 0..MaxRequests
      /\ \A k \in 0..MaxRequests : k # 0 => k \in Requests
      /\ Requests \subseteq Procs
      BY <1>f, <1>g, RequestsAreProcs DEF TypeInv
<1>k. Kept => Kept'
      BY PastGrows
<1>1. \A e \in Endpoints : Tidy(entry'[e], active')
      BY TidyStep DEF LeftInv
<1>2. ASSUME NEW e \in Endpoints, entry'[e].reg # 0
      PROVE  \/ \E s \in DOMAIN live' : live'[s].ep = e /\ live'[s].owner = entry'[e].reg
             \/ \E q \in Procs : Cleans(op'[q], e, entry'[e].reg)
             \/ Kept'
  <2>0. entry'[e].reg \in Requests
        BY <1>t, <1>2
  <2>1. CASE entry'[e].reg # entry[e].reg
        BY <1>2, <2>1, BooksMove
  <2>2. CASE entry'[e].reg = entry[e].reg
    <3>1. CASE \E s \in DOMAIN live : live[s].ep = e /\ live[s].owner = entry[e].reg
      <4>1. PICK s \in DOMAIN live : live[s].ep = e /\ live[s].owner = entry[e].reg
            BY <3>1
      <4> QED BY <2>2, <4>1, SessionWitness
    <3>2. CASE \E q \in Procs : Cleans(op[q], e, entry[e].reg)
      <4>1. PICK q \in Procs : Cleans(op[q], e, entry[e].reg)
            BY <3>2
      <4> QED BY <2>0, <2>2, <4>1, CleansStays
    <3> QED BY <1>2, <1>k, <2>2, <3>1, <3>2 DEF LeftInv
  <2> QED BY <2>1, <2>2
<1>3. ASSUME NEW e \in Endpoints, entry'[e].owner # 0
      PROVE  \/ \E s \in DOMAIN live' : live'[s].ep = e /\ live'[s].owner = entry'[e].owner
             \/ entry'[e].pending
             \/ \E q \in Procs : Cleans(op'[q], e, entry'[e].owner)
             \/ WillClean(op'[entry'[e].owner]) /\ op'[entry'[e].owner].ep = e
             \/ Kept'
  <2>0. entry'[e].owner \in Requests /\ entry'[e].owner \in Procs
        BY <1>t, <1>3
  <2>1. CASE entry'[e].owner # entry[e].owner
        BY <1>3, <2>1, BooksMove
  <2>2. CASE entry'[e].owner = entry[e].owner
    <3>1. CASE \E s \in DOMAIN live : live[s].ep = e /\ live[s].owner = entry[e].owner
      <4>1. PICK s \in DOMAIN live : live[s].ep = e /\ live[s].owner = entry[e].owner
            BY <3>1
      <4> QED BY <2>2, <4>1, SessionWitness
    <3>2. CASE entry[e].pending
          BY <1>3, <3>2, BooksMove
    <3>3. CASE \E q \in Procs : Cleans(op[q], e, entry[e].owner)
      <4>1. PICK q \in Procs : Cleans(op[q], e, entry[e].owner)
            BY <3>3
      <4> QED BY <2>0, <2>2, <4>1, CleansStays
    <3>4. CASE WillClean(op[entry[e].owner]) /\ op[entry[e].owner].ep = e
      <4>1. \/ WillClean(op'[entry[e].owner]) /\ op'[entry[e].owner].ep = e
            \/ Cleans(op'[entry[e].owner], e, entry[e].owner)
            \/ \E s \in DOMAIN live' : live'[s].ep = e /\ live'[s].owner = entry[e].owner
            BY <2>0, <2>2, <3>4, WillCleanStays
      <4> QED BY <2>0, <2>2, <4>1
    <3> QED BY <1>3, <1>k, <2>2, <3>1, <3>2, <3>3, <3>4 DEF LeftInv
  <2> QED BY <2>1, <2>2
<1> QED BY <1>1, <1>2, <1>3 DEF LeftInv

(* A task that begins leaves behind only what it, or another one, takes care of. *)
LEMMA LeftBegins ==
  ASSUME TypeInv, LeftInv,
         Begins \/ (\E o \in Procs \ Requests, s \in DOMAIN live, on \in BOOLEAN : InputCall(o, s, on)),
         Kept => Kept'
  PROVE  LeftInv'
<1>t. /\ live \in [DOMAIN live -> Session] /\ Requests \subseteq Procs /\ op \in [Procs -> OpRec]
      /\ \A e \in Endpoints : entry[e].owner \in Procs \/ entry[e].owner = 0
  <2>1. \A e \in Endpoints : entry[e].owner \in 0..MaxRequests
        BY DEF TypeInv, DataInv, Entry
  <2>2. \A k \in 0..MaxRequests : k \in Requests \/ k = 0
        BY DEF TypeInv, DataInv, Requests
  <2> QED BY <2>1, <2>2, RequestsAreProcs DEF TypeInv, DataInv, TasksInv
<1>f. \A s \in DOMAIN live : /\ live[s] = [f \in DOMAIN live[s] |-> live[s][f]]
                             /\ DOMAIN live[s] = {"ep", "handle", "input", "released", "stopped", "rev", "owner"}
      BY <1>t DEF Session
<1>e. entry' = entry
      BY BeginsKeep
<1>i. \A q \in Procs : op[q].pc = "idle" => ~WillClean(op[q]) /\ \A e, k : ~Cleans(op[q], e, k)
      BY DEF WillClean, Cleans, InTargets
<1> DEFINE OthersStay == \E o \in Procs : op[o].pc = "idle" /\ \A q \in Procs \ {o} : op'[q] = op[q]
           SessionsStay == \A s \in DOMAIN live : \/ s \in DOMAIN live' /\ live'[s].ep = live[s].ep
                                                    /\ live'[s].owner = live[s].owner
                                                 \/ \E o \in Procs : Cleans(op'[o], live[s].ep, live[s].owner)
           G == (OthersStay \/ op' = op) /\ SessionsStay /\ active \subseteq active'
<1>1. ASSUME NEW o \in Requests, NEW e \in Endpoints, StartBegin(o, e) PROVE G
  <2>1. Starts(o) /\ o \in Procs
        BY <1>1, StartBeginStarts
  <2>2. live' = live /\ active \subseteq active'
        BY <1>1 DEF StartBegin
  <2> QED BY <2>1, <2>2 DEF Starts
<1>2. ASSUME NEW o \in Requests, NEW s \in DOMAIN live, NEW moved \in BOOLEAN, ReconfigureBegin(o, s, moved) PROVE G
  <2>1. Starts(o) /\ o \in Procs
        BY <1>2, ReconfigureBeginStarts
  <2>2. /\ DOMAIN live' = DOMAIN live /\ active \subseteq active'
        /\ \A x \in DOMAIN live : live'[x].ep = live[x].ep /\ live'[x].owner = live[x].owner
        BY <1>t, <1>f, <1>2 DEF ReconfigureBegin
  <2> QED BY <2>1, <2>2 DEF Starts
<1>3. ASSUME NEW o \in Procs \ Requests, NEW s \in DOMAIN live, StopStream(o, s) PROVE G
  <2>1. Starts(o) /\ op'[o].pc = "targets" /\ op'[o].set = {Target(s)}
        BY <1>3, StopStreamStarts, BegunWith
  <2>2. /\ DOMAIN live' = DOMAIN live \ {s} /\ \A x \in DOMAIN live' : live'[x] = live[x]
        /\ Target(s).own = live[s].owner /\ Target(s).ep = live[s].ep /\ active' = active
        BY <1>3 DEF StopStream, Drop, Target, books
  <2>3. Cleans(op'[o], live[s].ep, live[s].owner)
        BY <2>1, <2>2 DEF Cleans, InTargets
  <2> QED BY <2>1, <2>2, <2>3 DEF Starts
<1>4. ASSUME NEW o \in Procs \ Requests, NEW s \in DOMAIN live, ForceStop(o, s) PROVE G
  <2>1. Starts(o)
        BY <1>4, ForceStopStarts
  <2>2. live' = [live EXCEPT ![s].stopped = TRUE, ![s].rev = @ + 1, ![s].input = FALSE, ![s].released = TRUE]
        BY <1>4 DEF ForceStop, Tombstone
  <2>3. PICK a \in Session : a = live[s]
        BY <1>t
  <2>4. live'[s] = [a EXCEPT !.stopped = TRUE, !.rev = @ + 1, !.input = FALSE, !.released = TRUE]
        BY <1>t, <2>2, <2>3
  <2>5. live'[s].ep = a.ep /\ live'[s].owner = a.owner
        BY <2>4 DEF Session
  <2>6. DOMAIN live' = DOMAIN live /\ \A x \in DOMAIN live \ {s} : live'[x] = live[x]
        BY <1>t, <2>2
  <2>7. active' = active
        BY <1>4 DEF ForceStop, books
  <2> QED BY <2>1, <2>3, <2>5, <2>6, <2>7 DEF Starts
<1>5. ASSUME NEW o \in Procs \ Requests, NEW s \in DOMAIN live, Sweep(o, s) PROVE G
  <2>1. Starts(o)
        BY <1>5, SweepStarts
  <2>2. live' = live /\ active' = active
        BY <1>5 DEF Sweep, books
  <2> QED BY <2>1, <2>2 DEF Starts
<1>6. ASSUME NEW o \in Procs \ Requests, Revoke(o) PROVE G
  <2>1. Starts(o)
        BY <1>6, RevokeStarts
  <2>2. live' = live /\ active' = active
        BY <1>6 DEF Revoke, books
  <2> QED BY <2>1, <2>2 DEF Starts
<1>7. ASSUME NEW h \in Handles, CaptureEnds(h) PROVE G
      BY <1>7 DEF CaptureEnds, books
<1>8. ASSUME NEW o \in Procs \ Requests, NEW s \in DOMAIN live, NEW on \in BOOLEAN, InputCall(o, s, on) PROVE G
  <2>1. Starts(o)
        BY <1>8, InputCallStarts
  <2>2. DOMAIN live' = DOMAIN live /\ active' = active
        BY <1>8 DEF InputCall, books
  <2>3. \A x \in DOMAIN live' : live'[x].ep = live[x].ep /\ live'[x].owner = live[x].owner
        BY <1>8, BeginsKeepSessions
  <2> QED BY <2>1, <2>2, <2>3 DEF Starts
<1>9. G
      BY <1>1, <1>2, <1>3, <1>4, <1>5, <1>6, <1>7, <1>8 DEF Begins
<1>10. /\ \A q \in Procs : WillClean(op[q]) => op'[q] = op[q]
       /\ \A q \in Procs : \A e, k : Cleans(op[q], e, k) => Cleans(op'[q], e, k)
  <2>1. CASE op' = op
        BY <2>1
  <2>2. CASE OthersStay
        BY <2>2, <1>i
  <2> QED BY <1>9, <2>1, <2>2
<1> HIDE DEF G, OthersStay
<1>11. \A e \in Endpoints : Tidy(entry'[e], active')
  <2>1. active \subseteq active'
        BY <1>9 DEF G
  <2> QED BY <1>e, <2>1 DEF LeftInv, Tidy
<1>12. SessionsStay
       BY <1>9 DEF G
<1>13. ASSUME NEW e \in Endpoints, entry'[e].reg # 0
       PROVE  \/ \E s \in DOMAIN live' : live'[s].ep = e /\ live'[s].owner = entry'[e].reg
              \/ \E q \in Procs : Cleans(op'[q], e, entry'[e].reg)
              \/ Kept'
       BY <1>e, <1>10, <1>12, <1>13 DEF LeftInv
<1>14. ASSUME NEW e \in Endpoints, entry'[e].owner # 0
       PROVE  \/ \E s \in DOMAIN live' : live'[s].ep = e /\ live'[s].owner = entry'[e].owner
              \/ entry'[e].pending
              \/ \E q \in Procs : Cleans(op'[q], e, entry'[e].owner)
              \/ WillClean(op'[entry'[e].owner]) /\ op'[entry'[e].owner].ep = e
              \/ Kept'
       BY <1>t, <1>e, <1>10, <1>12, <1>14 DEF LeftInv
<1> QED BY <1>11, <1>13, <1>14 DEF LeftInv

(* No step leaves anything behind that no task takes care of. *)
LEMMA LeftNext ==
  ASSUME TypeInv, GuardInv, KnowInv, LeaseInv, OwnerInv, LeftInv, [Next]_vars
  PROVE  LeftInv'
<1>1. CASE UNCHANGED vars
      BY <1>1 DEF vars, books, captures, guards, LeftInv, Tidy, Cleans, WillClean, InTargets, Kept
<1>2. CASE Next
  <2>1. Kept => Kept'
        BY <1>2, PastGrows
  <2>2. ASSUME NEW o \in Procs, Step(o) PROVE LeftInv'
        BY <1>2, <2>2, LeftStep
  <2>3. CASE Begins \/ (\E o \in Procs \ Requests, s \in DOMAIN live, on \in BOOLEAN : InputCall(o, s, on))
        BY <2>1, <2>3, LeftBegins
  <2> QED BY <1>2, <2>2, <2>3 DEF Next
<1> QED BY <1>1, <1>2

(* At first nothing is there to be left. *)
LEMMA LeftInit ==
  ASSUME TypeInv, Init
  PROVE  LeftInv
<1>1. \A e \in Endpoints : entry[e] = FreshEntry /\ entry[e].reg = 0 /\ entry[e].owner = 0
      BY DEF Init, FreshEntry
<1> QED BY <1>1 DEF LeftInv, Tidy

(* When all tasks have returned, nothing is held and nothing is remembered but what has a session. *)
LEMMA NothingIsLeft ==
  ASSUME TypeInv, GuardInv, LeaseInv, LeftInv
  PROVE  NothingLeft
<1> SUFFICES ASSUME Quiet PROVE NothingLeft
    BY DEF NothingLeft
<1>q. /\ \A o \in Procs : op[o].pc \in {"idle", "done"}
      /\ Requests \subseteq Procs
      BY RequestsAreProcs DEF Quiet, TypeInv
<1>1. \A o \in Procs : ~Running(op[o]) /\ ~Guarded(op[o]) /\ ~Leases(op[o]) /\ ~WillClean(op[o])
      BY <1>q DEF Running, AtRest, Guarded, Leases, InTargets, WillClean
<1>2. \A o \in Procs : \A e, k : ~Cleans(op[o], e, k)
      BY <1>q DEF Cleans, InTargets
<1>3. active = {} /\ busySess = {} /\ inputLock = 0 /\ \A s \in Requests : retired[s] = 0
      BY <1>q, <1>1 DEF GuardInv
<1>4. ASSUME NEW e \in Endpoints, entry[e] # FreshEntry, ~Kept
      PROVE  \E s \in DOMAIN live : live[s].ep = e
  <2>1. ~entry[e].busy /\ ~entry[e].pending
        BY <1>1 DEF LeaseInv, PendingInv
  <2>2. entry[e].reg # 0 \/ entry[e].owner # 0
        BY <1>3, <1>4, <2>1 DEF LeftInv, Tidy
  <2>3. entry[e].owner # 0 => entry[e].owner \in Procs
    <3>1. entry[e].owner \in 0..MaxRequests /\ MaxRequests \in Nat
          BY DEF TypeInv, DataInv, Entry
    <3>2. entry[e].owner # 0 => entry[e].owner \in Requests
          BY <3>1 DEF Requests
    <3> QED BY <1>q, <3>2
  <2>4. CASE entry[e].reg # 0
        BY <1>2, <1>4, <2>4 DEF LeftInv
  <2>5. CASE entry[e].owner # 0
    <3>1. ~WillClean(op[entry[e].owner])
          BY <1>1, <2>3, <2>5
    <3> QED BY <1>2, <1>4, <2>1, <2>5, <3>1 DEF LeftInv
  <2> QED BY <2>2, <2>4, <2>5
<1> QED BY <1>3, <1>4 DEF NothingLeft, Kept

-----------------------------------------------------------------------------
(* The tasks are sound, and so are the books they keep. *)
BooksAreSound == TasksAreSound /\ LeaseInv /\ ClaimInv /\ OwnerInv /\ LeftInv

(* Tasks and books are sound in every reachable state. *)
LEMMA BooksStaySound ==
  ASSUME MaxRequests \in Nat, MaxCalls \in Nat
  PROVE  Spec => []BooksAreSound
<1>1. Init => LeaseInv /\ ClaimInv /\ OwnerInv /\ LeftInv
      BY TypeInit, LeaseInit, ClaimInit, OwnerInit, LeftInit
<1>2. TasksAreSound /\ LeaseInv /\ ClaimInv /\ OwnerInv /\ LeftInv /\ [Next]_vars
        => LeaseInv' /\ ClaimInv' /\ OwnerInv' /\ LeftInv'
      BY LeaseNext, ClaimNext, OwnerNext, LeftNext DEF TasksAreSound
<1>3. Spec => []TasksAreSound
      BY TasksStaySound
<1> QED BY <1>1, <1>2, <1>3, PTL DEF Spec, BooksAreSound

(* The types of the state are those of the invariant. *)
LEMMA TypesAreRight ==
  ASSUME TypeInv
  PROVE  TypeOK
<1>1. \A s \in DOMAIN live : /\ live[s].ep \in Endpoints /\ live[s].handle \in Handles
                             /\ live[s].owner \in Requests
                             /\ {live[s].input, live[s].released, live[s].stopped} \subseteq BOOLEAN
      BY DEF TypeInv, DataInv, Session
<1> QED BY <1>1 DEF TypeInv, DataInv, Entry, TypeOK

(* An endpoint has one session; what the books say of an endpoint nobody works on is what is set up   *)
(* there; a session that streams has the transport its owner prepared; no capture is orphaned; and no *)
(* task leaves a lease, a guard, a lock or an entry behind (session_lifecycle.rs: Starts; control.rs:  *)
(* start_stream_session, reconfigure_stream, cleanup_owned_transport, StartTransportGuard::drop).      *)
THEOREM SessionsStayWhole ==
  ASSUME MaxRequests \in Nat, MaxCalls \in Nat
  PROVE  Spec => []SessionsAreWhole
<1>1. BooksAreSound => SessionsAreWhole
  <2>1. BooksAreSound => TypeOK
        BY TypesAreRight DEF BooksAreSound, TasksAreSound
  <2>2. BooksAreSound => OneSessionPerEndpoint
        BY DEF BooksAreSound, TasksAreSound, ClaimInv
  <2>3. BooksAreSound => BooksMatchTransports
        BY DEF BooksAreSound, TasksAreSound, LeaseInv, BooksMatchTransports
  <2>4. BooksAreSound => SessionKeepsTransport
        BY TransportStays DEF BooksAreSound, TasksAreSound
  <2>5. BooksAreSound => NothingLeft
        BY NothingIsLeft DEF BooksAreSound, TasksAreSound
  <2>6. BooksAreSound => NoOrphanCapture
        BY QuietCaptures DEF BooksAreSound
  <2> QED BY <2>1, <2>2, <2>3, <2>4, <2>5, <2>6 DEF SessionsAreWhole
<1> QED BY <1>1, BooksStaySound, PTL

-----------------------------------------------------------------------------
(***************************************************************************)
(* Input: which session a capture's input is for, and which session has it. *)
(***************************************************************************)

(* An operator's decision at work. *)
Deciding(p) == p.kind = "input" /\ p.pc \in {"apply", "store"}
(* A session being force stopped. *)
Silencing(p, s) == p.kind = "force" /\ p.pc = "silence" /\ p.sid = s

(* A capture is one session's, or one task's that is making it. *)
HandleInv ==
  /\ \A s, t \in DOMAIN live : live[s].handle = live[t].handle => s = t
  /\ \A s \in DOMAIN live, q \in Procs : Making(op[q]) => live[s].handle # op[q].h
  /\ \A s \in DOMAIN live, q \in Requests : op[q].kind = "start" /\ live[s].handle = 2 * q => s = q
  /\ \A s \in DOMAIN live, o \in Procs : Deciding(op[o]) /\ live[s].handle = op[o].h => s = op[o].sid
  /\ \A o, q \in Procs : Deciding(op[o]) /\ Making(op[q]) => op[q].h # op[o].h
  /\ \A o \in Procs, q \in Requests : Deciding(op[o]) /\ op[q].kind = "start" /\ op[o].h = 2 * q => op[o].sid = q

(* What is left of a session that was ended. *)
EndInv ==
  /\ \A s \in DOMAIN live : Usable(s) /\ s \in fenced => native[live[s].handle] # "running"
  /\ \A s \in DOMAIN live : live[s].stopped /\ ~live[s].released
        => native[live[s].handle] # "running" \/ live[s].handle \in pendingRet
  /\ \A s \in DOMAIN live : live[s].stopped /\ live[s].released
        => native[live[s].handle] # "running" \/ \E o \in Procs : Silencing(op[o], s)
  /\ \A s \in DOMAIN live, o \in Procs : Silencing(op[o], s) => live[s].stopped /\ live[s].handle = op[o].h

(* Captures that take input run; a decision is known of from its beginning. *)
FeedInv ==
  /\ \A h \in nativeIn : native[h] = "running"
  /\ \A q \in Procs : Making(op[q]) /\ op[q].h \in nativeIn
        => (op[q].pc = "commit" /\ op[q].on) \/ op[q].pc = "discard"
  /\ \A o \in Procs : Deciding(op[o]) /\ op[op[o].sid].pc # "done" => <<"decided", op[o].sid>> \in past
  /\ \A o \in Procs : Deciding(op[o]) /\ op[o].on => <<"granted", op[o].sid>> \in past
  /\ \A o \in Procs : op[o].kind = "input" /\ op[o].pc = "store" /\ ~op[o].on /\ op[o].h \in nativeIn
        => <<"decided", op[o].sid>> \in past

(* A task that will report, or take back, what a capture takes. *)
Tells(p, h) ==
  \/ p.kind = "start" /\ p.pc = "flag" /\ p.h = h
  \/ p.kind = "start" /\ p.pc = "disable" /\ h \in p.set
  \/ p.kind = "input" /\ p.pc = "apply" /\ ~p.on /\ p.h = h
  \/ p.kind = "input" /\ p.pc = "store" /\ p.on /\ p.h = h
ToldInv ==
  \A s \in DOMAIN live : Usable(s) /\ live[s].handle \in nativeIn =>
     \/ live[s].input \/ <<"decided", s>> \in past \/ <<"retained", live[s].handle>> \in past
     \/ ~policy.paired \/ \E o \in Procs : Tells(op[o], live[s].handle)

(* Who may have input beside the last start, and who has it. *)
Spared(s) == <<"granted", s>> \in past \/ <<"carried", s>> \in past
Out(s) == /\ live[s].stopped
          /\ \/ \E o \in Procs : Silencing(op[o], s)
             \/ live[s].handle \notin nativeIn \ pendingRet /\ op[s].pc # "enable"
Wins(s) == live[s].input /\ ~Spared(s) /\ ~Out(s)
Displacing(s) == op[s].pc = "displace" /\ live[s].handle = op[s].h
SpareInv ==
  /\ \A s \in DOMAIN live : op[s].pc \in {"enable", "flag"} /\ live[s].input => Spared(s)
  /\ \A s \in DOMAIN live : live[s].released /\ ~live[s].stopped
       => <<"carried", s>> \in past \/ (op[s].pc = "done" /\ ~live[s].input)
  /\ \A o \in Procs : At(o, "reconfigure", "commit") /\ op[o].on /\ op[o].sid \in DOMAIN live
       => LET s == op[o].sid IN live[s].input \/ <<"carried", s>> \in past \/ live[s].stopped
WinInv == \A s, t \in DOMAIN live : s # t /\ Wins(s) /\ Wins(t) => Displacing(s) \/ Displacing(t)

(* The steps by which a capture comes to take input. *)
LEMMA FedStep ==
  ASSUME TypeInv, NEW o \in Procs, Step(o), NEW h \in nativeIn'
  PROVE  \/ h \in nativeIn /\ (native[h] = "running" => native'[h] = "running")
         \/ Enable(o) /\ h = op[o].h /\ native'[h] = "running" /\ op'[o].pc = "flag"
         \/ ApplyInput(o) /\ CarriesInput(o) /\ h = op[o].h /\ native'[h] = "running"
            /\ op'[o].pc = "commit" /\ op'[o].on
         \/ InputApply(o) /\ op[o].on /\ h = op[o].h /\ native'[h] = "running" /\ op'[o].pc = "store"
<1>p. PICK p : p = op[o]
      OBVIOUS
<1>t. /\ p \in OpRec /\ op \in [Procs -> OpRec] /\ nativeIn \subseteq Handles
      /\ native \in [Handles -> {"none", "running", "ended", "stopped"}]
      BY <1>p DEF TypeInv, DataInv, TasksInv
<1>d. p = [f \in DOMAIN p |-> p[f]]
      /\ DOMAIN p = {"kind", "pc", "ep", "sid", "h", "base", "rev", "own", "set", "on", "old", "then"}
      BY <1>t DEF OpRec
<1>s. \A x : Stopped(x) => (h \in nativeIn /\ native'[h] = native[h])
      BY <1>t DEF Stopped
<1>f. \A x : StopFails(x) => (h \in nativeIn /\ native'[h] = native[h])
      BY DEF StopFails
<1>u. UNCHANGED captures => h \in nativeIn /\ native'[h] = native[h]
      BY DEF captures
<1>r. \A s, x : Retires(s, x) => h \in nativeIn /\ native'[h] = native[h]
      BY <1>s, <1>u DEF Retires
<1>1. CASE Targets(o) \/ RetireOld(o) \/ SweepRetire(o)
      BY <1>1, <1>s, <1>f, <1>u, <1>r DEF Targets, RetireOld, SweepRetire
<1>2. CASE Discard(o)
  <2>1. Discarded(o)
        BY <1>2 DEF Discard
  <2>2. CASE Stranded(op[o].h)
        BY <2>2 DEF Stranded
  <2> QED BY <1>s, <2>1, <2>2 DEF Discarded
<1>3. CASE Silence(o)
  <2>1. CASE Stranded(op[o].h)
        BY <2>1 DEF Stranded
  <2> QED BY <1>3, <1>r, <2>1 DEF Silence
<1>4. CASE Backend(o)
  <2>1. nativeIn' = nativeIn
        BY <1>4 DEF Backend
  <2>2. native' = native \/ \E k \in {2 * o - 1, 2 * o} : native' = [native EXCEPT ![k] = "running"]
        BY <1>4 DEF Backend
  <2> QED BY <1>t, <2>1, <2>2
<1>5. CASE Enable(o)
  <2>0. native' = native
        BY <1>5 DEF Enable
  <2>1. CASE native[p.h] = "running" /\ SetInput(p.h, TRUE) /\ Go(o, "flag")
    <3>1. op'[o].pc = "flag"
          BY <1>p, <1>t, <1>d, <2>1 DEF Go
    <3>2. h \in nativeIn \/ h = p.h
          BY <2>1 DEF SetInput
    <3> QED BY <1>5, <1>p, <2>0, <2>1, <3>1, <3>2
  <2>2. CASE nativeIn' = nativeIn
        BY <2>0, <2>2
  <2> QED BY <1>p, <1>5, <2>1, <2>2 DEF Enable
<1>6. CASE ApplyInput(o)
  <2>0. native' = native
        BY <1>6 DEF ApplyInput
  <2>1. CASE CarriesInput(o) /\ native[p.h] = "running" /\ SetInput(p.h, TRUE)
             /\ op' = [op EXCEPT ![o].pc = "commit", ![o].on = TRUE]
    <3>1. op'[o].pc = "commit" /\ op'[o].on
          BY <1>p, <1>t, <1>d, <2>1
    <3>2. h \in nativeIn \/ h = p.h
          BY <2>1 DEF SetInput
    <3> QED BY <1>6, <1>p, <2>0, <2>1, <3>1, <3>2
  <2>2. CASE nativeIn' = nativeIn
        BY <2>0, <2>2
  <2> QED BY <1>p, <1>6, <2>1, <2>2 DEF ApplyInput
<1>7. CASE InputApply(o)
  <2>0. native' = native
        BY <1>7 DEF InputApply
  <2>1. CASE native[p.h] = "running" /\ SetInput(p.h, p.on) /\ Go(o, "store")
    <3>1. op'[o].pc = "store"
          BY <1>p, <1>t, <1>d, <2>1 DEF Go
    <3>2. h \in nativeIn \/ (h = p.h /\ p.on)
          BY <2>1 DEF SetInput
    <3> QED BY <1>7, <1>p, <2>0, <2>1, <3>1, <3>2
  <2>2. CASE nativeIn' = nativeIn
        BY <2>0, <2>2
  <2> QED BY <1>p, <1>7, <2>1, <2>2 DEF InputApply
<1>8. CASE DisableOthers(o)
      BY <1>8 DEF DisableOthers, SetInput
<1> QED BY <1>1, <1>2, <1>3, <1>4, <1>5, <1>6, <1>7, <1>8, <1>u, CaptureSteps

(* A task that begins feeds no capture. *)
LEMMA FedBegin ==
  ASSUME TypeInv,
         Begins \/ (\E o \in Procs \ Requests, s \in DOMAIN live, on \in BOOLEAN : InputCall(o, s, on))
  PROVE  \A h \in nativeIn' : h \in nativeIn /\ native'[h] = native[h]
<1>1. CASE UNCHANGED <<native, nativeIn>>
      BY <1>1
<1>2. CASE \E h \in Handles : CaptureEnds(h)
      BY <1>2 DEF CaptureEnds, TypeInv, DataInv
<1> QED BY <1>1, <1>2, BeginsKeep

(* What a step does to a session's capture, its input and its end. *)
Unmoved(s) == /\ s \in DOMAIN live /\ live'[s].handle = live[s].handle
              /\ live'[s].stopped = live[s].stopped
Published(o, s) ==
  /\ Commit(o) /\ Current(o) /\ op[o].h # 0 /\ s = op[o].sid /\ s \in DOMAIN live
  /\ live'[s].handle = op[o].h /\ live'[s].input = op[o].on
  /\ ~live[s].stopped /\ ~live'[s].stopped /\ ~live[s].released /\ ~live'[s].released
Buried(o, s) ==
  /\ s \in DOMAIN live /\ live'[s].handle = live[s].handle /\ live'[s].stopped /\ live'[s].released /\ ~live'[s].input
  /\ op'[o].kind = "force" /\ op'[o].pc = "silence" /\ op'[o].sid = s /\ op'[o].h = live[s].handle
Flags(o, s) ==
  \/ Unmoved(s) /\ live'[s].input = live[s].input /\ live'[s].released = live[s].released
  \/ /\ Register(o) /\ s = o /\ o \in Requests /\ MayRegister(o) /\ live'[s].handle = op[o].h
     /\ ~live'[s].input /\ ~live'[s].released /\ ~live'[s].stopped
  \/ /\ FlagEnabled(o) /\ s = o /\ Unmoved(s) /\ live[s].handle = op[o].h /\ live'[s].input
     /\ live'[s].released = live[s].released /\ op'[o].pc = "displace" /\ op'[o].h = op[o].h
  \/ /\ Displace(o) /\ Unmoved(s) /\ s \in Displaced(o) /\ ~live'[s].input
     /\ live'[s].released = live[s].released
  \/ Published(o, s)
  \/ /\ Commit(o) /\ Current(o) /\ s = op[o].sid /\ Unmoved(s) /\ ~live'[s].input /\ live'[s].released
     /\ ~live[s].stopped
  \/ /\ Silence(o) /\ s = op[o].sid /\ Unmoved(s) /\ live[s].handle = op[o].h /\ ~live'[s].released
     /\ live'[s].input = live[s].input /\ op[o].h \in pendingRet'
  \/ InputApply(o) /\ ~op[o].on /\ s = op[o].sid /\ ~live[s].released /\ Buried(o, s)
  \/ /\ InputStore(o) /\ s = op[o].sid /\ Unmoved(s) /\ Usable(s) /\ live[s].handle = op[o].h /\ LeaseCurrent(s)
     /\ live'[s].input = op[o].on /\ live'[s].released = live[s].released

(* What each step of a task does to each session (control.rs: live sessions). *)
LEMMA FlagSteps ==
  ASSUME TypeInv, NEW o \in Procs, Step(o), NEW s \in DOMAIN live'
  PROVE  Flags(o, s)
<1>p. PICK p : p = op[o]
      OBVIOUS
<1>t. /\ live \in [DOMAIN live -> Session] /\ p \in OpRec /\ op \in [Procs -> OpRec] /\ Shape(o, p)
      /\ DOMAIN live \subseteq Requests
      BY <1>p DEF TypeInv, DataInv, TasksInv
<1>d. p = [f \in DOMAIN p |-> p[f]]
      /\ DOMAIN p = {"kind", "pc", "ep", "sid", "h", "base", "rev", "own", "set", "on", "old", "then"}
      BY <1>t DEF OpRec
<1>0. s \in DOMAIN live /\ live'[s] = live[s] => Flags(o, s)
      BY DEF Flags, Unmoved
<1>1. CASE StartEnter(o) \/ SweepRemove(o) \/ Collect(o)
      BY <1>0, <1>1 DEF StartEnter, SweepRemove, Collect, Drop
<1>2. CASE Register(o)
  <2>1. p.kind = "start" /\ p.pc = "register"
        BY <1>p, <1>2, ActionPcs
  <2>2. o \in Requests
        BY <1>p, <2>1, TaskPlace DEF Running, AtRest
  <2>3. CASE MayRegister(o)
    <3>1. live' = [x \in DOMAIN live \cup {o} |-> IF x = o THEN NewSession(o) ELSE live[x]]
          BY <1>2, <2>3 DEF Register
    <3>2. CASE s = o
      <4>1. live'[s] = NewSession(o)
            BY <3>1, <3>2
      <4>2. /\ NewSession(o).handle = op[o].h /\ ~NewSession(o).input
            /\ ~NewSession(o).released /\ ~NewSession(o).stopped
            BY DEF NewSession, NewHandle
      <4> QED BY <1>2, <2>2, <2>3, <3>2, <4>1, <4>2 DEF Flags
    <3>3. CASE s # o
          BY <1>0, <3>1, <3>3
    <3> QED BY <3>2, <3>3
  <2>4. CASE ~MayRegister(o)
        BY <1>0, <1>2, <2>4 DEF Register
  <2> QED BY <2>3, <2>4
<1>3. CASE FlagEnabled(o)
  <2>1. CASE o \in DOMAIN live /\ live[o].handle = p.h
    <3>1. live' = [live EXCEPT ![o].input = TRUE] /\ Go(o, "displace")
          BY <1>p, <1>3, <2>1 DEF FlagEnabled
    <3>2. op'[o].pc = "displace" /\ op'[o].h = p.h
          BY <1>p, <1>t, <1>d, <3>1 DEF Go
    <3>3. CASE s = o
      <4>1. live'[s] = [live[s] EXCEPT !.input = TRUE] /\ s \in DOMAIN live
            BY <3>1, <3>3
      <4>2. live'[s].handle = live[s].handle /\ live'[s].stopped = live[s].stopped
            /\ live'[s].released = live[s].released /\ live'[s].input
            BY <1>t, <4>1 DEF Session
      <4> QED BY <1>p, <1>3, <2>1, <3>2, <3>3, <4>1, <4>2 DEF Flags, Unmoved
    <3>4. CASE s # o
          BY <1>0, <3>1, <3>4
    <3> QED BY <3>3, <3>4
  <2>2. CASE ~(o \in DOMAIN live /\ live[o].handle = p.h)
        BY <1>p, <1>0, <1>3, <2>2 DEF FlagEnabled
  <2> QED BY <2>1, <2>2
<1>4. CASE Displace(o)
  <2>1. s \in DOMAIN live /\ live'[s] = [live[s] EXCEPT !.input = @ /\ s \notin Displaced(o)]
        BY <1>4 DEF Displace
  <2>2. PICK b \in BOOLEAN : b = (live[s].input /\ s \notin Displaced(o))
        OBVIOUS
  <2>3. live'[s] = [live[s] EXCEPT !.input = b]
        BY <2>1, <2>2
  <2>4. /\ live'[s].handle = live[s].handle /\ live'[s].stopped = live[s].stopped
        /\ live'[s].released = live[s].released /\ live'[s].input = b
        BY <1>t, <2>1, <2>3 DEF Session
  <2>5. live[s].input \in BOOLEAN
        BY <1>t, <2>1 DEF Session
  <2> QED BY <1>4, <2>1, <2>2, <2>4, <2>5 DEF Flags, Unmoved
<1>5. CASE Commit(o)
  <2>1. CASE Current(o) /\ p.h # 0
    <3>1. live' = [live EXCEPT ![p.sid].handle = p.h, ![p.sid].owner = o, ![p.sid].input = p.on]
          BY <1>p, <1>5, <2>1 DEF Commit
    <3>2. CASE s = p.sid
      <4>1. live'[s] = [live[s] EXCEPT !.handle = p.h, !.owner = o, !.input = p.on] /\ s \in DOMAIN live
            BY <1>t, <3>1, <3>2
      <4>2. /\ live'[s].handle = p.h /\ live'[s].input = p.on
            /\ live'[s].released = live[s].released /\ live'[s].stopped = live[s].stopped
            BY <1>t, <4>1 DEF Session
      <4>3. ~live[s].stopped /\ ~live[s].released
            BY <1>p, <2>1, <3>2 DEF Current, Accepting
      <4> QED BY <1>p, <1>5, <2>1, <3>2, <4>1, <4>2, <4>3 DEF Flags, Published
    <3>3. CASE s # p.sid
          BY <1>0, <1>t, <3>1, <3>3
    <3> QED BY <3>2, <3>3
  <2>2. CASE Current(o) /\ p.h = 0
    <3>1. live' = [live EXCEPT ![p.sid].input = FALSE, ![p.sid].released = TRUE, ![p.sid].rev = @ + 1]
          BY <1>p, <1>5, <2>2 DEF Commit
    <3>2. CASE s = p.sid
      <4>1. live'[s] = [live[s] EXCEPT !.input = FALSE, !.released = TRUE, !.rev = @ + 1] /\ s \in DOMAIN live
            BY <1>t, <3>1, <3>2
      <4>2. /\ live'[s].handle = live[s].handle /\ ~live'[s].input
            /\ live'[s].released /\ live'[s].stopped = live[s].stopped
            BY <1>t, <4>1 DEF Session
      <4>3. ~live[s].stopped
            BY <1>p, <2>2, <3>2 DEF Current, Accepting
      <4> QED BY <1>p, <1>5, <2>2, <3>2, <4>1, <4>2, <4>3 DEF Flags, Unmoved
    <3>3. CASE s # p.sid
          BY <1>0, <1>t, <3>1, <3>3
    <3> QED BY <3>2, <3>3
  <2>3. CASE ~Current(o)
        BY <1>0, <1>5, <2>3 DEF Commit
  <2> QED BY <2>1, <2>2, <2>3
<1>6. CASE Silence(o)
  <2>1. CASE live' = live
        BY <1>0, <2>1
  <2>2. CASE /\ pendingRet' = pendingRet \cup {p.h} /\ p.sid \in DOMAIN live /\ live[p.sid].handle = p.h
             /\ live' = [live EXCEPT ![p.sid].released = FALSE]
    <3>1. CASE s = p.sid
      <4>1. live'[s] = [live[s] EXCEPT !.released = FALSE] /\ s \in DOMAIN live
            BY <2>2, <3>1
      <4>2. live'[s].handle = live[s].handle /\ live'[s].stopped = live[s].stopped
            /\ ~live'[s].released /\ live'[s].input = live[s].input
            BY <1>t, <4>1 DEF Session
      <4> QED BY <1>p, <1>6, <2>2, <3>1, <4>1, <4>2 DEF Flags, Unmoved
    <3>2. CASE s # p.sid
          BY <1>0, <2>2, <3>2
    <3> QED BY <3>1, <3>2
  <2> QED BY <1>p, <1>6, <2>1, <2>2 DEF Silence, Stranded
<1>7. CASE InputApply(o)
  <2>1. CASE live' = live
        BY <1>0, <2>1
  <2>2. CASE ~p.on /\ p.sid \in DOMAIN live /\ ~live[p.sid].released /\ Tombstone(o, p.sid)
    <3>0. o \in Procs \ Requests
          BY <1>p, <1>t, <1>7, ActionPcs DEF Shape
    <3>1. CASE s = p.sid
      <4>1. live'[s] = [live[s] EXCEPT !.stopped = TRUE, !.rev = @ + 1, !.input = FALSE, !.released = TRUE]
            BY <2>2, <3>1 DEF Tombstone
      <4>2. /\ live'[s].handle = live[s].handle /\ live'[s].stopped /\ live'[s].released /\ ~live'[s].input
            BY <1>t, <2>2, <3>1, <4>1 DEF Session
      <4>3. op'[o].kind = "force" /\ op'[o].pc = "silence" /\ op'[o].sid = s /\ op'[o].h = live[s].handle
            BY <2>2, <3>0, <3>1, TombstoneActs
      <4> QED BY <1>p, <1>7, <2>2, <3>1, <4>2, <4>3 DEF Flags, Buried
    <3>2. CASE s # p.sid
          BY <1>0, <2>2, <3>2 DEF Tombstone
    <3> QED BY <3>1, <3>2
  <2> QED BY <1>p, <1>7, <2>1, <2>2 DEF InputApply
<1>8. CASE InputStore(o)
  <2>1. CASE live' = live
        BY <1>0, <2>1
  <2>2. CASE Usable(p.sid) /\ live[p.sid].handle = p.h /\ LeaseCurrent(p.sid) /\ live' = [live EXCEPT ![p.sid].input = p.on]
    <3>1. CASE s = p.sid
      <4>1. live'[s] = [live[s] EXCEPT !.input = p.on] /\ s \in DOMAIN live
            BY <2>2, <3>1
      <4>2. live'[s].handle = live[s].handle /\ live'[s].stopped = live[s].stopped
            /\ live'[s].released = live[s].released /\ live'[s].input = p.on
            BY <1>t, <4>1 DEF Session
      <4> QED BY <1>p, <1>8, <2>2, <3>1, <4>1, <4>2 DEF Flags, Unmoved
    <3>2. CASE s # p.sid
          BY <1>0, <2>2, <3>2
    <3> QED BY <3>1, <3>2
  <2> QED BY <1>p, <1>8, <2>1, <2>2 DEF InputStore
<1>9. CASE live' = live
      BY <1>0, <1>9
<1> QED BY <1>1, <1>2, <1>3, <1>4, <1>5, <1>6, <1>7, <1>8, <1>9, LiveSteps

(* What a task that begins does to a session. *)
FlagsBegun(s) ==
  /\ s \in DOMAIN live /\ live'[s].handle = live[s].handle
  /\ \/ /\ live'[s].stopped = live[s].stopped /\ live'[s].released = live[s].released
        /\ live'[s].input = live[s].input
     \/ \E o \in Procs \ Requests : ForceStop(o, s) /\ ~live[s].released /\ Buried(o, s)
     \/ \E o \in Procs \ Requests, on \in BOOLEAN :
          /\ InputCall(o, s, on) /\ live'[s].stopped = live[s].stopped /\ live'[s].released = live[s].released
          /\ live'[s].input = (live[s].input /\ on)

(* What a call that begins does to each session. *)
LEMMA FlagBegins ==
  ASSUME TypeInv,
         Begins \/ (\E o \in Procs \ Requests, s \in DOMAIN live, on \in BOOLEAN : InputCall(o, s, on)),
         NEW s \in DOMAIN live'
  PROVE  FlagsBegun(s)
<1>t. live \in [DOMAIN live -> Session]
      BY DEF TypeInv, DataInv
<1>k. s \in DOMAIN live /\ live'[s].handle = live[s].handle
      BY BeginsKeepSessions
<1>0. live'[s].stopped = live[s].stopped /\ live'[s].released = live[s].released /\ live'[s].input = live[s].input
        => FlagsBegun(s)
      BY <1>k DEF FlagsBegun
<1>1. ASSUME NEW o \in Requests, NEW e \in Endpoints, StartBegin(o, e) PROVE FlagsBegun(s)
      BY <1>0, <1>1 DEF StartBegin
<1>2. ASSUME NEW o \in Requests, NEW x \in DOMAIN live, NEW moved \in BOOLEAN, ReconfigureBegin(o, x, moved)
      PROVE  FlagsBegun(s)
      BY <1>0, <1>2, <1>t, <1>k DEF ReconfigureBegin, Session
<1>3. ASSUME NEW o \in Procs \ Requests, NEW x \in DOMAIN live, StopStream(o, x) PROVE FlagsBegun(s)
      BY <1>0, <1>k, <1>3 DEF StopStream, Drop
<1>4. ASSUME NEW o \in Procs \ Requests, NEW x \in DOMAIN live, ForceStop(o, x) PROVE FlagsBegun(s)
  <2>1. CASE s = x
    <3>1. live'[s] = [live[s] EXCEPT !.stopped = TRUE, !.rev = @ + 1, !.input = FALSE, !.released = TRUE]
          BY <1>4, <2>1 DEF ForceStop, Tombstone
    <3>2. live'[s].stopped /\ live'[s].released /\ ~live'[s].input
          BY <1>t, <1>k, <3>1 DEF Session
    <3>3. op'[o].kind = "force" /\ op'[o].pc = "silence" /\ op'[o].sid = s /\ op'[o].h = live[s].handle
          BY <1>4, <2>1, TombstoneActs DEF ForceStop
    <3>4. ~live[s].released
          BY <1>4, <2>1 DEF ForceStop
    <3> QED BY <1>4, <1>k, <2>1, <3>2, <3>3, <3>4 DEF FlagsBegun, Buried
  <2>2. CASE s # x
        BY <1>0, <1>4, <2>2 DEF ForceStop, Tombstone
  <2> QED BY <2>1, <2>2
<1>5. ASSUME NEW o \in Procs \ Requests, NEW x \in DOMAIN live, Sweep(o, x) PROVE FlagsBegun(s)
      BY <1>5, <1>0 DEF Sweep
<1>6. ASSUME NEW o \in Procs \ Requests, Revoke(o) PROVE FlagsBegun(s)
      BY <1>6, <1>0 DEF Revoke
<1>7. ASSUME NEW h \in Handles, CaptureEnds(h) PROVE FlagsBegun(s)
      BY <1>7, <1>0 DEF CaptureEnds
<1>8. ASSUME NEW o \in Procs \ Requests, NEW x \in DOMAIN live, NEW on \in BOOLEAN, InputCall(o, x, on)
      PROVE FlagsBegun(s)
  <2>1. PICK b \in BOOLEAN : b = (live[x].input /\ on)
        OBVIOUS
  <2>2. live' = [live EXCEPT ![x].input = b]
        BY <1>8, <2>1 DEF InputCall
  <2>3. CASE s = x
    <3>1. live'[s] = [live[s] EXCEPT !.input = b]
          BY <2>2, <2>3
    <3>2. live'[s].stopped = live[s].stopped /\ live'[s].released = live[s].released /\ live'[s].input = b
          BY <1>t, <1>k, <3>1 DEF Session
    <3> QED BY <1>8, <1>k, <2>1, <2>3, <3>2 DEF FlagsBegun
  <2>4. CASE s # x
        BY <1>0, <2>2, <2>4
  <2> QED BY <2>3, <2>4
<1> QED BY <1>1, <1>2, <1>3, <1>4, <1>5, <1>6, <1>7, <1>8 DEF Begins

(* A denial that cannot be carried out becomes a tombstone (control.rs: force_stop_session). *)
LEMMA BuriesHow ==
  ASSUME TypeInv, NEW o \in Procs, Buries(o)
  PROVE  /\ o \in Procs \ Requests /\ op[o].kind = "input" /\ op[o].pc = "apply"
         /\ op'[o].kind = "force" /\ op'[o].pc = "silence" /\ op'[o].sid = op[o].sid
         /\ op'[o].h = live[op[o].sid].handle
<1>1. op[o].kind = "input" /\ op[o].pc = "apply" /\ op[o].sid \in DOMAIN live /\ Tombstone(o, op[o].sid)
      BY DEF Buries, InputApply, At
<1>2. o \in Procs \ Requests
      BY <1>1 DEF TypeInv, TasksInv, Shape
<1> QED BY <1>1, <1>2, TombstoneActs

(* A decision at work was at work, for the same session and capture. *)
LEMMA DecidingBefore ==
  ASSUME TypeInv, NEW o \in Procs, Step(o), NEW q \in Procs, Deciding(op'[q])
  PROVE  /\ Deciding(op[q]) /\ op'[q].sid = op[q].sid /\ op'[q].h = op[q].h /\ op'[q].on = op[q].on
         /\ op'[q].pc = op[q].pc \/ (q = o /\ InputApply(o) /\ op[q].pc = "apply" /\ op'[q].pc = "store")
         /\ op[q].sid \in Requests /\ op[q].h \in Handles /\ q \notin Requests
<1>0. Deciding(op[q]) => op[q].sid \in Requests /\ op[q].h \in Handles /\ q \notin Requests
      BY DEF TypeInv, TasksInv, Shape, CallShape, Calls, Deciding, Running, AtRest
<1>1. CASE q # o
      BY <1>0, <1>1, StepActs DEF Acts
<1>2. CASE q = o
  <2>1. InputApply(o) /\ op[o].pc = "apply" /\ op[o].kind = "input" /\ op'[o].pc = "store"
    <3>1. op[o].kind = "input"
          BY <1>2, StepKeeps, TombstoneActs DEF Keeps, Ends, Buries, Deciding, InputApply, At
    <3>2. op[o].pc \in {"apply", "store", "end"}
          BY <3>1, StepActs DEF TypeInv, TasksInv, Shape, CallShape, Calls, Acts
    <3> QED BY <1>2, <3>1, <3>2, StepMoves DEF Moves, Deciding
  <2>2. ~Buries(o) /\ ~End(o)
        BY <1>2, <2>1, BuriesHow DEF End
  <2>3. op'[o].h = op[o].h /\ op'[o].on = op[o].on /\ op'[o].sid = op[o].sid
    <3>1. op' = [op EXCEPT ![o].pc = "store"] \/ op' = [op EXCEPT ![o].pc = "end"]
          BY <2>1, <2>2 DEF InputApply, Buries, Go
    <3> QED BY <3>1 DEF TypeInv, TasksInv, OpRec
  <2> QED BY <1>0, <1>2, <2>1, <2>3 DEF Deciding
<1> QED BY <1>1, <1>2

(* A session is being force stopped since its tombstone was published. *)
LEMMA SilencingBefore ==
  ASSUME TypeInv, NEW o \in Procs, Step(o), NEW q \in Procs, NEW s, Silencing(op'[q], s)
  PROVE  \/ Silencing(op[q], s) /\ op'[q] = op[q]
         \/ q = o /\ Buries(o) /\ op[o].sid = s
<1>1. CASE q # o
      BY <1>1, StepActs DEF Acts
<1>2. CASE q = o
  <2>1. op[o].kind = "force" => op[o].pc \in {"silence", "cleanup", "cleaning", "end"}
                                /\ (op[o].pc \in {"cleanup", "cleaning"} => op[o].then = "end")
        BY StepActs DEF TypeInv, TasksInv, Shape, CallShape, Calls, Acts, Running, AtRest
  <2>2. op[o].kind # "force"
        BY <1>2, <2>1, StepMoves DEF Silencing, Moves
  <2>3. Buries(o)
        BY <1>2, <2>2, StepKeeps DEF Keeps, Ends, Silencing
  <2>4. op[o].sid = s
        BY <1>2, <2>3, BuriesHow DEF Silencing
  <2> QED BY <1>2, <2>3, <2>4
<1> QED BY <1>1, <1>2

(* A force stop goes on until the capture has been silenced (control.rs: force_stop_session). *)
LEMMA SilencingStays ==
  ASSUME TypeInv, NEW o \in Procs, Step(o), NEW q \in Procs, NEW s, Silencing(op[q], s)
  PROVE  Silencing(op'[q], s) \/ (q = o /\ Silence(o) /\ op[o].sid = s)
<1>1. CASE q # o
      BY <1>1, StepActs DEF Acts
<1>2. CASE q = o
      BY <1>2, StepMoves DEF Moves, Silencing
<1> QED BY <1>1, <1>2

(* The task that begins, and what it begins as. *)
BegunAs(q) ==
  \/ op'[q] = op[q]
  \/ op[q].pc = "idle" /\ q \in Requests /\ op'[q].kind \in {"start", "reconfigure"} /\ op'[q].pc = "claim"
  \/ op[q].pc = "idle" /\ q \notin Requests /\ op'[q].kind \in {"stop", "revoke", "sweep"}
  \/ \E s \in DOMAIN live : /\ op[q].pc = "idle" /\ q \notin Requests /\ ForceStop(q, s) /\ Buried(q, s)
  \/ \E s \in DOMAIN live, on \in BOOLEAN :
       /\ op[q].pc = "idle" /\ q \notin Requests /\ InputCall(q, s, on) /\ op'[q].kind = "input" /\ op'[q].sid = s
       /\ op'[q].h = live[s].handle /\ op'[q].on = on
       /\ op'[q].pc = IF retired[s] = live[s].handle \/ ~LeaseCurrent(s) THEN "end" ELSE "apply"

(* Only one task begins, and as what its call makes it. *)
LEMMA TaskBegins ==
  ASSUME TypeInv,
         Begins \/ (\E o \in Procs \ Requests, s \in DOMAIN live, on \in BOOLEAN : InputCall(o, s, on)),
         NEW q \in Procs
  PROVE  BegunAs(q)
<1>r. Requests \subseteq Procs /\ live \in [DOMAIN live -> Session] /\ DOMAIN live \subseteq Requests
      BY RequestsAreProcs DEF TypeInv, DataInv
<1>s. \A o \in Procs : Starts(o) /\ q # o => op'[q] = op[q]
      BY DEF Starts
<1>1. ASSUME NEW o \in Requests, NEW e \in Endpoints, StartBegin(o, e) PROVE BegunAs(q)
  <2>1. Starts(o) /\ op'[o].kind = "start" /\ op'[o].pc = "claim" /\ op[o].pc = "idle"
        BY <1>1, StartBeginStarts, BegunWith DEF Starts
  <2> QED BY <1>r, <1>s, <2>1 DEF BegunAs
<1>2. ASSUME NEW o \in Requests, NEW s \in DOMAIN live, NEW moved \in BOOLEAN, ReconfigureBegin(o, s, moved)
      PROVE BegunAs(q)
  <2>1. Starts(o) /\ op'[o].kind = "reconfigure" /\ op'[o].pc = "claim" /\ op[o].pc = "idle"
        BY <1>2, ReconfigureBeginStarts, BegunWith DEF Starts
  <2> QED BY <1>r, <1>s, <2>1 DEF BegunAs
<1>3. ASSUME NEW o \in Procs \ Requests, NEW s \in DOMAIN live, StopStream(o, s) \/ Sweep(o, s) PROVE BegunAs(q)
  <2>1. Starts(o) /\ op'[o].kind \in {"stop", "sweep"} /\ op[o].pc = "idle"
        BY <1>3, StopStreamStarts, SweepStarts, BegunWith DEF Starts
  <2> QED BY <1>s, <2>1 DEF BegunAs
<1>4. ASSUME NEW o \in Procs \ Requests, NEW s \in DOMAIN live, ForceStop(o, s) PROVE BegunAs(q)
  <2>1. Starts(o) /\ op[o].pc = "idle"
        BY <1>4, ForceStopStarts DEF Starts
  <2>2. live' = [live EXCEPT ![s] = [live[s] EXCEPT !.stopped = TRUE, !.rev = @ + 1, !.input = FALSE, !.released = TRUE]]
        BY <1>4, <1>r DEF ForceStop, Tombstone
  <2>3. /\ live'[s].handle = live[s].handle /\ live'[s].stopped /\ live'[s].released /\ ~live'[s].input
        BY <1>r, <2>2 DEF Session
  <2>4. op'[o].kind = "force" /\ op'[o].pc = "silence" /\ op'[o].sid = s /\ op'[o].h = live[s].handle
        BY <1>4, TombstoneActs DEF ForceStop
  <2> QED BY <1>4, <1>s, <2>1, <2>3, <2>4 DEF BegunAs, Buried
<1>5. ASSUME NEW o \in Procs \ Requests, Revoke(o) PROVE BegunAs(q)
  <2>1. Starts(o) /\ op'[o].kind = "revoke" /\ op[o].pc = "idle"
        BY <1>5, RevokeStarts, BegunWith DEF Starts
  <2> QED BY <1>s, <2>1 DEF BegunAs
<1>6. ASSUME NEW h \in Handles, CaptureEnds(h) PROVE BegunAs(q)
      BY <1>6 DEF CaptureEnds, BegunAs
<1>7. ASSUME NEW o \in Procs \ Requests, NEW s \in DOMAIN live, NEW on \in BOOLEAN, InputCall(o, s, on)
      PROVE BegunAs(q)
  <2>1. /\ Starts(o) /\ op[o].pc = "idle" /\ op'[o].kind = "input" /\ op'[o].sid = s /\ op'[o].h = live[s].handle
        /\ op'[o].on = on
        /\ op'[o].pc = IF retired[s] = live[s].handle \/ ~LeaseCurrent(s) THEN "end" ELSE "apply"
        BY <1>7, InputCallStarts, BegunWith DEF Starts
  <2> QED BY <1>7, <1>s, <2>1 DEF BegunAs
<1> QED BY <1>1, <1>2, <1>3, <1>4, <1>5, <1>6, <1>7 DEF Begins

(* A task is a start from its beginning on; the captures tasks make are their own. *)
LEMMA StartsBefore ==
  ASSUME TypeInv, NEW o \in Procs, Step(o), NEW q \in Procs, op'[q].kind = "start"
  PROVE  op[q].kind = "start"
<1>1. CASE q # o
      BY <1>1, StepActs DEF Acts
<1>2. CASE q = o
      BY <1>2, StepKeeps, BuriesHow DEF Keeps, Ends
<1> QED BY <1>1, <1>2

(* A task makes the captures that are numbered after it. *)
LEMMA MakingOwn ==
  ASSUME TypeInv, NEW q \in Procs, Making(op[q])
  PROVE  /\ q \in Requests /\ op[q].h = OwnHandle(q, op[q]) /\ op[q].h \in Handles
         /\ op[q].kind = "start" => op[q].h = 2 * q
<1>t. op[q] \in OpRec /\ Shape(q, op[q]) /\ DataInv
      BY DEF TypeInv, TasksInv
<1>1. q \in Requests /\ Running(op[q])
      BY <1>t DEF Making, Shape, Calls, Running, AtRest
<1>2. op[q].h = OwnHandle(q, op[q]) /\ (op[q].kind = "start" => op[q].h = 2 * q)
      BY <1>t, <1>1 DEF Making, Shape, StartShape, ReconfigureShape, OwnHandle
<1> QED BY <1>t, <1>1, <1>2, OwnHandles

(* No two tasks make one capture. *)
LEMMA MakingApart ==
  ASSUME TypeInv, NEW q \in Procs, NEW r \in Procs, Making(op[q]), Making(op[r]), op[q].h = op[r].h
  PROVE  q = r
<1>1. /\ q \in Requests /\ r \in Requests /\ OwnHandle(q, op[q]) = OwnHandle(r, op[r])
      BY MakingOwn
<1>2. q \in Nat /\ r \in Nat
      BY <1>1 DEF Requests, TypeInv, DataInv
<1> QED BY <1>1, <1>2 DEF OwnHandle

(* A task that begins makes no capture yet. *)
LEMMA MakingBegun ==
  ASSUME TypeInv,
         Begins \/ (\E o \in Procs \ Requests, s \in DOMAIN live, on \in BOOLEAN : InputCall(o, s, on)),
         NEW q \in Procs, Making(op'[q])
  PROVE  op'[q] = op[q]
BY TaskBegins DEF BegunAs, Making, Buried

(* A session gets another capture only from the task that made it, which lets go of it. *)
HandleMoves(o, s) ==
  \/ s \in DOMAIN live /\ live'[s].handle = live[s].handle
  \/ /\ live'[s].handle = op[o].h /\ Making(op[o]) /\ ~Making(op'[o]) /\ o \in Requests
     /\ \/ Register(o) /\ op[o].kind = "start" /\ s = o
        \/ Commit(o) /\ op[o].kind = "reconfigure" /\ s = op[o].sid /\ s \in DOMAIN live

(* Sessions get captures from the registration and from the publication of a replacement. *)
LEMMA HandleSteps ==
  ASSUME TypeInv, NEW o \in Procs, Step(o), NEW s \in DOMAIN live'
  PROVE  HandleMoves(o, s)
<1>t. op[o] \in OpRec /\ Shape(o, op[o]) /\ DataInv
      BY DEF TypeInv, TasksInv
<1>1. CASE Register(o) /\ MayRegister(o) /\ s = o /\ o \in Requests /\ live'[s].handle = op[o].h
  <2>1. op[o].kind = "start" /\ op[o].pc = "register"
        BY <1>1, ActionPcs
  <2>2. op[o].h = 2 * o /\ op[o].h # 0
        BY <1>t, <1>1, <2>1 DEF Shape, StartShape, Running, AtRest, Requests, DataInv
  <2>3. op'[o].pc \in {"enable", "end"}
    <3>1. op'[o].pc = IF op[o].on THEN "enable" ELSE "end"
          BY <1>t, <1>1 DEF Register, Go, TypeInv, TasksInv, OpRec
    <3> QED BY <3>1
  <2> QED BY <1>1, <2>1, <2>2, <2>3 DEF Making, HandleMoves
<1>2. CASE Published(o, s)
  <2>1. op[o].kind = "reconfigure" /\ op[o].pc = "commit" /\ Commit(o)
        BY <1>2, ActionPcs DEF Published
  <2>2. o \in Requests
        BY <1>t, <2>1 DEF Shape, Calls, Running, AtRest
  <2>3. op'[o].pc = "end"
        BY <1>t, <1>2 DEF Published, Commit, Go, TypeInv, TasksInv, OpRec
  <2> QED BY <1>2, <2>1, <2>2, <2>3 DEF Published, Making, HandleMoves
<1> QED BY <1>1, <1>2, FlagSteps DEF Flags, Unmoved, Buried, HandleMoves

(* What a task makes is new, or was being made. *)
LEMMA MakingNew ==
  ASSUME TypeInv, BornInv, NEW o \in Procs, Step(o), NEW q \in Procs, Making(op'[q])
  PROVE  \/ Making(op[q]) /\ op'[q].h = op[q].h
         \/ q = o /\ op'[q].h \in Handles /\ native[op'[q].h] = "none"
<1>1. CASE q # o
      BY <1>1, StepActs DEF Acts
<1>2. CASE q = o
  <2>1. CASE Backend(o)
    <3>1. PICK p : p = op[o]
          OBVIOUS
    <3>2. p \in OpRec /\ Shape(o, p) /\ DataInv /\ p.pc = "backend" /\ op \in [Procs -> OpRec]
          BY <2>1, <3>1, ActionPcs DEF TypeInv, TasksInv
    <3>3. o \in Requests
          BY <3>2 DEF Shape, Running, AtRest, Calls, CallShape, InTargets
    <3>4. Running(p) /\ BeforeBackend(p) /\ OwnHandle(o, p) \in Handles
          BY <3>2, <3>3, OwnHandles DEF Running, AtRest, BeforeBackend
    <3>5. native[OwnHandle(o, p)] = "none"
          BY <3>1, <3>3, <3>4 DEF BornInv
    <3>6. op'[o].h \in {OwnHandle(o, p), 0} \/ op'[o].pc = "cleanup"
          BY <2>1, <3>1, <3>2 DEF Backend, OwnHandle, GoCleanup, OpRec
    <3>7. op'[o].h = OwnHandle(o, p)
          BY <1>2, <3>6 DEF Making
    <3> QED BY <1>2, <3>4, <3>5, <3>7
  <2> QED BY <1>2, <2>1, MakingComes
<1> QED BY <1>1, <1>2

(* A step of a task leaves each capture with one session, or one task. *)
LEMMA HandleStep ==
  ASSUME TypeInv, BornInv, HandleInv, NEW o \in Procs, Step(o)
  PROVE  HandleInv'
<1>m. \A s \in DOMAIN live' : HandleMoves(o, s)
      BY HandleSteps
<1>n. \A h \in Handles : native[h] = "none" =>
        (\A s \in DOMAIN live : live[s].handle # h) /\ \A q \in Procs : ~Names(op[q], h)
      BY DEF BornInv
<1>o. Making(op[o]) => o \in Requests /\ op[o].h = OwnHandle(o, op[o]) /\ op[o].h \in Handles
      BY MakingOwn
<1>q. \A q \in Procs : Making(op[q]) /\ Making(op[o]) /\ op[q].h = op[o].h => q = o
      BY MakingApart
<1>i. ~(Register(o) /\ Commit(o))
      BY ActionPcs
<1>1. \A s, t \in DOMAIN live' : live'[s].handle = live'[t].handle => s = t
  <2>1. ASSUME NEW s \in DOMAIN live', NEW t \in DOMAIN live', live'[s].handle = live'[t].handle PROVE s = t
    <3>1. CASE s \in DOMAIN live /\ live'[s].handle = live[s].handle /\ t \in DOMAIN live /\ live'[t].handle = live[t].handle
          BY <2>1, <3>1 DEF HandleInv
    <3>2. CASE live'[s].handle = op[o].h /\ Making(op[o]) /\ t \in DOMAIN live /\ live'[t].handle = live[t].handle
          BY <2>1, <3>2 DEF HandleInv
    <3>3. CASE live'[t].handle = op[o].h /\ Making(op[o]) /\ s \in DOMAIN live /\ live'[s].handle = live[s].handle
          BY <2>1, <3>3 DEF HandleInv
    <3>4. CASE (Register(o) /\ s = o /\ t = o) \/ (Commit(o) /\ s = op[o].sid /\ t = op[o].sid)
          BY <3>4
    <3> QED BY <1>m, <1>i, <3>1, <3>2, <3>3, <3>4 DEF HandleMoves
  <2> QED BY <2>1
<1>2. \A s \in DOMAIN live', q \in Procs : Making(op'[q]) => live'[s].handle # op'[q].h
  <2>1. ASSUME NEW s \in DOMAIN live', NEW q \in Procs, Making(op'[q]) PROVE live'[s].handle # op'[q].h
    <3>1. CASE s \in DOMAIN live /\ live'[s].handle = live[s].handle
      <4>1. CASE Making(op[q]) /\ op'[q].h = op[q].h
            BY <3>1, <4>1 DEF HandleInv
      <4>2. CASE op'[q].h \in Handles /\ native[op'[q].h] = "none"
            BY <1>n, <3>1, <4>2
      <4> QED BY <2>1, <4>1, <4>2, MakingNew
    <3>2. CASE live'[s].handle = op[o].h /\ Making(op[o]) /\ ~Making(op'[o])
      <4>1. q # o
            BY <2>1, <3>2
      <4>2. op'[q] = op[q]
            BY <4>1, StepActs DEF Acts
      <4> QED BY <1>q, <2>1, <3>2, <4>1, <4>2
    <3> QED BY <1>m, <3>1, <3>2 DEF HandleMoves
  <2> QED BY <2>1
<1>3. \A s \in DOMAIN live', q \in Requests : op'[q].kind = "start" /\ live'[s].handle = 2 * q => s = q
  <2>1. ASSUME NEW s \in DOMAIN live', NEW q \in Requests, op'[q].kind = "start", live'[s].handle = 2 * q PROVE s = q
    <3>0. q \in Procs /\ op[q].kind = "start"
          BY <2>1, StartsBefore, RequestsAreProcs DEF TypeInv
    <3>1. CASE s \in DOMAIN live /\ live'[s].handle = live[s].handle
          BY <2>1, <3>0, <3>1 DEF HandleInv
    <3>2. CASE live'[s].handle = op[o].h /\ Making(op[o]) /\ o \in Requests
      <4>1. OwnHandle(o, op[o]) = 2 * q
            BY <1>o, <2>1, <3>2
      <4>2. o \in Nat /\ q \in Nat
            BY <3>2 DEF TypeInv, DataInv, Requests
      <4>3. o = q
            BY <4>1, <4>2 DEF OwnHandle
      <4>4. op[o].kind # "reconfigure"
            BY <3>0, <4>3
      <4>5. (s \in DOMAIN live /\ live'[s].handle = live[s].handle) \/ s = o
            BY <1>m, <4>4 DEF HandleMoves
      <4> QED BY <3>1, <4>3, <4>5
    <3> QED BY <1>m, <3>1, <3>2 DEF HandleMoves
  <2> QED BY <2>1
<1>4. \A s \in DOMAIN live', q \in Procs : Deciding(op'[q]) /\ live'[s].handle = op'[q].h => s = op'[q].sid
  <2>1. ASSUME NEW s \in DOMAIN live', NEW q \in Procs, Deciding(op'[q]), live'[s].handle = op'[q].h PROVE s = op'[q].sid
    <3>1. Deciding(op[q]) /\ op'[q].sid = op[q].sid /\ op'[q].h = op[q].h
          BY <2>1, DecidingBefore
    <3>2. CASE s \in DOMAIN live /\ live'[s].handle = live[s].handle
          BY <2>1, <3>1, <3>2 DEF HandleInv
    <3>3. CASE live'[s].handle = op[o].h /\ Making(op[o])
          BY <2>1, <3>1, <3>3 DEF HandleInv
    <3> QED BY <1>m, <3>2, <3>3 DEF HandleMoves
  <2> QED BY <2>1
<1>5. \A r, q \in Procs : Deciding(op'[r]) /\ Making(op'[q]) => op'[q].h # op'[r].h
  <2>1. ASSUME NEW r \in Procs, NEW q \in Procs, Deciding(op'[r]), Making(op'[q]) PROVE op'[q].h # op'[r].h
    <3>1. Deciding(op[r]) /\ op'[r].h = op[r].h
          BY <2>1, DecidingBefore
    <3>2. CASE Making(op[q]) /\ op'[q].h = op[q].h
          BY <3>1, <3>2 DEF HandleInv
    <3>3. CASE op'[q].h \in Handles /\ native[op'[q].h] = "none"
      <4>1. Names(op[r], op[r].h)
            BY <3>1 DEF Names, Deciding, Running, AtRest
      <4> QED BY <1>n, <3>1, <3>3, <4>1
    <3> QED BY <2>1, <3>2, <3>3, MakingNew
  <2> QED BY <2>1
<1>6. \A r \in Procs, q \in Requests : Deciding(op'[r]) /\ op'[q].kind = "start" /\ op'[r].h = 2 * q => op'[r].sid = q
  <2>1. ASSUME NEW r \in Procs, NEW q \in Requests, Deciding(op'[r]), op'[q].kind = "start", op'[r].h = 2 * q
        PROVE  op'[r].sid = q
    <3>1. Deciding(op[r]) /\ op'[r].h = op[r].h /\ op'[r].sid = op[r].sid
          BY <2>1, DecidingBefore
    <3>2. q \in Procs /\ op[q].kind = "start"
          BY <2>1, StartsBefore, RequestsAreProcs DEF TypeInv
    <3> QED BY <2>1, <3>1, <3>2 DEF HandleInv
  <2> QED BY <2>1
<1> QED BY <1>1, <1>2, <1>3, <1>4, <1>5, <1>6 DEF HandleInv

(* A call that begins leaves each capture with one session, or one task. *)
LEMMA HandleBegins ==
  ASSUME TypeInv, BornInv, HandleInv,
         Begins \/ (\E o \in Procs \ Requests, s \in DOMAIN live, on \in BOOLEAN : InputCall(o, s, on))
  PROVE  HandleInv'
<1>m. \A s \in DOMAIN live' : s \in DOMAIN live /\ live'[s].handle = live[s].handle
      BY BeginsKeepSessions
<1>k. \A q \in Procs : Making(op'[q]) => op'[q] = op[q]
      BY MakingBegun
<1>r. Requests \subseteq Procs /\ \A q \in Requests : 2 * q \in Handles
      BY RequestHandles
<1>n. \A q \in Requests : op[q].pc = "idle" =>
        (\A s \in DOMAIN live : live[s].handle # 2 * q) /\ \A r \in Procs : ~Names(op[r], 2 * q)
      BY <1>r DEF BornInv
<1>d. \A r \in Procs : Deciding(op'[r]) =>
        \/ op'[r] = op[r] /\ Names(op[r], op[r].h)
        \/ op'[r].sid \in DOMAIN live /\ op'[r].h = live[op'[r].sid].handle
  <2>1. ASSUME NEW r \in Procs, Deciding(op'[r])
        PROVE  \/ op'[r] = op[r] /\ Names(op[r], op[r].h)
               \/ op'[r].sid \in DOMAIN live /\ op'[r].h = live[op'[r].sid].handle
    <3>1. BegunAs(r)
          BY TaskBegins
    <3>2. CASE op'[r] = op[r]
          BY <2>1, <3>2 DEF Names, Deciding, Running, AtRest
    <3>3. CASE op'[r] # op[r]
          BY <2>1, <3>1, <3>3 DEF BegunAs, Deciding, Buried
    <3> QED BY <3>2, <3>3
  <2> QED BY <2>1
<1>s. \A q \in Requests : op'[q].kind = "start" => op[q].kind = "start" \/ op[q].pc = "idle"
      BY <1>r, TaskBegins DEF BegunAs
<1>1. \A s, t \in DOMAIN live' : live'[s].handle = live'[t].handle => s = t
      BY <1>m DEF HandleInv
<1>2. \A s \in DOMAIN live', q \in Procs : Making(op'[q]) => live'[s].handle # op'[q].h
      BY <1>m, <1>k DEF HandleInv
<1>3. \A s \in DOMAIN live', q \in Requests : op'[q].kind = "start" /\ live'[s].handle = 2 * q => s = q
      BY <1>m, <1>n, <1>s DEF HandleInv
<1>4. \A s \in DOMAIN live', q \in Procs : Deciding(op'[q]) /\ live'[s].handle = op'[q].h => s = op'[q].sid
      BY <1>m, <1>d DEF HandleInv
<1>5. \A r, q \in Procs : Deciding(op'[r]) /\ Making(op'[q]) => op'[q].h # op'[r].h
      BY <1>d, <1>k DEF HandleInv
<1>6. \A r \in Procs, q \in Requests : Deciding(op'[r]) /\ op'[q].kind = "start" /\ op'[r].h = 2 * q => op'[r].sid = q
      BY <1>d, <1>s, <1>n DEF HandleInv
<1> QED BY <1>1, <1>2, <1>3, <1>4, <1>5, <1>6 DEF HandleInv

(* Each capture stays with one session, or one task. *)
LEMMA HandleNext ==
  ASSUME TypeInv, BornInv, HandleInv, [Next]_vars
  PROVE  HandleInv'
<1>1. CASE UNCHANGED vars
      BY <1>1 DEF vars, HandleInv, Deciding, Making
<1> QED BY <1>1, HandleStep, HandleBegins DEF Next

(* At first there are no captures. *)
LEMMA HandleInit ==
  ASSUME TypeInv, Init
  PROVE  HandleInv
<1>1. DOMAIN live = {} /\ \A o \in Procs : op[o] = IdleOp
      BY DEF Init
<1>2. \A o \in Procs : op[o].kind = "none"
      BY <1>1 DEF IdleOp
<1> QED BY <1>1, <1>2 DEF HandleInv, Deciding, Making

-----------------------------------------------------------------------------
(* A session's capture that does not run does not run again. *)
LEMMA StaysEnded ==
  ASSUME TypeInv, BornInv, Next, NEW s \in DOMAIN live
  PROVE  /\ live[s].handle \in Handles /\ native[live[s].handle] # "none"
         /\ native'[live[s].handle] = "running" => native[live[s].handle] = "running"
<1>1. live[s].handle \in Handles
      BY SessionTypes DEF TypeInv
<1>2. native[live[s].handle] # "none"
      BY <1>1 DEF BornInv
<1> QED BY <1>1, <1>2, NotAgain

(* Whose lease a step invalidates. *)
LEMMA FencedStep ==
  ASSUME TypeInv, NEW o \in Procs, Step(o), NEW s \in fenced'
  PROVE  \/ s \in fenced
         \/ s \notin DOMAIN live'
         \/ InputApply(o) /\ s = op[o].sid /\ ~Usable(s)'
<1>1. CASE fenced' = fenced
      BY <1>1
<1>2. CASE StartEnter(o) \/ Collect(o)
      BY <1>2 DEF StartEnter, Collect, Drop
<1>3. CASE InputApply(o)
  <2>1. CASE op[o].sid \in DOMAIN live /\ ~live[op[o].sid].released /\ Tombstone(o, op[o].sid)
    <3>1. Buries(o)
          BY <1>3, <2>1 DEF Buries
    <3>2. fenced' = fenced \cup {op[o].sid} /\ DOMAIN live' = DOMAIN live
          BY <2>1 DEF Tombstone
    <3>3. CASE s = op[o].sid
      <4>1. live'[s] = [live[s] EXCEPT !.stopped = TRUE, !.rev = @ + 1, !.input = FALSE, !.released = TRUE]
            BY <2>1, <3>3 DEF Tombstone
      <4>2. live'[s].stopped
            BY <2>1, <3>3, <4>1 DEF TypeInv, DataInv, Session
      <4> QED BY <1>3, <3>3, <4>2 DEF Usable
    <3> QED BY <3>2, <3>3
  <2>2. CASE ~(op[o].sid \in DOMAIN live /\ ~live[op[o].sid].released) /\ UNCHANGED live /\ fenced' \subseteq fenced \cup {op[o].sid}
        BY <1>3, <2>2 DEF Usable
  <2>3. CASE fenced' = fenced
        BY <2>3
  <2>4. CASE op[o].on /\ fenced' = fenced
        BY <2>4
  <2> QED BY <1>3, <2>1, <2>2, <2>3 DEF InputApply
<1> QED BY <1>1, <1>2, <1>3, GuardSteps

(* Whose lease a call invalidates that begins (control.rs: sweep, force_stop_session). *)
LEMMA FencedBegins ==
  ASSUME TypeInv,
         Begins \/ (\E o \in Procs \ Requests, s \in DOMAIN live, on \in BOOLEAN : InputCall(o, s, on)),
         NEW s \in fenced', s \in DOMAIN live'
  PROVE  s \in fenced \/ live'[s].stopped \/ (live' = live /\ Terminal(s))
<1>1. ASSUME NEW o \in Requests, NEW e \in Endpoints, StartBegin(o, e) PROVE s \in fenced
      BY <1>1 DEF StartBegin
<1>2. ASSUME NEW o \in Requests, NEW x \in DOMAIN live, NEW moved \in BOOLEAN, ReconfigureBegin(o, x, moved)
      PROVE  s \in fenced
      BY <1>2 DEF ReconfigureBegin
<1>3. ASSUME NEW o \in Procs \ Requests, NEW x \in DOMAIN live, StopStream(o, x) PROVE s \in fenced
      BY <1>3 DEF StopStream, Drop
<1>4. ASSUME NEW o \in Procs \ Requests, NEW x \in DOMAIN live, ForceStop(o, x)
      PROVE  s \in fenced \/ live'[s].stopped
  <2>1. fenced' = fenced \cup {x}
        BY <1>4 DEF ForceStop, Tombstone
  <2>2. live'[x] = [live[x] EXCEPT !.stopped = TRUE, !.rev = @ + 1, !.input = FALSE, !.released = TRUE]
        BY <1>4 DEF ForceStop, Tombstone
  <2>3. live'[x].stopped
        BY <2>2 DEF TypeInv, DataInv, Session
  <2> QED BY <2>1, <2>3
<1>5. ASSUME NEW o \in Procs \ Requests, NEW x \in DOMAIN live, Sweep(o, x)
      PROVE  s \in fenced \/ (live' = live /\ Terminal(s))
      BY <1>5 DEF Sweep
<1>6. ASSUME NEW o \in Procs \ Requests, Revoke(o) PROVE s \in fenced
      BY <1>6 DEF Revoke
<1>7. ASSUME NEW h \in Handles, CaptureEnds(h) PROVE s \in fenced
      BY <1>7 DEF CaptureEnds
<1>8. ASSUME NEW o \in Procs \ Requests, NEW x \in DOMAIN live, NEW on \in BOOLEAN, InputCall(o, x, on)
      PROVE  s \in fenced
      BY <1>8 DEF InputCall
<1> QED BY <1>1, <1>2, <1>3, <1>4, <1>5, <1>6, <1>7, <1>8 DEF Begins

(* What silencing a session's capture comes to (control.rs: force_stop_session). *)
LEMMA SilenceEnds ==
  ASSUME TypeInv, StoppedInv, NEW o \in Procs, Silence(o), NEW s \in DOMAIN live, s = op[o].sid, live[s].handle = op[o].h
  PROVE  /\ native'[op[o].h] # "running" \/ ~live'[s].released
         /\ op[o].h \notin nativeIn' \/ op[o].h \in pendingRet' \/ native[op[o].h] = "stopped"
<1>t. /\ live \in [DOMAIN live -> Session] /\ s \in Requests /\ op[o].h \in Handles
      /\ native \in [Handles -> {"none", "running", "ended", "stopped"}] /\ op[o].h # 0
      BY DEF TypeInv, DataInv, Session, Handles
<1>1. CASE Retires(s, op[o].h)
  <2>1. CASE retired[s] = op[o].h
    <3>1. native[op[o].h] = "stopped" /\ UNCHANGED captures
          BY <1>1, <1>t, <2>1 DEF StoppedInv, Retires
    <3> QED BY <3>1 DEF captures
  <2>2. CASE Stopped(op[o].h)
        BY <1>t, <2>2 DEF Stopped
  <2> QED BY <1>1, <2>1, <2>2 DEF Retires
<1>2. CASE Stranded(op[o].h) /\ live' = [live EXCEPT ![s].released = FALSE]
  <2>1. live'[s] = [live[s] EXCEPT !.released = FALSE]
        BY <1>2
  <2>2. op[o].h \in pendingRet'
        BY <1>2 DEF Stranded
  <2> QED BY <1>t, <2>1, <2>2 DEF Session
<1> QED BY <1>1, <1>2 DEF Silence

(* A step of a task leaves what was ended ended. *)
LEMMA EndStep ==
  ASSUME TypeInv, BornInv, KnowInv, StoppedInv, EndInv, Next, NEW o \in Procs, Step(o)
  PROVE  EndInv'
<1>f. \A s \in DOMAIN live' : Flags(o, s)
      BY FlagSteps
<1>n. \A s \in DOMAIN live : /\ live[s].handle \in Handles
                             /\ native'[live[s].handle] = "running" => native[live[s].handle] = "running"
      BY StaysEnded
<1>g. StartEnter(o) \/ Collect(o) \/ InputApply(o) \/ fenced' = fenced
      BY GuardSteps
<1>e. Silence(o) => Silencing(op[o], op[o].sid)
      BY ActionPcs DEF Silencing
<1>x. Register(o) \/ Commit(o) => fenced' = fenced
      BY <1>g, ActionPcs
<1>a. \A s \in DOMAIN live' : ~(Unmoved(s) /\ live'[s].released = live[s].released) =>
        \/ /\ s \notin fenced' /\ ~live'[s].stopped /\ ((Register(o) /\ s = o) \/ ~live[s].stopped)
        \/ /\ s \in DOMAIN live /\ live'[s].handle = live[s].handle /\ ~live[s].stopped /\ ~live'[s].stopped /\ live'[s].released
        \/ /\ s \in DOMAIN live /\ live'[s].handle = live[s].handle /\ live[s].stopped /\ live'[s].stopped
           /\ ~live'[s].released /\ live'[s].handle \in pendingRet'
        \/ Buried(o, s)
  <2>1. ASSUME NEW s \in DOMAIN live', ~(Unmoved(s) /\ live'[s].released = live[s].released)
        PROVE  \/ /\ s \notin fenced' /\ ~live'[s].stopped /\ ((Register(o) /\ s = o) \/ ~live[s].stopped)
               \/ /\ s \in DOMAIN live /\ live'[s].handle = live[s].handle /\ ~live[s].stopped /\ ~live'[s].stopped /\ live'[s].released
               \/ /\ s \in DOMAIN live /\ live'[s].handle = live[s].handle /\ live[s].stopped /\ live'[s].stopped
                  /\ ~live'[s].released /\ live'[s].handle \in pendingRet'
               \/ Buried(o, s)
    <3>1. CASE Register(o) /\ s = o /\ MayRegister(o) /\ ~live'[s].stopped
          BY <1>x, <3>1 DEF MayRegister, LeaseCurrent
    <3>2. CASE Published(o, s)
          BY <1>x, <3>2 DEF Published, Current, LeaseCurrent
    <3>3. CASE /\ Commit(o) /\ Current(o) /\ s = op[o].sid /\ Unmoved(s) /\ live'[s].released /\ ~live[s].stopped
          BY <3>3 DEF Unmoved
    <3>4. CASE /\ Silence(o) /\ s = op[o].sid /\ Unmoved(s) /\ live[s].handle = op[o].h /\ ~live'[s].released
               /\ op[o].h \in pendingRet'
      <4>1. live[s].stopped
            BY <1>e, <3>4 DEF EndInv, Unmoved
      <4> QED BY <3>4, <4>1 DEF Unmoved
    <3>5. CASE Buried(o, s)
          BY <3>5
    <3> QED BY <1>f, <2>1, <3>1, <3>2, <3>3, <3>4, <3>5 DEF Flags
  <2> QED BY <2>1
<1>1. \A s \in DOMAIN live' : Usable(s)' /\ s \in fenced' => native'[live'[s].handle] # "running"
  <2>1. ASSUME NEW s \in DOMAIN live', Usable(s)', s \in fenced' PROVE native'[live'[s].handle] # "running"
    <3>1. Unmoved(s) /\ live'[s].released = live[s].released
          BY <1>a, <2>1 DEF Usable, Buried
    <3>2. s \in fenced
          BY <2>1, FencedStep
    <3>3. Usable(s)
          BY <2>1, <3>1 DEF Usable, Unmoved
    <3> QED BY <1>n, <3>1, <3>2, <3>3 DEF EndInv, Unmoved
  <2> QED BY <2>1
<1>2. \A s \in DOMAIN live' : live'[s].stopped /\ ~live'[s].released
        => native'[live'[s].handle] # "running" \/ live'[s].handle \in pendingRet'
  <2>1. ASSUME NEW s \in DOMAIN live', live'[s].stopped, ~live'[s].released
        PROVE  native'[live'[s].handle] # "running" \/ live'[s].handle \in pendingRet'
    <3>1. CASE Unmoved(s) /\ live'[s].released = live[s].released
      <4>1. native[live[s].handle] # "running" \/ live[s].handle \in pendingRet
            BY <2>1, <3>1 DEF EndInv, Unmoved
      <4>2. live[s].handle \in pendingRet /\ live[s].handle \notin pendingRet' => native'[live[s].handle] = "stopped"
            BY <1>n, <3>1, NativeStep DEF Unmoved
      <4> QED BY <1>n, <3>1, <4>1, <4>2 DEF Unmoved
    <3> QED BY <1>a, <2>1, <3>1 DEF Buried
  <2> QED BY <2>1
<1>3. \A s \in DOMAIN live' : live'[s].stopped /\ live'[s].released
        => native'[live'[s].handle] # "running" \/ \E q \in Procs : Silencing(op'[q], s)
  <2>1. ASSUME NEW s \in DOMAIN live', live'[s].stopped, live'[s].released
        PROVE  native'[live'[s].handle] # "running" \/ \E q \in Procs : Silencing(op'[q], s)
    <3>1. CASE Unmoved(s) /\ live'[s].released = live[s].released
      <4>1. native[live[s].handle] # "running" \/ \E q \in Procs : Silencing(op[q], s)
            BY <2>1, <3>1 DEF EndInv, Unmoved
      <4>2. CASE native[live[s].handle] # "running"
            BY <1>n, <3>1, <4>2 DEF Unmoved
      <4>3. ASSUME NEW q \in Procs, Silencing(op[q], s)
            PROVE  native'[live'[s].handle] # "running" \/ \E r \in Procs : Silencing(op'[r], s)
        <5>1. CASE Silence(o) /\ op[o].sid = s
          <6>1. s \in DOMAIN live /\ live[s].handle = op[o].h
                BY <1>e, <3>1, <5>1 DEF EndInv, Unmoved
          <6> QED BY <2>1, <3>1, <5>1, <6>1, SilenceEnds DEF Unmoved
        <5> QED BY <4>3, <5>1, SilencingStays
      <4> QED BY <4>1, <4>2, <4>3
    <3>2. CASE Buried(o, s)
          BY <3>2 DEF Buried, Silencing
    <3> QED BY <1>a, <2>1, <3>1, <3>2
  <2> QED BY <2>1
<1>4. \A s \in DOMAIN live', q \in Procs : Silencing(op'[q], s) => live'[s].stopped /\ live'[s].handle = op'[q].h
  <2>1. ASSUME NEW s \in DOMAIN live', NEW q \in Procs, Silencing(op'[q], s)
        PROVE  live'[s].stopped /\ live'[s].handle = op'[q].h
    <3>1. CASE Silencing(op[q], s) /\ op'[q] = op[q]
      <4>1. ~(Register(o) /\ s = o)
        <5>1. Past(op[s])
              BY <3>1 DEF KnowInv, Silencing, Running, AtRest, About
        <5> QED BY <5>1, ActionPcs DEF Past
      <4>2. s \in DOMAIN live => live[s].stopped /\ live[s].handle = op[q].h
            BY <3>1 DEF EndInv
      <4>3. CASE Unmoved(s)
            BY <3>1, <4>2, <4>3 DEF Unmoved
      <4>4. CASE Buried(o, s)
            BY <3>1, <4>2, <4>4 DEF Buried
      <4>5. ~Published(o, s)
            BY <4>2 DEF Published
      <4> QED BY <1>f, <4>1, <4>3, <4>4, <4>5 DEF Flags
    <3>2. CASE q = o /\ Buries(o) /\ op[o].sid = s
      <4>1. live'[s] = [live[s] EXCEPT !.stopped = TRUE, !.rev = @ + 1, !.input = FALSE, !.released = TRUE] /\ s \in DOMAIN live
            BY <3>2 DEF Buries, Tombstone
      <4>2. live'[s].stopped /\ live'[s].handle = live[s].handle
            BY <4>1 DEF TypeInv, DataInv, Session
      <4> QED BY <3>2, <4>2, BuriesHow
    <3> QED BY <2>1, <3>1, <3>2, SilencingBefore
  <2> QED BY <2>1
<1> QED BY <1>1, <1>2, <1>3, <1>4 DEF EndInv

(* A call that begins leaves what was ended ended. *)
LEMMA EndBegins ==
  ASSUME TypeInv, BornInv, EndInv, Next,
         Begins \/ (\E o \in Procs \ Requests, s \in DOMAIN live, on \in BOOLEAN : InputCall(o, s, on))
  PROVE  EndInv'
<1>f. \A s \in DOMAIN live' : FlagsBegun(s)
      BY FlagBegins
<1>n. \A s \in DOMAIN live : native'[live[s].handle] = "running" => native[live[s].handle] = "running"
      BY StaysEnded
<1>p. pendingRet' = pendingRet
      BY BeginsKeep
<1>b. \A q \in Procs : BegunAs(q)
      BY TaskBegins
<1>a. \A s \in DOMAIN live' : /\ s \in DOMAIN live /\ live'[s].handle = live[s].handle
                              /\ \/ live'[s].stopped = live[s].stopped /\ live'[s].released = live[s].released
                                 \/ \E q \in Procs : Buried(q, s)
      BY <1>f DEF FlagsBegun
<1>s. \A q \in Procs : \A s : Silencing(op[q], s) => Silencing(op'[q], s)
      BY <1>b DEF BegunAs, Silencing
<1>1. \A s \in DOMAIN live' : Usable(s)' /\ s \in fenced' => native'[live'[s].handle] # "running"
  <2>1. ASSUME NEW s \in DOMAIN live', Usable(s)', s \in fenced' PROVE native'[live'[s].handle] # "running"
    <3>1. s \in DOMAIN live /\ live'[s].handle = live[s].handle /\ Usable(s)
          BY <1>a, <2>1 DEF Usable, Buried
    <3>2. s \in fenced \/ Terminal(s)
          BY <2>1, FencedBegins DEF Usable
    <3>3. native[live[s].handle] # "running"
          BY <3>1, <3>2 DEF EndInv, Usable, Terminal
    <3> QED BY <1>n, <3>1, <3>3
  <2> QED BY <2>1
<1>2. \A s \in DOMAIN live' : live'[s].stopped /\ ~live'[s].released
        => native'[live'[s].handle] # "running" \/ live'[s].handle \in pendingRet'
      BY <1>a, <1>n, <1>p DEF EndInv, Buried
<1>3. \A s \in DOMAIN live' : live'[s].stopped /\ live'[s].released
        => native'[live'[s].handle] # "running" \/ \E q \in Procs : Silencing(op'[q], s)
  <2>1. ASSUME NEW s \in DOMAIN live', live'[s].stopped, live'[s].released
        PROVE  native'[live'[s].handle] # "running" \/ \E q \in Procs : Silencing(op'[q], s)
    <3>1. CASE \E q \in Procs : Buried(q, s)
          BY <3>1 DEF Buried, Silencing
    <3>2. CASE live'[s].stopped = live[s].stopped /\ live'[s].released = live[s].released
          BY <1>a, <1>n, <1>s, <2>1, <3>2 DEF EndInv
    <3> QED BY <1>a, <3>1, <3>2
  <2> QED BY <2>1
<1>4. \A s \in DOMAIN live', q \in Procs : Silencing(op'[q], s) => live'[s].stopped /\ live'[s].handle = op'[q].h
  <2>1. ASSUME NEW s \in DOMAIN live', NEW q \in Procs, Silencing(op'[q], s)
        PROVE  live'[s].stopped /\ live'[s].handle = op'[q].h
    <3>1. CASE op'[q] = op[q]
          BY <1>a, <2>1, <3>1 DEF EndInv, Buried
    <3>2. CASE op'[q] # op[q]
      <4>1. PICK x \in DOMAIN live : Buried(q, x)
            BY <1>b, <2>1, <3>2 DEF BegunAs, Silencing
      <4>2. x = s
            BY <2>1, <4>1 DEF Buried, Silencing
      <4> QED BY <1>a, <4>1, <4>2 DEF Buried
    <3> QED BY <3>1, <3>2
  <2> QED BY <2>1
<1> QED BY <1>1, <1>2, <1>3, <1>4 DEF EndInv

(* A session that was ended stays ended. *)
LEMMA EndNext ==
  ASSUME TypeInv, BornInv, KnowInv, StoppedInv, EndInv, [Next]_vars
  PROVE  EndInv'
<1>1. CASE UNCHANGED vars
      BY <1>1 DEF vars, EndInv, Usable, Silencing
<1> QED BY <1>1, EndStep, EndBegins DEF Next

(* At first no session was ended. *)
LEMMA EndInit ==
  ASSUME TypeInv, Init
  PROVE  EndInv
BY DEF Init, EndInv

(* Who had the capture that a step feeds: the start at work on it, the reconfiguration that    *)
(* made it, or the decision about it (control.rs: set_session_input, apply_input_policy).      *)
LEMMA FedBy ==
  ASSUME TypeInv, NEW o \in Procs, Step(o), NEW h \in nativeIn'
  PROVE  \/ h \in nativeIn /\ (native[h] = "running" => native'[h] = "running")
         \/ /\ Enable(o) /\ h = 2 * o /\ o \in Requests /\ op[o].kind = "start" /\ op[o].pc = "enable"
            /\ native'[h] = "running" /\ op'[o].pc = "flag"
         \/ /\ ApplyInput(o) /\ CarriesInput(o) /\ h = op[o].h /\ Making(op[o]) /\ native'[h] = "running"
            /\ op'[o].pc = "commit" /\ op'[o].on
         \/ /\ InputApply(o) /\ op[o].on /\ h = op[o].h /\ Deciding(op[o]) /\ op[o].pc = "apply"
            /\ native'[h] = "running" /\ op'[o].pc = "store"
<1>t. op[o] \in OpRec /\ Shape(o, op[o])
      BY DEF TypeInv, TasksInv
<1>1. CASE Enable(o) /\ h = op[o].h /\ native'[h] = "running" /\ op'[o].pc = "flag"
  <2>1. op[o].kind = "start" /\ op[o].pc = "enable"
        BY <1>1, ActionPcs
  <2>2. o \in Requests /\ op[o].h = 2 * o
        BY <1>t, <2>1 DEF Shape, Calls, Running, AtRest, StartShape
  <2> QED BY <1>1, <2>1, <2>2
<1>2. CASE ApplyInput(o) /\ CarriesInput(o) /\ h = op[o].h /\ native'[h] = "running"
           /\ op'[o].pc = "commit" /\ op'[o].on
  <2>1. op[o].kind = "reconfigure" /\ op[o].pc = "input"
        BY <1>2, ActionPcs
  <2> QED BY <1>2, <2>1 DEF CarriesInput, Making
<1>3. CASE InputApply(o) /\ op[o].on /\ h = op[o].h /\ native'[h] = "running" /\ op'[o].pc = "store"
      BY <1>3, ActionPcs DEF Deciding
<1> QED BY <1>1, <1>2, <1>3, FedStep

(* A task that has returned does not move. *)
LEMMA DoneStays ==
  ASSUME TypeInv, Next, NEW q \in Procs, op[q].pc = "done"
  PROVE  op'[q].pc = "done"
<1>1. ASSUME NEW o \in Procs, Step(o) PROVE op'[q].pc = "done"
      BY <1>1, StepActs DEF Acts, Running, AtRest
<1>2. ASSUME Begins \/ (\E o \in Procs \ Requests, s \in DOMAIN live, on \in BOOLEAN : InputCall(o, s, on))
      PROVE  op'[q].pc = "done"
  <2>1. BegunAs(q)
        BY <1>2, TaskBegins
  <2> QED BY <2>1 DEF BegunAs
<1> QED BY <1>1, <1>2 DEF Next

(* Only one decision, or one publication, is at work (control.rs: input_changes). *)
LEMMA DecidesAlone ==
  ASSUME TypeInv, GuardInv, NEW o \in Procs, NEW q \in Procs, Deciding(op[o]),
         Deciding(op[q]) \/ (op[q].kind = "reconfigure" /\ op[q].pc = "commit")
  PROVE  q = o
<1>1. Locked(op[o]) /\ Locked(op[q])
      BY DEF Deciding, Locked, Running, AtRest
<1> QED BY <1>1 DEF GuardInv

(* A step of a task feeds only captures that run, and decisions stay known of. *)
LEMMA FeedStep ==
  ASSUME TypeInv, BornInv, GuardInv, HandleInv, FeedInv, Next, NEW o \in Procs, Step(o)
  PROVE  FeedInv'
<1>p. past \subseteq past'
      BY PastGrows
<1>r. Requests \subseteq Procs /\ (\A q \in Requests : q \in Nat)
      BY RequestsAreProcs DEF TypeInv, Requests
<1>1. \A h \in nativeIn' : native'[h] = "running"
      BY FedBy DEF FeedInv
<1>2. \A q \in Procs : Making(op'[q]) /\ op'[q].h \in nativeIn'
        => (op'[q].pc = "commit" /\ op'[q].on) \/ op'[q].pc = "discard"
  <2>1. ASSUME NEW q \in Procs, Making(op'[q]), op'[q].h \in nativeIn'
        PROVE  (op'[q].pc = "commit" /\ op'[q].on) \/ op'[q].pc = "discard"
    <3>1. CASE q # o
      <4>1. op'[q] = op[q]
            BY <3>1, StepActs DEF Acts
      <4>2. op[q].h \in nativeIn => (op[q].pc = "commit" /\ op[q].on) \/ op[q].pc = "discard"
            BY <2>1, <4>1 DEF FeedInv
      <4>3. ~(o \in Requests /\ op[q].h = 2 * o)
        <5>1. q \in Requests /\ op[q].h = OwnHandle(q, op[q])
              BY <2>1, <4>1, MakingOwn
        <5>2. ASSUME o \in Requests, op[q].h = 2 * o PROVE FALSE
          <6>1. q \in Nat /\ o \in Nat
                BY <1>r, <5>1, <5>2
          <6> QED BY <3>1, <5>1, <5>2, <6>1 DEF OwnHandle
        <5> QED BY <5>2
      <4>4. ~(Making(op[o]) /\ op[q].h = op[o].h)
            BY <2>1, <3>1, <4>1, MakingApart
      <4>5. ~(Deciding(op[o]) /\ op[q].h = op[o].h)
            BY <2>1, <4>1 DEF HandleInv
      <4> QED BY <2>1, <4>1, <4>2, <4>3, <4>4, <4>5, FedBy
    <3>2. CASE q = o
      <4>1. CASE op'[o].pc = "commit" /\ op'[o].on
            BY <3>2, <4>1
      <4>2. CASE op'[o].h \in nativeIn
        <5>1. Making(op[o]) /\ op'[o].h = op[o].h
          <6>1. native[op'[o].h] # "none"
                BY <4>2 DEF FeedInv
          <6> QED BY <2>1, <3>2, <6>1, MakingNew
        <5>2. (op[o].pc = "commit" /\ op[o].on) \/ op[o].pc = "discard"
              BY <4>2, <5>1 DEF FeedInv
        <5>3. CASE Commit(o)
              BY <2>1, <3>2, <5>3, StepMoves, ActionPcs DEF Moves, Making
        <5>4. CASE Discard(o)
          <6>1. op'[o].pc = "input" => op'[o].h = 0
            <7>1. op[o].pc = "discard" /\ op \in [Procs -> OpRec]
                  BY <5>4, ActionPcs DEF TypeInv, TasksInv
            <7>2. CASE op' = [op EXCEPT ![o].pc = "input", ![o].h = 0]
                  BY <7>1, <7>2 DEF OpRec
            <7>3. CASE op' = [op EXCEPT ![o].pc = "cleanup", ![o].own = o, ![o].then = op[o].then]
                  BY <7>1, <7>3 DEF OpRec
            <7> QED BY <5>4, <7>2, <7>3 DEF Discard, GoCleanup
          <6>2. op'[o].pc \in {"input", "cleanup"}
                BY <5>4, StepMoves, ActionPcs DEF Moves
          <6> QED BY <2>1, <3>2, <6>1, <6>2 DEF Making
        <5> QED BY <5>2, <5>3, <5>4, StepMoves DEF Moves, Making
      <4> QED BY <2>1, <3>2, <4>1, <4>2, FedBy DEF Making
    <3> QED BY <3>1, <3>2
  <2> QED BY <2>1
<1>3. \A q \in Procs : Deciding(op'[q]) /\ op'[op'[q].sid].pc # "done" => <<"decided", op'[q].sid>> \in past'
  <2>1. ASSUME NEW q \in Procs, Deciding(op'[q]), op'[op'[q].sid].pc # "done"
        PROVE  <<"decided", op'[q].sid>> \in past'
    <3>1. Deciding(op[q]) /\ op'[q].sid = op[q].sid /\ op[q].sid \in Procs
          BY <1>r, <2>1, DecidingBefore
    <3>2. op[op[q].sid].pc # "done"
          BY <2>1, <3>1, DoneStays
    <3> QED BY <1>p, <3>1, <3>2 DEF FeedInv
  <2> QED BY <2>1
<1>4. \A q \in Procs : Deciding(op'[q]) /\ op'[q].on => <<"granted", op'[q].sid>> \in past'
      BY <1>p, DecidingBefore DEF FeedInv
<1>5. \A q \in Procs : op'[q].kind = "input" /\ op'[q].pc = "store" /\ ~op'[q].on /\ op'[q].h \in nativeIn'
        => <<"decided", op'[q].sid>> \in past'
  <2>1. ASSUME NEW q \in Procs, op'[q].kind = "input", op'[q].pc = "store", ~op'[q].on, op'[q].h \in nativeIn'
        PROVE  <<"decided", op'[q].sid>> \in past'
    <3>1. /\ Deciding(op[q]) /\ op'[q].sid = op[q].sid /\ op'[q].h = op[q].h /\ op'[q].on = op[q].on
          /\ op[q].pc = "store" \/ (q = o /\ InputApply(o) /\ op[q].pc = "apply")
          BY <2>1, DecidingBefore DEF Deciding
    <3>2. CASE op[q].pc = "store"
      <4>1. CASE op[q].h \in nativeIn
            BY <1>p, <2>1, <3>1, <3>2, <4>1 DEF FeedInv, Deciding
      <4>2. CASE /\ op[q].h = 2 * o /\ o \in Requests /\ op[o].kind = "start" /\ op[o].pc = "enable"
        <5>1. op[q].sid = o
              BY <3>1, <4>2 DEF HandleInv
        <5> QED BY <1>p, <3>1, <4>2, <5>1 DEF FeedInv
      <4>3. ~(Making(op[o]) /\ op[q].h = op[o].h)
            BY <3>1 DEF HandleInv
      <4>4. ~(Deciding(op[o]) /\ op[o].pc = "apply")
            BY <3>1, <3>2, DecidesAlone
      <4> QED BY <2>1, <3>1, <4>1, <4>2, <4>3, <4>4, FedBy
    <3>3. CASE q = o /\ InputApply(o) /\ op[q].pc = "apply"
      <4>1. CASE SetInput(op[o].h, op[o].on)
            BY <2>1, <3>1, <3>3, <4>1 DEF SetInput
      <4>2. CASE Tombstone(o, op[o].sid)
        <5>2. op \in [Procs -> OpRec]
              BY DEF TypeInv, TasksInv
        <5> QED BY <2>1, <3>3, <4>2, <5>2 DEF Tombstone, OpRec
      <4>3. CASE Go(o, "end")
        <5>1. op \in [Procs -> OpRec]
              BY DEF TypeInv, TasksInv
        <5> QED BY <2>1, <3>3, <4>3, <5>1 DEF Go, OpRec
      <4> QED BY <3>3, <4>1, <4>2, <4>3 DEF InputApply
    <3> QED BY <3>1, <3>2, <3>3
  <2> QED BY <2>1
<1> QED BY <1>1, <1>2, <1>3, <1>4, <1>5 DEF FeedInv

(* A call that begins feeds no capture, and a decision is known of at once (control.rs: set_session_input). *)
LEMMA FeedBegins ==
  ASSUME TypeInv, FeedInv, Next,
         Begins \/ (\E o \in Procs \ Requests, s \in DOMAIN live, on \in BOOLEAN : InputCall(o, s, on))
  PROVE  FeedInv'
<1>p. past \subseteq past'
      BY PastGrows
<1>f. \A h \in nativeIn' : h \in nativeIn /\ native'[h] = native[h]
      BY FedBegin
<1>b. \A q \in Procs : BegunAs(q)
      BY TaskBegins
<1>r. Requests \subseteq Procs /\ DOMAIN live \subseteq Requests
      BY RequestsAreProcs DEF TypeInv, DataInv
<1>1. \A h \in nativeIn' : native'[h] = "running"
      BY <1>f DEF FeedInv
<1>2. \A q \in Procs : Making(op'[q]) /\ op'[q].h \in nativeIn'
        => (op'[q].pc = "commit" /\ op'[q].on) \/ op'[q].pc = "discard"
      BY <1>f, MakingBegun DEF FeedInv
<1>d. ASSUME NEW q \in Procs, Deciding(op'[q])
      PROVE  \/ op'[q] = op[q]
             \/ \E s \in DOMAIN live, on \in BOOLEAN :
                  /\ InputCall(q, s, on) /\ op'[q].sid = s /\ op'[q].on = on /\ op'[q].pc = "apply"
  <2>1. BegunAs(q)
        BY <1>b
  <2> QED BY <1>d, <2>1 DEF BegunAs, Deciding, Buried
<1>3. \A q \in Procs : Deciding(op'[q]) /\ op'[op'[q].sid].pc # "done" => <<"decided", op'[q].sid>> \in past'
  <2>1. ASSUME NEW q \in Procs, Deciding(op'[q]), op'[op'[q].sid].pc # "done"
        PROVE  <<"decided", op'[q].sid>> \in past'
    <3>1. CASE op'[q] = op[q]
      <4>1. op[q].sid \in Procs
            BY <1>r, <2>1, <3>1 DEF TypeInv, TasksInv, Shape, CallShape, Deciding, Calls, Running, AtRest
      <4>2. op[op[q].sid].pc # "done"
            BY <2>1, <3>1, <4>1, DoneStays
      <4> QED BY <1>p, <2>1, <3>1, <4>2 DEF FeedInv
    <3>2. ASSUME NEW s \in DOMAIN live, NEW on \in BOOLEAN, InputCall(q, s, on), op'[q].sid = s
          PROVE  <<"decided", op'[q].sid>> \in past'
      <4>1. op[s].pc # "done"
            BY <1>r, <2>1, <3>2, DoneStays
      <4>2. past' = past \cup {<<"decided", s>>} \cup (IF on THEN {<<"granted", s>>} ELSE {})
            BY <3>2, <4>1 DEF InputCall
      <4>3. <<"decided", s>> \in past'
            BY <4>2
      <4> QED BY <3>2, <4>3
    <3> QED BY <1>d, <2>1, <3>1, <3>2
  <2> QED BY <2>1
<1>4. \A q \in Procs : Deciding(op'[q]) /\ op'[q].on => <<"granted", op'[q].sid>> \in past'
  <2>1. ASSUME NEW q \in Procs, Deciding(op'[q]), op'[q].on
        PROVE  <<"granted", op'[q].sid>> \in past'
    <3>1. CASE op'[q] = op[q]
          BY <1>p, <2>1, <3>1 DEF FeedInv
    <3>2. ASSUME NEW s \in DOMAIN live, NEW on \in BOOLEAN, InputCall(q, s, on), op'[q].sid = s, op'[q].on = on
          PROVE  <<"granted", op'[q].sid>> \in past'
      <4>1. on
            BY <2>1, <3>2
      <4>2. past' = past \cup (IF op[s].pc = "done" THEN {} ELSE {<<"decided", s>>}) \cup {<<"granted", s>>}
            BY <3>2, <4>1 DEF InputCall
      <4>3. <<"granted", s>> \in past'
            BY <4>2
      <4> QED BY <3>2, <4>3
    <3> QED BY <1>d, <2>1, <3>1, <3>2
  <2> QED BY <2>1
<1>5. \A q \in Procs : op'[q].kind = "input" /\ op'[q].pc = "store" /\ ~op'[q].on /\ op'[q].h \in nativeIn'
        => <<"decided", op'[q].sid>> \in past'
      BY <1>d, <1>f, <1>p DEF FeedInv, Deciding
<1> QED BY <1>1, <1>2, <1>3, <1>4, <1>5 DEF FeedInv

(* Captures that take input run, and decisions are known of. *)
LEMMA FeedNext ==
  ASSUME TypeInv, BornInv, GuardInv, HandleInv, FeedInv, [Next]_vars
  PROVE  FeedInv'
<1>1. CASE UNCHANGED vars
      BY <1>1 DEF vars, FeedInv, Making, Deciding
<1> QED BY <1>1, FeedStep, FeedBegins DEF Next

(* At first no capture takes input. *)
LEMMA FeedInit ==
  ASSUME TypeInv, Init
  PROVE  FeedInv
<1>1. nativeIn = {} /\ \A o \in Procs : op[o] = IdleOp
      BY DEF Init
<1>2. \A o \in Procs : op[o].kind = "none"
      BY <1>1 DEF IdleOp
<1> QED BY <1>1, <1>2 DEF FeedInv, Deciding, Making

(* A capture that takes input runs, so that its session's lease is current, or the pairing is gone. *)
LEMMA FedIsCurrent ==
  ASSUME EndInv, FeedInv, NEW s \in DOMAIN live, Usable(s), live[s].handle \in nativeIn
  PROVE  LeaseCurrent(s) \/ ~policy.paired
BY DEF EndInv, FeedInv, LeaseCurrent

(* A task that has to tell of a capture does so, or has told. *)
LEMMA TellsOn ==
  ASSUME TypeInv, HandleInv, EndInv, FeedInv, NEW o \in Procs, Step(o), NEW s \in DOMAIN live',
         Unmoved(s), live'[s].input = live[s].input, live'[s].released = live[s].released,
         Usable(s)', policy.paired, live[s].handle \in nativeIn, live[s].handle \in nativeIn',
         ~live'[s].input, <<"retained", live[s].handle>> \notin past', NEW q \in Procs, Tells(op[q], live[s].handle)
  PROVE  Tells(op'[q], live[s].handle)
<1>u. s \in DOMAIN live /\ Usable(s)
      BY DEF Unmoved, Usable
<1>r. native[live[s].handle] = "running"
      BY DEF FeedInv
<1>t. op[o] \in OpRec /\ Shape(o, op[o]) /\ op \in [Procs -> OpRec]
      BY DEF TypeInv, TasksInv
<1>1. CASE q # o
      BY <1>1, StepActs DEF Acts
<1>2. CASE q = o /\ op[o].kind = "start" /\ op[o].pc = "flag" /\ op[o].h = live[s].handle
  <2>1. o \in Requests /\ op[o].h = 2 * o
        BY <1>t, <1>2 DEF Shape, Calls, Running, AtRest, StartShape
  <2>2. s = o
        BY <1>u, <1>2, <2>1 DEF HandleInv
  <2>3. FlagEnabled(o)
        BY <1>2, StepMoves DEF Moves, Shape
  <2>4. live' = [live EXCEPT ![o].input = TRUE]
        BY <1>u, <1>2, <2>2, <2>3 DEF FlagEnabled
  <2>5. live'[s] = [live[s] EXCEPT !.input = TRUE]
        BY <1>u, <2>2, <2>4
  <2>6. live[s] \in Session
        BY <1>u DEF TypeInv, DataInv
  <2>7. live'[s].input
        BY <2>5, <2>6 DEF Session
  <2> QED BY <2>7
<1>3. CASE q = o /\ op[o].kind = "start" /\ op[o].pc = "disable" /\ live[s].handle \in op[o].set
  <2>1. DisableOthers(o)
        BY <1>3, StepMoves DEF Moves
  <2>2. PICK h \in op[o].set :
          /\ op' = [op EXCEPT ![o].set = @ \ {h}]
          /\ SetInput(h, FALSE) \/ past' = past \cup {<<"retained", h>>}
        BY <1>3, <2>1 DEF DisableOthers
  <2>3. h # live[s].handle
        BY <2>2 DEF SetInput
  <2>4. op'[o].kind = "start" /\ op'[o].pc = "disable" /\ live[s].handle \in op'[o].set
        BY <1>t, <1>3, <2>2, <2>3 DEF OpRec
  <2> QED BY <1>3, <2>4 DEF Tells
<1>4. CASE q = o /\ op[o].kind = "input" /\ op[o].pc = "apply" /\ ~op[o].on /\ op[o].h = live[s].handle
  <2>1. InputApply(o)
        BY <1>4, StepMoves DEF Moves
  <2>2. s = op[o].sid
        BY <1>u, <1>4 DEF HandleInv, Deciding
  <2>3. CASE SetInput(op[o].h, op[o].on)
        BY <1>4, <2>3 DEF SetInput
  <2>4. CASE Tombstone(o, op[o].sid)
    <3>1. live'[s] = [live[s] EXCEPT !.stopped = TRUE, !.rev = @ + 1, !.input = FALSE, !.released = TRUE]
          BY <1>u, <2>2, <2>4 DEF Tombstone
    <3>2. live'[s].stopped
          BY <1>u, <3>1 DEF TypeInv, DataInv, Session
    <3> QED BY <3>2 DEF Usable
  <2> QED BY <1>u, <1>r, <1>4, <2>1, <2>2, <2>3, <2>4 DEF InputApply, Usable
<1>5. CASE q = o /\ op[o].kind = "input" /\ op[o].pc = "store" /\ op[o].on /\ op[o].h = live[s].handle
  <2>1. InputStore(o)
        BY <1>5, StepMoves DEF Moves
  <2>2. s = op[o].sid
        BY <1>u, <1>5 DEF HandleInv, Deciding
  <2>3. LeaseCurrent(s)
        BY <1>u, FedIsCurrent
  <2>4. live' = [live EXCEPT ![s].input = op[o].on]
        BY <1>u, <1>5, <2>1, <2>2, <2>3 DEF InputStore
  <2>5. PICK b \in BOOLEAN : b = op[o].on /\ b
        BY <1>5, <1>t DEF OpRec
  <2>6. live'[s] = [live[s] EXCEPT !.input = b]
        BY <1>u, <2>4, <2>5
  <2>7. live[s] \in Session
        BY <1>u DEF TypeInv, DataInv
  <2>8. live'[s].input
        BY <2>5, <2>6, <2>7 DEF Session
  <2> QED BY <2>8
<1> QED BY <1>1, <1>2, <1>3, <1>4, <1>5 DEF Tells

(* The task that feeds a session's capture tells of it (control.rs: apply_input_policy). *)
LEMMA FeedersTell ==
  ASSUME TypeInv, HandleInv, NEW o \in Procs, Step(o), NEW s \in DOMAIN live, live[s].handle \in nativeIn'
  PROVE  live[s].handle \in nativeIn \/ Tells(op'[o], live[s].handle)
<1>h. PICK h : h = live[s].handle
      OBVIOUS
<1>1. CASE /\ Enable(o) /\ h = 2 * o /\ o \in Requests /\ op[o].kind = "start" /\ op[o].pc = "enable"
           /\ op'[o].pc = "flag"
  <2>1. op'[o].kind = "start"
        BY <1>1, StepFields, ActionPcs
  <2>2. Shape(o, op'[o])
        BY StepActs DEF Acts
  <2>3. op'[o].h = 2 * o
        BY <1>1, <2>1, <2>2 DEF Shape, StartShape, Running, AtRest
  <2> QED BY <1>h, <1>1, <2>1, <2>3 DEF Tells
<1>2. CASE Making(op[o]) /\ h = op[o].h
      BY <1>h, <1>2 DEF HandleInv
<1>3. CASE /\ InputApply(o) /\ op[o].on /\ h = op[o].h /\ Deciding(op[o]) /\ op'[o].pc = "store"
  <2>1. Keeps(o)
        BY <1>3, StepKeeps, BuriesHow DEF Ends
  <2>2. op'[o].kind = "input"
        BY <1>3, <2>1 DEF Keeps, Deciding
  <2>3. op'[o].h = h /\ op'[o].on
        BY <1>3, <2>2, DecidingBefore DEF Deciding
  <2> QED BY <1>h, <1>3, <2>2, <2>3 DEF Tells
<1> QED BY <1>h, <1>1, <1>2, <1>3, FedBy

(* After a step of a task, a capture that takes input has been told of, or will be. *)
LEMMA ToldStep ==
  ASSUME TypeInv, HandleInv, EndInv, FeedInv, ToldInv, Next, NEW o \in Procs, Step(o)
  PROVE  ToldInv'
<1>p. past \subseteq past'
      BY PastGrows
<1>q. policy'.paired => policy.paired
  <2>1. CASE InputStore(o)
    <3>1. policy' = policy \/ \E b \in BOOLEAN : policy' = [policy EXCEPT !.denied = b]
          BY <2>1 DEF InputStore
    <3> QED BY <3>1 DEF TypeInv, DataInv
  <2> QED BY <2>1, GuardSteps
<1>s. SUFFICES ASSUME NEW s \in DOMAIN live', Usable(s)', live'[s].handle \in nativeIn',
                      ~live'[s].input, <<"decided", s>> \notin past',
                      <<"retained", live'[s].handle>> \notin past', policy'.paired
               PROVE  \E q \in Procs : Tells(op'[q], live'[s].handle)
      BY DEF ToldInv
<1>n. Register(o) \/ Commit(o) \/ InputStore(o) => live'[s].handle \in nativeIn
  <2>1. Register(o) \/ Commit(o) \/ InputStore(o) => ~Enable(o) /\ ~ApplyInput(o) /\ ~InputApply(o)
        BY ActionPcs
  <2> QED BY <1>s, <2>1, FedBy
<1>1. CASE Unmoved(s) /\ live'[s].input = live[s].input /\ live'[s].released = live[s].released
  <2>1. s \in DOMAIN live /\ Usable(s) /\ ~live[s].input /\ live'[s].handle = live[s].handle
        BY <1>s, <1>1 DEF Unmoved, Usable
  <2>2. CASE live[s].handle \in nativeIn
    <3>1. PICK q \in Procs : Tells(op[q], live[s].handle)
          BY <1>p, <1>q, <1>s, <2>1, <2>2 DEF ToldInv
    <3>2. Tells(op'[q], live[s].handle)
          BY <1>q, <1>s, <1>1, <2>1, <2>2, <3>1, TellsOn
    <3> QED BY <2>1, <3>2
  <2>3. CASE live[s].handle \notin nativeIn
        BY <1>s, <2>1, <2>3, FeedersTell
  <2> QED BY <2>2, <2>3
<1>2. CASE Register(o) /\ live'[s].handle = op[o].h
  <2>1. Making(op[o])
    <3>1. op[o].kind = "start" /\ op[o].pc = "register" /\ Shape(o, op[o])
          BY <1>2, ActionPcs DEF TypeInv, TasksInv
    <3>2. o \in Requests /\ op[o].h = 2 * o
          BY <3>1 DEF Shape, Calls, Running, AtRest, StartShape
    <3>3. op[o].h # 0
          BY <3>2, RequestHandles DEF Handles
    <3> QED BY <3>1, <3>3 DEF Making
  <2> QED BY <1>n, <1>s, <1>2, <2>1, ActionPcs DEF FeedInv
<1>3. CASE Displace(o) /\ Unmoved(s) /\ s \in Displaced(o)
  <2>1. op'[o].kind = "start"
        BY <1>3, StepFields, ActionPcs
  <2>2. op'[o].pc = "disable" /\ op'[o].set = DisplacedHandles(o)
    <3>1. op \in [Procs -> OpRec]
          BY DEF TypeInv, TasksInv
    <3> QED BY <1>3, <3>1 DEF Displace, OpRec
  <2>3. live'[s].handle \in DisplacedHandles(o)
        BY <1>3 DEF Unmoved, DisplacedHandles
  <2> QED BY <2>1, <2>2, <2>3 DEF Tells
<1>4. CASE Published(o, s)
  <2>1. Making(op[o]) /\ op[o].pc = "commit"
        BY <1>4, ActionPcs DEF Published, Making
  <2>2. live'[s].handle \in nativeIn /\ live'[s].handle = op[o].h /\ ~op[o].on
        BY <1>n, <1>s, <1>4 DEF Published
  <2> QED BY <2>1, <2>2 DEF FeedInv
<1>5. CASE Silence(o) /\ s = op[o].sid /\ Unmoved(s)
  <2>1. Silencing(op[o], s)
        BY <1>5, ActionPcs DEF Silencing
  <2>2. live[s].stopped
        BY <1>5, <2>1 DEF EndInv, Unmoved
  <2> QED BY <1>s, <1>5, <2>2 DEF Usable, Unmoved
<1>6. CASE InputStore(o) /\ s = op[o].sid /\ Unmoved(s) /\ live[s].handle = op[o].h /\ live'[s].input = op[o].on
  <2>1. op[o].h \in nativeIn /\ op[o].kind = "input" /\ op[o].pc = "store" /\ ~op[o].on
        BY <1>n, <1>s, <1>6, ActionPcs DEF Unmoved
  <2>2. <<"decided", s>> \in past
        BY <1>6, <2>1 DEF FeedInv
  <2> QED BY <1>p, <1>s, <2>2
<1> QED BY <1>s, <1>1, <1>2, <1>3, <1>4, <1>5, <1>6, FlagSteps DEF Flags, Buried, Usable

(* After a call has begun, a capture that takes input has been told of, or will be. *)
LEMMA ToldBegins ==
  ASSUME TypeInv, StoppedInv, EndInv, FeedInv, ToldInv, Next,
         Begins \/ (\E o \in Procs \ Requests, s \in DOMAIN live, on \in BOOLEAN : InputCall(o, s, on))
  PROVE  ToldInv'
<1>p. past \subseteq past'
      BY PastGrows
<1>q. policy'.paired => policy.paired
  <2>1. policy' = policy \/ \E o \in Procs \ Requests : Revoke(o)
    <3>1. \A o \in Requests, e \in Endpoints : StartBegin(o, e) => policy' = policy
          BY DEF StartBegin
    <3>2. \A o \in Requests, x \in DOMAIN live, m \in BOOLEAN : ReconfigureBegin(o, x, m) => policy' = policy
          BY DEF ReconfigureBegin
    <3>3. \A o \in Procs \ Requests, x \in DOMAIN live : StopStream(o, x) \/ ForceStop(o, x) \/ Sweep(o, x) => policy' = policy
          BY DEF StopStream, ForceStop, Sweep
    <3>4. \A h \in Handles : CaptureEnds(h) => policy' = policy
          BY DEF CaptureEnds
    <3>5. \A o \in Procs \ Requests, x \in DOMAIN live, on \in BOOLEAN : InputCall(o, x, on) => policy' = policy
      <4>1. ASSUME NEW o \in Procs \ Requests, NEW x \in DOMAIN live, NEW on \in BOOLEAN, InputCall(o, x, on)
            PROVE  policy' = policy
            BY <4>1, ZenonT(30) DEF InputCall
      <4> QED BY <4>1
    <3> QED BY <3>1, <3>2, <3>3, <3>4, <3>5 DEF Begins
  <2> QED BY <2>1 DEF Revoke
<1>s. SUFFICES ASSUME NEW s \in DOMAIN live', Usable(s)', live'[s].handle \in nativeIn',
                      ~live'[s].input, <<"decided", s>> \notin past',
                      <<"retained", live'[s].handle>> \notin past', policy'.paired
               PROVE  \E q \in Procs : Tells(op'[q], live'[s].handle)
      BY DEF ToldInv
<1>f. FlagsBegun(s)
      BY FlagBegins
<1>h. s \in DOMAIN live /\ live'[s].handle = live[s].handle /\ live[s].handle \in nativeIn
      BY <1>f, <1>s, FedBegin DEF FlagsBegun
<1>k. \A q \in Procs : \A h : Tells(op[q], h) => op'[q] = op[q]
      BY TaskBegins DEF BegunAs, Tells
<1>1. CASE live'[s].stopped = live[s].stopped /\ live'[s].released = live[s].released /\ live'[s].input = live[s].input
  <2>1. PICK q \in Procs : Tells(op[q], live[s].handle)
        BY <1>h, <1>p, <1>q, <1>s, <1>1 DEF ToldInv, Usable
  <2> QED BY <1>h, <1>k, <2>1
<1>2. ASSUME NEW q \in Procs \ Requests, NEW on \in BOOLEAN, InputCall(q, s, on),
             live'[s].stopped = live[s].stopped, live'[s].released = live[s].released,
             live'[s].input = (live[s].input /\ on)
      PROVE  \E r \in Procs : Tells(op'[r], live'[s].handle)
  <2>u. Usable(s)
        BY <1>h, <1>s, <1>2 DEF Usable
  <2>1. CASE live[s].input
    <3>1. ~on
          BY <1>s, <1>2, <2>1
    <3>2. LeaseCurrent(s)
          BY <1>h, <1>q, <1>s, <2>u, FedIsCurrent
    <3>3. retired[s] # live[s].handle
      <4>1. s \in Requests /\ live[s].handle \in Handles /\ live[s].handle # 0
            BY <1>h, SessionTypes DEF TypeInv, Handles
      <4>2. native[live[s].handle] = "running"
            BY <1>h DEF FeedInv
      <4> QED BY <4>1, <4>2 DEF StoppedInv
    <3>4. op'[q].kind = "input" /\ op'[q].pc = "apply" /\ ~op'[q].on /\ op'[q].h = live[s].handle
          BY <1>h, <1>2, <3>1, <3>2, <3>3, BegunWith
    <3> QED BY <1>h, <3>4 DEF Tells
  <2>2. CASE ~live[s].input
    <3>1. PICK r \in Procs : Tells(op[r], live[s].handle)
          BY <1>h, <1>p, <1>q, <1>s, <2>u, <2>2 DEF ToldInv
    <3> QED BY <1>h, <1>k, <3>1
  <2> QED BY <2>1, <2>2
<1> QED BY <1>f, <1>s, <1>1, <1>2 DEF FlagsBegun, Buried, Usable

(* A capture that takes input has been told of, or will be. *)
LEMMA ToldNext ==
  ASSUME TypeInv, HandleInv, StoppedInv, EndInv, FeedInv, ToldInv, [Next]_vars
  PROVE  ToldInv'
<1>1. CASE UNCHANGED vars
      BY <1>1 DEF vars, ToldInv, Usable, Tells
<1> QED BY <1>1, ToldStep, ToldBegins DEF Next

(* At first no capture takes input. *)
LEMMA ToldInit ==
  ASSUME Init
  PROVE  ToldInv
BY DEF Init, ToldInv

(* A start that has registered its session does not begin to unlock it again. *)
LEMMA EnablesBefore ==
  ASSUME TypeInv, KnowInv, NEW o \in Procs, Step(o), NEW s \in DOMAIN live, op'[s].pc \in {"enable", "flag"}
  PROVE  op[s].pc \in {"enable", "flag"} /\ (op'[s].pc = "enable" => op[s].pc = "enable")
<1>r. s \in Procs
      BY RequestsAreProcs DEF TypeInv, DataInv
<1>1. CASE s # o
      BY <1>1, <1>r, StepActs DEF Acts
<1>2. CASE s = o
  <2>1. Past(op[o])
        BY <1>2 DEF KnowInv
  <2> QED BY <1>2, <2>1, StepMoves DEF Moves, Past
<1> QED BY <1>1, <1>2

(* A replacement published while the start of its session is at work is recorded. *)
LEMMA CarriedOver ==
  ASSUME TypeInv, Next, NEW o \in Procs, Commit(o), NEW s \in DOMAIN live, s = op[o].sid
  PROVE  <<"carried", s>> \in past' \/ op[s].pc = "done"
<1>1. past' = IF op[s].pc = "done" THEN past ELSE past \cup {<<"carried", s>>}
      BY DEF Commit
<1> QED BY <1>1

(* What an operator's decision sets for a session was granted by the operator. *)
LEMMA StoreGrants ==
  ASSUME FeedInv, NEW o \in Procs, InputStore(o), op[o].on
  PROVE  <<"granted", op[o].sid>> \in past
BY ActionPcs DEF FeedInv, Deciding

(* After a step of a task, input a session has before its start unlocks it was given apart. *)
LEMMA SpareStep ==
  ASSUME TypeInv, GuardInv, KnowInv, FeedInv, SpareInv, Next, NEW o \in Procs, Step(o)
  PROVE  SpareInv'
<1>p. past \subseteq past'
      BY PastGrows
<1>f. \A s \in DOMAIN live' : Flags(o, s)
      BY FlagSteps
<1>r. Requests \subseteq Procs /\ DOMAIN live \subseteq Requests
      BY RequestsAreProcs DEF TypeInv, DataInv
<1>s. \A s : Spared(s) => Spared(s)'
      BY <1>p DEF Spared
<1>1. \A s \in DOMAIN live' : op'[s].pc \in {"enable", "flag"} /\ live'[s].input => Spared(s)'
  <2>1. ASSUME NEW s \in DOMAIN live', op'[s].pc \in {"enable", "flag"}, live'[s].input PROVE Spared(s)'
    <3>1. CASE Unmoved(s) /\ live'[s].input = live[s].input
      <4>1. s \in DOMAIN live
            BY <3>1 DEF Unmoved
      <4>2. op[s].pc \in {"enable", "flag"}
            BY <2>1, <4>1, EnablesBefore
      <4> QED BY <1>s, <2>1, <3>1, <4>1, <4>2 DEF SpareInv
    <3>2. CASE FlagEnabled(o) /\ s = o /\ op'[o].pc = "displace"
          BY <2>1, <3>2
    <3>3. CASE Published(o, s)
      <4>1. s \in DOMAIN live /\ op[s].pc # "done"
            BY <2>1, <3>3, EnablesBefore DEF Published
      <4> QED BY <3>3, <4>1, CarriedOver DEF Published, Spared
    <3>4. CASE InputStore(o) /\ s = op[o].sid /\ live'[s].input = op[o].on
      <4>1. Spared(s)
            BY <2>1, <3>4, StoreGrants DEF Spared
      <4> QED BY <1>s, <4>1
    <3> QED BY <1>f, <2>1, <3>1, <3>2, <3>3, <3>4 DEF Flags, Buried
  <2> QED BY <2>1
<1>2. \A s \in DOMAIN live' : live'[s].released /\ ~live'[s].stopped
        => <<"carried", s>> \in past' \/ (op'[s].pc = "done" /\ ~live'[s].input)
  <2>1. ASSUME NEW s \in DOMAIN live', live'[s].released, ~live'[s].stopped
        PROVE  <<"carried", s>> \in past' \/ (op'[s].pc = "done" /\ ~live'[s].input)
    <3>1. CASE Unmoved(s) /\ live'[s].released = live[s].released /\ (live'[s].input => live[s].input)
      <4>1. s \in Procs /\ s \in DOMAIN live
            BY <1>r, <3>1 DEF Unmoved
      <4>2. <<"carried", s>> \in past \/ (op[s].pc = "done" /\ ~live[s].input)
            BY <2>1, <3>1, <4>1 DEF SpareInv, Unmoved
      <4> QED BY <1>p, <3>1, <4>1, <4>2, DoneStays
    <3>2. CASE FlagEnabled(o) /\ s = o /\ Unmoved(s) /\ live'[s].released = live[s].released
      <4>1. op[s].pc = "flag" /\ s \in DOMAIN live
            BY <3>2, ActionPcs DEF Unmoved
      <4> QED BY <1>p, <2>1, <3>2, <4>1 DEF SpareInv, Unmoved
    <3>3. CASE Commit(o) /\ s = op[o].sid /\ Unmoved(s) /\ ~live'[s].input
      <4>1. s \in Procs /\ s \in DOMAIN live
            BY <1>r, <3>3 DEF Unmoved
      <4> QED BY <3>3, <4>1, CarriedOver, DoneStays
    <3>4. CASE InputStore(o) /\ Usable(s) /\ live'[s].released = live[s].released
          BY <2>1, <3>4 DEF Usable
    <3> QED BY <1>f, <2>1, <3>1, <3>2, <3>3, <3>4 DEF Flags, Buried, Published
  <2> QED BY <2>1
<1>3. \A q \in Procs : At(q, "reconfigure", "commit")' /\ op'[q].on /\ op'[q].sid \in DOMAIN live'
        => LET s == op'[q].sid IN live'[s].input \/ <<"carried", s>> \in past' \/ live'[s].stopped
  <2>1. ASSUME NEW q \in Procs, NEW s \in DOMAIN live', At(q, "reconfigure", "commit")', op'[q].on, op'[q].sid = s
        PROVE  live'[s].input \/ <<"carried", s>> \in past' \/ live'[s].stopped
    <3>1. CASE q = o
      <4>1. ApplyInput(o) /\ op[o].kind = "reconfigure"
            BY <2>1, <3>1, ToCommit DEF At
      <4>2. op'[o].sid = op[o].sid
            BY <4>1, StepFields, ActionPcs
      <4>3. op \in [Procs -> OpRec]
            BY DEF TypeInv, TasksInv
      <4>4. op' = [op EXCEPT ![o].pc = "commit", ![o].on = FALSE] => ~op'[o].on
            BY <4>3 DEF OpRec
      <4>5. CarriesInput(o) /\ live' = live
            BY <2>1, <3>1, <4>1, <4>4 DEF ApplyInput
      <4> QED BY <2>1, <3>1, <4>2, <4>5 DEF CarriesInput
    <3>2. CASE q # o
      <4>1. op'[q] = op[q] /\ At(q, "reconfigure", "commit") /\ op[q].on /\ op[q].sid = s
            BY <2>1, <3>2, StepActs DEF Acts, At
      <4>2. ~(Register(o) /\ s = o)
        <5>1. Past(op[s])
              BY <4>1 DEF KnowInv, At, Running, AtRest, About
        <5> QED BY <5>1, ActionPcs DEF Past
      <4>3. ~Commit(o) /\ ~InputStore(o)
        <5>1. Locked(op[q])
              BY <4>1 DEF Locked, At, Running, AtRest
        <5>2. Commit(o) \/ InputStore(o) => Locked(op[o])
              BY ActionPcs DEF Locked, Running, AtRest
        <5> QED BY <3>2, <5>1, <5>2 DEF GuardInv
      <4>4. s \in DOMAIN live => live[s].input \/ <<"carried", s>> \in past \/ live[s].stopped
            BY <4>1 DEF SpareInv
      <4>5. CASE Unmoved(s) /\ (live[s].input => live'[s].input)
            BY <1>p, <4>4, <4>5 DEF Unmoved
      <4>6. CASE Displace(o) /\ s \in Displaced(o)
        <5>1. <<"carried", s>> \in {<<"carried", x>> : x \in {t \in Displaced(o) :
                            \E r \in Procs : At(r, "reconfigure", "commit") /\ op[r].sid = t}}
              BY <4>1, <4>6
        <5>2. <<"carried", s>> \in past'
              BY <4>6, <5>1 DEF Displace
        <5> QED BY <5>2
      <4> QED BY <1>f, <4>2, <4>3, <4>5, <4>6 DEF Flags, Buried, Published
    <3> QED BY <3>1, <3>2
  <2> QED BY <2>1
<1> QED BY <1>1, <1>2, <1>3 DEF SpareInv

(* After a call has begun, input a session has before its start unlocks it was given apart. *)
LEMMA SpareBegins ==
  ASSUME TypeInv, GuardInv, SpareInv, Next,
         Begins \/ (\E o \in Procs \ Requests, s \in DOMAIN live, on \in BOOLEAN : InputCall(o, s, on))
  PROVE  SpareInv'
<1>p. past \subseteq past'
      BY PastGrows
<1>f. \A s \in DOMAIN live' : FlagsBegun(s)
      BY FlagBegins
<1>b. \A q \in Procs : BegunAs(q)
      BY TaskBegins
<1>r. Requests \subseteq Procs /\ DOMAIN live \subseteq Requests
      BY RequestsAreProcs DEF TypeInv, DataInv
<1>a. \A s \in DOMAIN live' : s \in DOMAIN live /\ s \in Procs /\ s \in Requests
      BY <1>f, <1>r DEF FlagsBegun
<1>1. \A s \in DOMAIN live' : op'[s].pc \in {"enable", "flag"} /\ live'[s].input => Spared(s)'
  <2>1. ASSUME NEW s \in DOMAIN live', op'[s].pc \in {"enable", "flag"}, live'[s].input PROVE Spared(s)'
    <3>1. op'[s] = op[s]
          BY <1>a, <1>b, <2>1 DEF BegunAs
    <3>2. live[s].input
          BY <1>f, <2>1 DEF FlagsBegun, Buried
    <3> QED BY <1>a, <1>p, <2>1, <3>1, <3>2 DEF SpareInv, Spared
  <2> QED BY <2>1
<1>2. \A s \in DOMAIN live' : live'[s].released /\ ~live'[s].stopped
        => <<"carried", s>> \in past' \/ (op'[s].pc = "done" /\ ~live'[s].input)
  <2>1. ASSUME NEW s \in DOMAIN live', live'[s].released, ~live'[s].stopped
        PROVE  <<"carried", s>> \in past' \/ (op'[s].pc = "done" /\ ~live'[s].input)
    <3>1. live'[s].stopped = live[s].stopped /\ live'[s].released = live[s].released /\ (live'[s].input => live[s].input)
          BY <1>f, <2>1 DEF FlagsBegun, Buried
    <3>2. <<"carried", s>> \in past \/ (op[s].pc = "done" /\ ~live[s].input)
          BY <1>a, <2>1, <3>1 DEF SpareInv
    <3> QED BY <1>a, <1>p, <3>1, <3>2, DoneStays
  <2> QED BY <2>1
<1>3. \A q \in Procs : At(q, "reconfigure", "commit")' /\ op'[q].on /\ op'[q].sid \in DOMAIN live'
        => LET s == op'[q].sid IN live'[s].input \/ <<"carried", s>> \in past' \/ live'[s].stopped
  <2>1. ASSUME NEW q \in Procs, NEW s \in DOMAIN live', At(q, "reconfigure", "commit")', op'[q].on, op'[q].sid = s
        PROVE  live'[s].input \/ <<"carried", s>> \in past' \/ live'[s].stopped
    <3>1. op'[q] = op[q]
          BY <1>b, <2>1 DEF BegunAs, At, Buried
    <3>2. live[s].input \/ <<"carried", s>> \in past \/ live[s].stopped
          BY <1>a, <2>1, <3>1 DEF SpareInv, At
    <3>3. inputLock # 0
      <4>1. Locked(op[q])
            BY <2>1, <3>1 DEF Locked, At, Running, AtRest
      <4>2. q # 0
            BY DEF TypeInv, DataInv, Procs
      <4> QED BY <4>1, <4>2 DEF GuardInv
    <3>4. \A x \in Procs \ Requests, on \in BOOLEAN : ~InputCall(x, s, on)
          BY <3>3 DEF InputCall
    <3> QED BY <1>f, <1>p, <3>2, <3>4 DEF FlagsBegun, Buried
  <2> QED BY <2>1
<1> QED BY <1>1, <1>2, <1>3 DEF SpareInv

(* Input a session has before its start unlocks it was given apart. *)
LEMMA SpareNext ==
  ASSUME TypeInv, GuardInv, KnowInv, FeedInv, SpareInv, [Next]_vars
  PROVE  SpareInv'
<1>1. CASE UNCHANGED vars
      BY <1>1 DEF vars, SpareInv, Spared, At
<1> QED BY <1>1, SpareStep, SpareBegins DEF Next

(* At first no session has input. *)
LEMMA SpareInit ==
  ASSUME TypeInv, Init
  PROVE  SpareInv
<1>1. live = <<>> /\ \A o \in Procs : op[o] = IdleOp
      BY DEF Init
<1> QED BY <1>1 DEF SpareInv, IdleOp, At

(* A session that lost its input for good does not get it back (control.rs: force_stop_session). *)
LEMMA OutStays ==
  ASSUME TypeInv, GuardInv, KnowInv, StoppedInv, HandleInv, EndInv, FeedInv, SpareInv, Next, NEW o \in Procs, Step(o),
         NEW s \in DOMAIN live', Unmoved(s), live[s].input, ~Spared(s), Out(s)
  PROVE  Out(s)'
<1>u. s \in DOMAIN live /\ s \in Requests /\ s \in Procs /\ live'[s].stopped /\ live'[s].handle = live[s].handle
      BY RequestsAreProcs DEF TypeInv, DataInv, Unmoved, Out
<1>e. op'[s].pc # "enable"
  <2>1. ASSUME op'[s].pc = "enable" PROVE FALSE
    <3>1. op[s].pc = "enable"
          BY <1>u, <2>1, EnablesBefore
    <3> QED BY <1>u, <3>1 DEF SpareInv
  <2> QED BY <2>1
<1>1. ASSUME NEW q \in Procs, Silencing(op[q], s) PROVE Out(s)'
  <2>1. CASE q = o /\ Silence(o) /\ op[o].sid = s
    <3>1. live[s].handle = op[o].h
          BY <1>u, <1>1, <2>1 DEF EndInv
    <3>2. op[o].h \notin nativeIn' \/ op[o].h \in pendingRet' \/ native[op[o].h] = "stopped"
          BY <1>u, <2>1, <3>1, SilenceEnds
    <3>3. op[o].h \in nativeIn' => op[o].h \in nativeIn
      <4>1. ~Enable(o) /\ ~ApplyInput(o) /\ ~InputApply(o)
            BY <2>1, ActionPcs
      <4> QED BY <4>1, FedBy
    <3>4. live'[s].handle \notin nativeIn' \ pendingRet'
          BY <1>u, <3>1, <3>2, <3>3 DEF FeedInv
    <3> QED BY <1>u, <1>e, <3>4 DEF Out
  <2>2. CASE Silencing(op'[q], s)
        BY <1>u, <2>2 DEF Out
  <2> QED BY <1>1, <2>1, <2>2, SilencingStays
<1>2. CASE live[s].handle \notin nativeIn \ pendingRet /\ op[s].pc # "enable"
  <2>1. ASSUME live[s].handle \in nativeIn' \ pendingRet' PROVE FALSE
    <3>h. live[s].handle \in Handles
          BY <1>u DEF TypeInv, DataInv, Session
    <3>0. live[s].handle \notin nativeIn
      <4>1. ASSUME live[s].handle \in nativeIn PROVE FALSE
        <5>1. native'[live[s].handle] = "stopped"
              BY <1>2, <2>1, <3>h, <4>1, NativeStep
        <5>2. native[live[s].handle] = "running"
              BY <4>1 DEF FeedInv
        <5>3. native'[live[s].handle] = "running"
              BY <2>1, <5>2, FedBy
        <5> QED BY <5>1, <5>3
      <4> QED BY <4>1
    <3>1. ~(live[s].handle = 2 * o /\ o \in Requests /\ op[o].kind = "start" /\ op[o].pc = "enable")
          BY <1>u, <1>2 DEF HandleInv
    <3>2. ~(Making(op[o]) /\ live[s].handle = op[o].h)
          BY <1>u DEF HandleInv
    <3>3. ~(Deciding(op[o]) /\ op[o].on /\ live[s].handle = op[o].h)
      <4>1. ASSUME Deciding(op[o]), op[o].on, live[s].handle = op[o].h PROVE FALSE
        <5>1. op[o].sid = s
              BY <1>u, <4>1 DEF HandleInv
        <5>2. <<"granted", s>> \in past
              BY <4>1, <5>1 DEF FeedInv
        <5> QED BY <5>2 DEF Spared
      <4> QED BY <4>1
    <3> QED BY <2>1, <3>0, <3>1, <3>2, <3>3, FedBy
  <2> QED BY <1>u, <1>e, <2>1 DEF Out
<1> QED BY <1>1, <1>2 DEF Out

(* Only a start that unlocks its session makes another session have input. *)
LEMMA WinsBefore ==
  ASSUME TypeInv, GuardInv, KnowInv, StoppedInv, HandleInv, EndInv, FeedInv, SpareInv, Next, NEW o \in Procs, Step(o),
         NEW s \in DOMAIN live', Wins(s)'
  PROVE  \/ s \in DOMAIN live /\ Wins(s)
         \/ Displacing(s)'
<1>p. past \subseteq past'
      BY PastGrows
<1>s. ~Spared(s)
      BY <1>p DEF Spared, Wins
<1>1. CASE Unmoved(s) /\ live'[s].input = live[s].input
  <2>1. s \in DOMAIN live /\ live[s].input
        BY <1>1 DEF Unmoved, Wins
  <2>2. ~Out(s)
        BY <1>s, <1>1, <2>1, OutStays DEF Wins
  <2> QED BY <1>s, <2>1, <2>2 DEF Wins
<1>2. CASE FlagEnabled(o) /\ s = o /\ Unmoved(s) /\ live[s].handle = op[o].h /\ op'[o].pc = "displace" /\ op'[o].h = op[o].h
      BY <1>2 DEF Displacing, Unmoved
<1>3. CASE Published(o, s)
  <2>1. At(o, "reconfigure", "commit") /\ op[o].on /\ s \in DOMAIN live /\ s = op[o].sid /\ ~live[s].stopped
        BY <1>3, ActionPcs DEF Published, Wins, At
  <2>2. live[s].input
        BY <1>s, <2>1 DEF SpareInv, Spared
  <2> QED BY <1>s, <2>1, <2>2 DEF Wins, Out
<1>4. CASE InputStore(o) /\ s = op[o].sid /\ live'[s].input = op[o].on
      BY <1>s, <1>4, StoreGrants DEF Spared, Wins
<1>5. live'[s].input
      BY DEF Wins
<1> QED BY <1>1, <1>2, <1>3, <1>4, <1>5, FlagSteps DEF Flags, Buried

(* The start that unlocked its session last takes the others' input (control.rs: apply_input_policy). *)
LEMMA DisplacingHolds ==
  ASSUME TypeInv, KnowInv, EndInv, FeedInv, SpareInv, Next, NEW o \in Procs, Step(o),
         NEW s \in DOMAIN live, NEW t \in DOMAIN live, s # t, s \in DOMAIN live', t \in DOMAIN live',
         Wins(s), Wins(s)', Wins(t), Wins(t)', Displacing(s)
  PROVE  Displacing(s)'
<1>p. past \subseteq past'
      BY PastGrows
<1>r. s \in Procs
      BY RequestsAreProcs DEF TypeInv, DataInv
<1>1. CASE s # o
  <2>1. op'[s] = op[s]
        BY <1>1, <1>r, StepActs DEF Acts
  <2>2. ~Published(o, s)
    <3>1. ASSUME Published(o, s) PROVE FALSE
      <4>1. <<"carried", s>> \in past'
            BY <3>1, CarriedOver DEF Published, Displacing
      <4> QED BY <4>1 DEF Wins, Spared
    <3> QED BY <3>1
  <2>3. live'[s].handle = live[s].handle
        BY <1>1, <2>2, FlagSteps DEF Flags, Unmoved, Buried
  <2> QED BY <2>1, <2>3 DEF Displacing
<1>2. CASE s = o
  <2>1. Displace(o)
    <3>1. op[o].kind = "start" /\ op[o].pc = "displace"
          BY <1>2 DEF KnowInv, Past, Displacing
    <3> QED BY <3>1, StepMoves DEF Moves
  <2>2. ~live[s].released
    <3>1. ASSUME live[s].released PROVE FALSE
      <4>1. live[s].stopped
            BY <3>1 DEF SpareInv, Displacing, Wins, Spared
      <4>2. live[s].handle \notin nativeIn
            BY <3>1, <4>1 DEF EndInv, FeedInv, Wins, Out
      <4> QED BY <4>1, <4>2 DEF Wins, Out, Displacing
    <3> QED BY <3>1
  <2>3. t \in Displaced(o)
        BY <1>2, <2>2 DEF Displaced, Displacing, Wins
  <2>4. live'[t] = [live[t] EXCEPT !.input = @ /\ t \notin Displaced(o)]
        BY <2>1 DEF Displace
  <2>5. PICK b \in BOOLEAN : b = (live[t].input /\ t \notin Displaced(o)) /\ ~b
        BY <2>3
  <2>6. live'[t] = [live[t] EXCEPT !.input = b]
        BY <2>4, <2>5
  <2>7. live[t] \in Session
        BY DEF TypeInv, DataInv
  <2>8. ~live'[t].input
        BY <2>5, <2>6, <2>7 DEF Session
  <2> QED BY <2>8 DEF Wins
<1> QED BY <1>1, <1>2

(* After a step of a task, of two sessions with input one is still to displace the other. *)
LEMMA WinStep ==
  ASSUME TypeInv, GuardInv, KnowInv, StoppedInv, HandleInv, EndInv, FeedInv, SpareInv, WinInv, Next, NEW o \in Procs, Step(o)
  PROVE  WinInv'
<1>1. SUFFICES ASSUME NEW s \in DOMAIN live', NEW t \in DOMAIN live', s # t, Wins(s)', Wins(t)',
                      ~Displacing(s)', ~Displacing(t)'
               PROVE  FALSE
      BY DEF WinInv
<1>2. s \in DOMAIN live /\ t \in DOMAIN live /\ Wins(s) /\ Wins(t)
      BY <1>1, WinsBefore
<1>3. Displacing(s) \/ Displacing(t)
      BY <1>1, <1>2 DEF WinInv
<1>4. ~Displacing(s)
      BY <1>1, <1>2, DisplacingHolds
<1>5. ~Displacing(t)
      BY <1>1, <1>2, DisplacingHolds
<1> QED BY <1>3, <1>4, <1>5

(* After a call has begun, of two sessions with input one is still to displace the other. *)
LEMMA WinBegins ==
  ASSUME TypeInv, WinInv, Next,
         Begins \/ (\E o \in Procs \ Requests, s \in DOMAIN live, on \in BOOLEAN : InputCall(o, s, on))
  PROVE  WinInv'
<1>p. past \subseteq past'
      BY PastGrows
<1>b. \A q \in Procs : BegunAs(q)
      BY TaskBegins
<1>r. Requests \subseteq Procs /\ DOMAIN live \subseteq Requests
      BY RequestsAreProcs DEF TypeInv, DataInv
<1>i. \A q \in Procs : \A s : Silencing(op[q], s) => Silencing(op'[q], s)
      BY <1>b DEF BegunAs, Silencing
<1>1. ASSUME NEW s \in DOMAIN live', Wins(s)'
      PROVE  s \in DOMAIN live /\ Wins(s) /\ (Displacing(s) => Displacing(s)')
  <2>1. FlagsBegun(s)
        BY FlagBegins
  <2>2. /\ s \in DOMAIN live /\ live'[s].handle = live[s].handle /\ live[s].input /\ live'[s].stopped = live[s].stopped
        BY <1>1, <2>1 DEF FlagsBegun, Buried, Wins
  <2>3. ~Spared(s)
        BY <1>1, <1>p DEF Wins, Spared
  <2>4. s \in Procs /\ s \in Requests
        BY <1>r, <2>2
  <2>5. op'[s].pc = "enable" => op[s].pc = "enable"
        BY <1>b, <2>4 DEF BegunAs
  <2>6. Out(s) => Out(s)'
    <3>1. pendingRet' = pendingRet
          BY BeginsKeep
    <3>2. live[s].handle \in nativeIn' => live[s].handle \in nativeIn
          BY FedBegin
    <3> QED BY <1>i, <2>2, <2>5, <3>1, <3>2 DEF Out
  <2>7. Displacing(s) => Displacing(s)'
        BY <1>b, <2>2, <2>4 DEF BegunAs, Displacing
  <2> QED BY <1>1, <2>2, <2>3, <2>6, <2>7 DEF Wins
<1> QED BY <1>1 DEF WinInv

(* Of two sessions with input one is still to displace the other. *)
LEMMA WinNext ==
  ASSUME TypeInv, GuardInv, KnowInv, StoppedInv, HandleInv, EndInv, FeedInv, SpareInv, WinInv, [Next]_vars
  PROVE  WinInv'
<1>1. CASE UNCHANGED vars
      BY <1>1 DEF vars, WinInv, Wins, Spared, Out, Silencing, Displacing
<1> QED BY <1>1, WinStep, WinBegins DEF Next

(* At first no session has input. *)
LEMMA WinInit ==
  ASSUME Init
  PROVE  WinInv
BY DEF Init, WinInv

-----------------------------------------------------------------------------
(* What is true of the tasks, and of who takes input, at every time. *)
InputIsSound ==
  TasksAreSound /\ HandleInv /\ EndInv /\ FeedInv /\ ToldInv /\ SpareInv /\ WinInv

(* Who takes input is known in every reachable state. *)
LEMMA InputStaysSound ==
  ASSUME MaxRequests \in Nat, MaxCalls \in Nat
  PROVE  Spec => []InputIsSound
<1>1. Init /\ TasksAreSound => InputIsSound
      BY HandleInit, EndInit, FeedInit, ToldInit, SpareInit, WinInit DEF InputIsSound, TasksAreSound
<1>2. InputIsSound /\ TasksAreSound' /\ [Next]_vars => InputIsSound'
      BY HandleNext, EndNext, FeedNext, ToldNext, SpareNext, WinNext DEF InputIsSound, TasksAreSound
<1>3. Spec => []TasksAreSound
      BY TasksStaySound
<1> QED BY <1>1, <1>2, <1>3, PTL DEF Spec

(* When everything has settled, a capture that takes input is an unlocked session's. *)
LEMMA QuietInput ==
  ASSUME InputIsSound
  PROVE  InputIsReportedApart
<1>1. SUFFICES ASSUME Quiet, NEW h \in nativeIn \ pendingRet
               PROVE  \E s \in DOMAIN live : /\ live[s].handle = h
                                            /\ \/ live[s].input
                                               \/ <<"decided", s>> \in past
                                               \/ <<"retained", h>> \in past
      BY DEF InputIsReportedApart
<1>2. \A o \in Procs : ~Retiring(op[o], h) /\ ~Making(op[o]) /\ ~Tells(op[o], h)
      BY <1>1 DEF Quiet, Retiring, InTargets, Making, Tells
<1>3. native[h] = "running" /\ h \in Handles
      BY DEF InputIsSound, FeedInv, TasksAreSound, TypeInv, DataInv
<1>4. PICK s \in DOMAIN live : live[s].handle = h /\ ~live[s].released
      BY <1>2, <1>3 DEF InputIsSound, TasksAreSound, AccountInv
<1>5. Usable(s)
      BY <1>1, <1>3, <1>4 DEF InputIsSound, EndInv, Usable
<1>6. policy.paired
      BY <1>1, <1>4 DEF InputIsSound, TasksAreSound, RevokedInv, Quiet, At
<1> QED BY <1>2, <1>4, <1>5, <1>6 DEF InputIsSound, ToldInv

(* When everything has settled, one session at most has input that nobody gave it apart. *)
LEMMA QuietWinner ==
  ASSUME InputIsSound
  PROVE  LastSessionWinsApart
<1> DEFINE S == {s \in DOMAIN live : /\ live[s].input /\ live[s].handle \in nativeIn
                                     /\ ~(live[s].stopped /\ live[s].handle \in pendingRet)
                                     /\ <<"granted", s>> \notin past
                                     /\ <<"carried", s>> \notin past}
<1>1. ASSUME Quiet, NEW s \in S, NEW t \in S, s # t PROVE FALSE
  <2>1. s \in Procs /\ t \in Procs
        BY RequestsAreProcs DEF InputIsSound, TasksAreSound, TypeInv, DataInv
  <2>2. Wins(s) /\ Wins(t)
        BY <1>1 DEF Wins, Spared, Out, Silencing, Quiet
  <2>3. Displacing(s) \/ Displacing(t)
        BY <1>1, <2>2 DEF InputIsSound, WinInv
  <2> QED BY <1>1, <2>1, <2>3 DEF Displacing, Quiet
<1>2. ASSUME Quiet PROVE Cardinality(S) <= 1
  <2>1. CASE S = {}
    <3>1. Cardinality(S) = 0
          BY <2>1, FS_EmptySet
    <3> QED BY <3>1
  <2>2. CASE S # {}
    <3>1. PICK s : s \in S
          BY <2>2
    <3>2. S = {s}
          BY <1>1, <1>2, <3>1
    <3>3. Cardinality({s}) = 1
          BY FS_Singleton
    <3>4. Cardinality(S) = 1
          BY <3>2, <3>3
    <3> QED BY <3>4
  <2> QED BY <2>1, <2>2
<1> QED BY <1>2 DEF LastSessionWinsApart

(* Once everything has settled, a capture takes input only for a session the host reports as          *)
(* unlocked (control.rs:2332, 3399, 1958), and the last session that starts with input has it alone   *)
(* (control.rs:3439), but for the overlaps with an operator's decision and with a publication that    *)
(* the two properties name.                                                                           *)
THEOREM InputStaysAccounted ==
  ASSUME MaxRequests \in Nat, MaxCalls \in Nat
  PROVE  Spec => []InputIsAccounted
<1>1. InputIsSound => InputIsAccounted
      BY QuietInput, QuietWinner DEF InputIsAccounted
<1> QED BY <1>1, InputStaysSound, PTL
=============================================================================
