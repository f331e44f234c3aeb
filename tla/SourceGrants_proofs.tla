------------------------- MODULE SourceGrants_proofs -------------------------
(* Theorems about SourceGrants, for every value of its constants: how many *)
(* devices, displays, sessions and operators there are, and how often the  *)
(* disk and the process fail.                                              *)
EXTENDS SourceGrants, TLAPS

(* A thread that is at work has a device of the store. *)
TypeInv ==
    /\ TypeOK
    /\ \A a \in Admins : admin[a].at # "idle" => admin[a].owner \in Owners

-----------------------------------------------------------------------------
(* Lemmas about the operators of the store.                                *)

(* Replacing the record of a device yields a journal, and another record   *)
(* for this device only.                                                   *)
LEMMA WithIsJournal ==
    ASSUME journal \in Journal, NEW o \in Owners, NEW record \in Record
    PROVE  /\ With(o, record) \in Journal
           /\ With(o, record).devices[o] = record
           /\ With(o, record).dirty = journal.dirty
           /\ \A p \in Owners :
                 p # o => With(o, record).devices[p] = journal.devices[p]
  BY DEF With, Journal

(* The record of an update, written or not. *)
LEMMA RecordsOfUpdate ==
    ASSUME journal \in Journal, NEW o \in Owners, NEW want \in SUBSET Sources,
           NEW b \in BOOLEAN
    PROVE  [journal.devices[o] EXCEPT !.sources = want, !.reviewed = b] \in Record
<1>1. journal.devices[o] \in Record
      BY DEF Journal
<1> QED BY <1>1 DEF Record

(* What a written update records is a journal, ... *)
LEMMA ReviewedIsJournal ==
    ASSUME journal \in Journal, NEW o \in Owners, NEW want \in SUBSET Sources
    PROVE  Reviewed(o, want) \in Journal
  BY RecordsOfUpdate, WithIsJournal DEF Reviewed

(* ... what one that could not be written records is one, ... *)
LEMMA UnwrittenIsJournal ==
    ASSUME journal \in Journal, NEW o \in Owners, NEW want \in SUBSET Sources
    PROVE  Unwritten(o, want) \in Journal
  BY RecordsOfUpdate, WithIsJournal DEF Unwritten

(* ... and so is what an input decision records. *)
LEMMA InputIsJournal ==
    ASSUME journal \in Journal, NEW o \in Owners, NEW choice \in Inputs
    PROVE  LET record == [journal.devices[o] EXCEPT !.input = choice]
           IN  record \in Record /\ With(o, record) \in Journal
<1>1. journal.devices[o] \in Record
      BY DEF Journal
<1>2. [journal.devices[o] EXCEPT !.input = choice] \in Record
      BY <1>1 DEF Record
<1> QED BY <1>2, WithIsJournal

(* Revoking and invalidating touch the named leases only, and never what   *)
(* works under a lease.                                                    *)
LEMMA RevokeStays ==
    ASSUME lease \in [Leases -> Lease], NEW ls, Revoke(ls)
    PROVE  /\ lease' \in [Leases -> Lease]
           /\ \A l \in Leases :
                 /\ lease'[l].owner = lease[l].owner
                 /\ lease'[l].source = lease[l].source
                 /\ lease'[l].inFlight = lease[l].inFlight
                 /\ lease'[l].listed = lease[l].listed
                 /\ lease'[l].state = IF l \in ls THEN "revoked"
                                      ELSE lease[l].state
  BY DEF Revoke, Lease

(* An invalidated lease keeps its owner, its source and its work. *)
LEMMA InvalidateStays ==
    ASSUME lease \in [Leases -> Lease], NEW ls, Invalidate(ls)
    PROVE  /\ lease' \in [Leases -> Lease]
           /\ \A l \in Leases :
                 /\ lease'[l].owner = lease[l].owner
                 /\ lease'[l].source = lease[l].source
                 /\ lease'[l].inFlight = lease[l].inFlight
                 /\ lease'[l].listed <=> lease[l].listed /\ l \notin ls
                 /\ lease'[l].state = IF l \in ls THEN "revoked"
                                      ELSE lease[l].state
  BY DEF Invalidate, Lease

(* What a write, whether it succeeds or fails, leaves on the disk. *)
LEMMA WritesJournals ==
    ASSUME disk \subseteq Journal, disk # {}, faults \in Nat,
           NEW j \in Journal, Written(j) \/ NotWritten(j)
    PROVE  disk' \subseteq Journal /\ disk' # {} /\ faults' \in Nat
  BY DEF Written, NotWritten

(* An update keeps the types of what it writes. *)
LEMMA UpdateIsJournal ==
    ASSUME TypeOK, NEW o \in Owners, NEW want \in SUBSET Sources,
           UpdateWritten(o, want) \/ UpdateFailed(o, want)
    PROVE  /\ journal' \in Journal /\ disk' \subseteq Journal /\ disk' # {}
           /\ errors' \subseteq Owners /\ faults' \in Nat
<1>1. CASE UpdateWritten(o, want)
      BY <1>1, ReviewedIsJournal, WritesJournals DEF UpdateWritten, TypeOK
<1>2. CASE UpdateFailed(o, want)
      BY <1>2, ReviewedIsJournal, UnwrittenIsJournal, WritesJournals
      DEF UpdateFailed, TypeOK
<1> QED BY <1>1, <1>2

-----------------------------------------------------------------------------
(* TypeInv is inductive. *)
LEMMA TypeInit == Init => TypeInv
<1> SUFFICES ASSUME Init PROVE TypeInv
    OBVIOUS
<1>1. Empty \in Journal
      BY DEF Empty, Journal, Record, Inputs
<1>2. NoLease \in Lease /\ Idle \in Thread
      BY DEF NoLease, Lease, Idle, Thread
<1>3. \A a \in Admins : admin[a].at = "idle"
      BY DEF Init, Idle
<1>4. journal \in Journal /\ disk \subseteq Journal /\ disk # {}
      BY <1>1 DEF Init
<1>5. lease \in [Leases -> Lease] /\ admin \in [Admins -> Thread]
      BY <1>2 DEF Init
<1>6. {changes, faults, crashes} \subseteq Nat
      BY DEF Init
<1> QED BY <1>3, <1>4, <1>5, <1>6 DEF Init, TypeInv, TypeOK, Hosts

(* Every step keeps the types. *)
LEMMA TypeStep == TypeInv /\ [Next]_vars => TypeInv'
<1> SUFFICES ASSUME TypeInv, [Next]_vars PROVE TypeInv'
    OBVIOUS
<1> USE DEF TypeInv, TypeOK, Hosts
<1>i. Idle \in Thread
      BY DEF Idle, Thread
<1>1. ASSUME NEW j \in disk, Open(j)
      PROVE  TypeInv'
  <2>1. j \in Journal /\ [j EXCEPT !.dirty = TRUE] \in Journal
        BY DEF Journal
  <2>2. journal' \in Journal /\ disk' \subseteq Journal /\ disk' # {}
            /\ faults' \in Nat /\ host' \in Hosts
    <3>1. CASE /\ disk' = {[j EXCEPT !.dirty = TRUE]} /\ faults' = faults
               /\ host' = "up" /\ journal' = [j EXCEPT !.dirty = TRUE]
          BY <2>1, <3>1
    <3>2. CASE /\ faults' = faults + 1
               /\ disk' \in {{j}, {j, [j EXCEPT !.dirty = TRUE]}}
               /\ UNCHANGED <<host, journal>>
      <4>1. faults' \in Nat /\ journal' \in Journal /\ host' \in Hosts
            BY <3>2
      <4>2. CASE disk' = {j}
            BY <2>1, <4>1, <4>2
      <4>3. CASE disk' = {j, [j EXCEPT !.dirty = TRUE]}
            BY <2>1, <4>1, <4>3
      <4> QED BY <3>2, <4>2, <4>3
    <3>3. \/ /\ disk' = {[j EXCEPT !.dirty = TRUE]} /\ faults' = faults
             /\ host' = "up" /\ journal' = [j EXCEPT !.dirty = TRUE]
          \/ /\ faults' = faults + 1
             /\ disk' \in {{j}, {j, [j EXCEPT !.dirty = TRUE]}}
             /\ UNCHANGED <<host, journal>>
          BY <1>1, Zenon DEF Open, Written
    <3> QED BY <3>1, <3>2, <3>3
  <2>3. /\ errors' = {} /\ closed' = FALSE
        /\ UNCHANGED <<fenced, lease, live, admin, changes, crashes>>
        BY <1>1 DEF Open
  <2>4. {changes', faults', crashes'} \subseteq Nat
        BY <2>2, <2>3
  <2>5. \A a \in Admins : admin'[a].at # "idle" => admin'[a].owner \in Owners
        BY <2>3
  <2>6. errors' \subseteq Owners /\ closed' \in BOOLEAN
        BY <2>3
  <2>7. UNCHANGED <<fenced, lease, live, admin>>
        BY <2>3
  <2> QED BY <2>2, <2>4, <2>5, <2>6, <2>7
<1>2. ASSUME NEW l \in Leases, NEW o \in Owners, NEW s \in Sources,
             Access(l, o, s)
      PROVE  TypeInv'
  <2>1. lease' \in [Leases -> Lease]
        BY <1>2 DEF Access, Lease
  <2> QED BY <1>2, <2>1 DEF Access, hostVars, storeVars, budgets
<1>3. ASSUME NEW l \in Leases, NEW s \in Sources, Switch(l, s)
      PROVE  TypeInv'
  <2>1. lease' \in [Leases -> Lease]
        BY <1>3 DEF Switch, Lease
  <2> QED BY <1>3, <2>1 DEF Switch, hostVars, storeVars, budgets
<1>4. ASSUME NEW l \in Leases, Register(l)
      PROVE  TypeInv'
      BY <1>4 DEF Register, hostVars, storeVars, budgets
<1>5. ASSUME NEW l \in Leases, Enter(l) \/ Leave(l)
      PROVE  TypeInv'
  <2>1. lease' \in [Leases -> Lease]
        BY <1>5 DEF Enter, Leave, Lease
  <2> QED BY <1>5, <2>1 DEF Enter, Leave, hostVars, storeVars, budgets
<1>6. ASSUME NEW l \in Leases, ForceStop(l)
      PROVE  TypeInv'
      BY <1>6, RevokeStays DEF ForceStop, hostVars, storeVars, budgets
<1>7. ASSUME NEW a \in Admins, NEW o \in Owners, NEW want \in SUBSET Sources,
             BeginUpdate(a, o, want)
      PROVE  TypeInv'
  <2>1. admin' \in [Admins -> Thread]
        BY <1>7 DEF BeginUpdate, Thread
  <2>2. \A b \in Admins : admin'[b].at # "idle" => admin'[b].owner \in Owners
        BY <1>7 DEF BeginUpdate
  <2> QED BY <1>7, <2>1, <2>2 DEF BeginUpdate, hostVars, storeVars
<1>8. ASSUME NEW a \in Admins, Update(a)
      PROVE  TypeInv'
  <2>1. admin[a].owner \in Owners /\ admin[a].want \in SUBSET Sources
        BY <1>8 DEF Update, Thread
  <2>2. Listed(admin[a].owner) \subseteq Leases
        BY DEF Listed, OwnedBy
  <2>3. admin' \in [Admins -> Thread]
    <3>1. [admin[a] EXCEPT !.at = "updated", !.waits = Listed(admin[a].owner)]
             \in Thread
          BY <2>2 DEF Thread
    <3>2. admin' = [admin EXCEPT ![a].at = "updated",
                                 ![a].waits = Listed(admin[a].owner)]
          BY <1>8 DEF Update
    <3> QED BY <3>1, <3>2
  <2>4. \A b \in Admins : admin'[b].at # "idle" => admin'[b].owner \in Owners
        BY <1>8, <2>1 DEF Update, Thread
  <2>5. lease' \in [Leases -> Lease]
        BY <1>8, InvalidateStays DEF Update
  <2> QED BY <1>8, <2>1, <2>3, <2>4, <2>5, UpdateIsJournal DEF Update, hostVars
<1>9. ASSUME NEW a \in Admins, UpdateRefused(a) \/ Return(a)
      PROVE  TypeInv'
  <2>1. admin' \in [Admins -> Thread]
        BY <1>9, <1>i DEF UpdateRefused, Return
  <2>2. \A b \in Admins : admin'[b].at # "idle" => admin'[b].owner \in Owners
        BY <1>9 DEF UpdateRefused, Return, Idle
  <2> QED BY <1>9, <2>1, <2>2 DEF UpdateRefused, Return, hostVars, storeVars, budgets
<1>10. ASSUME NEW a \in Admins, StopSessions(a)
       PROVE  TypeInv'
  <2>1. admin' \in [Admins -> Thread]
        BY <1>10 DEF StopSessions, Thread
  <2>2. \A b \in Admins : admin'[b].at # "idle" => admin'[b].owner \in Owners
        BY <1>10 DEF StopSessions, Thread
  <2>3. lease' \in [Leases -> Lease] /\ live' \subseteq Leases
        BY <1>10, RevokeStays DEF StopSessions
  <2> QED BY <1>10, <2>1, <2>2, <2>3 DEF StopSessions, hostVars, storeVars, budgets
<1>11. ASSUME NEW o \in Owners, NEW choice \in {"allowed", "denied"},
              SetInput(o, choice)
       PROVE  TypeInv'
  <2>1. With(o, [journal.devices[o] EXCEPT !.input = choice]) \in Journal
        BY InputIsJournal DEF Inputs
  <2> QED BY <1>11, <2>1, WritesJournals DEF SetInput, hostVars
<1>12. CASE BeginShutdown
       BY <1>12 DEF BeginShutdown, storeVars, budgets
<1>13. CASE Fence
  <2>1. fenced' \subseteq Leases
        BY <1>13 DEF Fence, Listed, OwnedBy
  <2> QED BY <1>13, <2>1, InvalidateStays DEF Fence, storeVars, budgets
<1>14. CASE Drain
       BY <1>14 DEF Drain, Retired, storeVars
<1>15. CASE Finish
  <2>1. [journal EXCEPT !.dirty = FALSE] \in Journal
        BY DEF Journal
  <2> QED BY <1>15, <2>1, WritesJournals DEF Finish
<1>16. CASE Exit
  <2>1. lease' \in [Leases -> Lease]
        BY <1>16 DEF Exit, Forget, Lease, NoLease
  <2>2. admin' \in [Admins -> Thread] /\ \A a \in Admins : admin'[a].at = "idle"
        BY <1>16, <1>i DEF Exit, Forget, Idle
  <2>3. /\ host' = "down" /\ live' = {} /\ fenced' = {}
        /\ UNCHANGED <<closed, storeVars, changes, faults>>
        BY <1>16 DEF Exit, Forget
  <2>4. crashes' \in Nat
        BY <1>16 DEF Exit
  <2> QED BY <2>1, <2>2, <2>3, <2>4 DEF storeVars
<1>17. CASE UNCHANGED vars
       BY <1>17 DEF vars, hostVars, storeVars, budgets
<1> QED BY <1>1, <1>2, <1>3, <1>4, <1>5, <1>6, <1>7, <1>8, <1>9, <1>10, <1>11,
           <1>12, <1>13, <1>14, <1>15, <1>16, <1>17 DEF Next, AdminStep

(* Every variable stays in its domain, however many devices, displays and  *)
(* sessions there are.                                                     *)
THEOREM TypeCorrect == Spec => []TypeOK
<1>1. Spec => []TypeInv
      BY TypeInit, TypeStep, PTL DEF Spec
<1> QED BY <1>1, PTL DEF TypeInv

-----------------------------------------------------------------------------
(* The argument for the leases.  What the store lists is granted: every    *)
(* change of a record takes the leases of its device out of the list in    *)
(* the same step.  What is valid is listed, and what works under a lease   *)
(* that is not listed any more has somebody waiting for it, who began to   *)
(* wait when the lease left the list.                                      *)
Granted(l) ==
    lease[l].listed =>
        /\ lease[l].owner \in Owners /\ Running
        /\ Allows(lease[l].owner, lease[l].source)

Awaited(l) ==
    lease[l].inFlight > 0 =>
        \/ lease[l].listed
        \/ l \in fenced
        \/ \E a \in Admins : l \in admin[a].waits

LeaseInv ==
    /\ \A l \in Leases :
          /\ lease[l].state = "valid" => lease[l].listed
          /\ Granted(l) /\ Awaited(l)
          /\ lease[l].state = "unused" => lease[l].inFlight = 0
    /\ \A a \in Admins : admin[a].at \in {"idle", "begun"} => admin[a].waits = {}
    /\ host # "draining" => fenced = {}

(* Changing the input decision, or the dirty flag, grants nothing new.     *)
LEMMA SameGrants ==
    ASSUME journal \in Journal, NEW o \in Owners, NEW choice \in Inputs,
           journal' = With(o, [journal.devices[o] EXCEPT !.input = choice]),
           NEW p \in Owners
    PROVE  /\ journal'.devices[p].sources = journal.devices[p].sources
           /\ journal'.devices[p].reviewed = journal.devices[p].reviewed
<1>1. journal.devices[o] \in Record
      BY DEF Journal
<1>2. CASE p = o
      BY <1>1, <1>2, InputIsJournal, WithIsJournal DEF Record
<1>3. CASE p # o
      BY <1>3, InputIsJournal, WithIsJournal
<1> QED BY <1>2, <1>3

(* An update leaves the records of the other devices alone. *)
LEMMA OthersKeepGrants ==
    ASSUME journal \in Journal, NEW o \in Owners, NEW want \in SUBSET Sources,
           UpdateWritten(o, want) \/ UpdateFailed(o, want),
           NEW p \in Owners, p # o
    PROVE  journal'.devices[p] = journal.devices[p]
<1>1. \A record \in Record : With(o, record).devices[p] = journal.devices[p]
      BY WithIsJournal
<1>2. Reviewed(o, want).devices[p] = journal.devices[p]
      BY <1>1, RecordsOfUpdate DEF Reviewed
<1>3. Unwritten(o, want).devices[p] = journal.devices[p]
      BY <1>1, RecordsOfUpdate DEF Unwritten
<1> QED BY <1>2, <1>3 DEF UpdateWritten, UpdateFailed

(* The leases are in line at the start. *)
LEMMA LeaseInit == Init => LeaseInv
  BY DEF Init, LeaseInv, Granted, Awaited, NoLease, Idle

(* Every step keeps the leases in line with the grants. *)
LEMMA LeaseStep == TypeInv /\ LeaseInv /\ [Next]_vars => LeaseInv'
<1> SUFFICES ASSUME TypeInv, LeaseInv, [Next]_vars PROVE LeaseInv'
    OBVIOUS
<1>t. /\ journal \in Journal /\ lease \in [Leases -> Lease]
      /\ admin \in [Admins -> Thread] /\ fenced \subseteq Leases
      BY DEF TypeInv, TypeOK
<1> USE DEF LeaseInv, Granted, Awaited, Allows, SourcesOf, Running
<1>1. ASSUME NEW j \in disk, Open(j)
      PROVE  LeaseInv'
  <2>1. \A l \in Leases : ~lease[l].listed
        BY <1>1 DEF Open
  <2> QED BY <1>1, <2>1 DEF Open
<1>2. ASSUME NEW l \in Leases, NEW o \in Owners, NEW s \in Sources,
             Access(l, o, s)
      PROVE  LeaseInv'
      BY <1>2, <1>t DEF Access, hostVars, storeVars, budgets
<1>3. ASSUME NEW l \in Leases, NEW s \in Sources, Switch(l, s)
      PROVE  LeaseInv'
      BY <1>3, <1>t DEF Switch, Lease, hostVars, storeVars, budgets
<1>4. ASSUME NEW l \in Leases, Register(l)
      PROVE  LeaseInv'
      BY <1>4 DEF Register, hostVars, storeVars, budgets
<1>5. ASSUME NEW l \in Leases, Enter(l) \/ Leave(l)
      PROVE  LeaseInv'
      BY <1>5, <1>t DEF Enter, Leave, Lease, hostVars, storeVars, budgets
<1>6. ASSUME NEW l \in Leases, ForceStop(l)
      PROVE  LeaseInv'
      BY <1>6, <1>t, RevokeStays DEF ForceStop, hostVars, storeVars, budgets
<1>7. ASSUME NEW a \in Admins, NEW o \in Owners, NEW want \in SUBSET Sources,
             BeginUpdate(a, o, want)
      PROVE  LeaseInv'
      BY <1>7, <1>t DEF BeginUpdate, hostVars, storeVars
<1>8. ASSUME NEW a \in Admins, Update(a)
      PROVE  LeaseInv'
  <2> DEFINE o == admin[a].owner
             want == admin[a].want
  <2>1. o \in Owners /\ want \in SUBSET Sources
        BY <1>8, <1>t DEF Update, Thread, TypeInv
  <2>i. /\ lease' \in [Leases -> Lease]
        /\ \A l \in Leases :
              /\ lease'[l].owner = lease[l].owner
              /\ lease'[l].source = lease[l].source
              /\ lease'[l].inFlight = lease[l].inFlight
              /\ lease'[l].listed <=> lease[l].listed /\ l \notin Listed(o)
              /\ lease'[l].state = IF l \in Listed(o) THEN "revoked"
                                   ELSE lease[l].state
        BY <1>8, <1>t, InvalidateStays DEF Update
  <2>2. \A l \in Leases : lease'[l].listed => lease[l].listed /\ lease[l].owner # o
        BY <2>i DEF Listed, OwnedBy
  <2>3. \A p \in Owners : p # o => journal'.devices[p] = journal.devices[p]
        BY <1>8, <1>t, <2>1, OthersKeepGrants DEF Update
  <2>4. \A b \in Admins : admin[b].waits \subseteq admin'[b].waits
        BY <1>8, <1>t DEF Update, Thread
  <2>5. admin'[a].waits = Listed(o) /\ admin'[a].at = "updated"
        BY <1>8, <1>t DEF Update, Thread
  <2>6. \A l \in Leases : Granted(l)'
        BY <1>8, <2>i, <2>2, <2>3 DEF Update, hostVars
  <2>7. \A l \in Leases : Awaited(l)'
        BY <1>8, <2>i, <2>4, <2>5 DEF Update, hostVars, Listed, OwnedBy
  <2>8. \A b \in Admins : admin'[b].at \in {"idle", "begun"} => admin'[b].waits = {}
        BY <1>8, <1>t, <2>5 DEF Update, Thread
  <2>9. \A l \in Leases :
           /\ lease'[l].state = "valid" => lease'[l].listed
           /\ lease'[l].state = "unused" => lease'[l].inFlight = 0
        BY <2>i
  <2> QED BY <1>8, <2>6, <2>7, <2>8, <2>9 DEF Update, hostVars
<1>9. ASSUME NEW a \in Admins, UpdateRefused(a)
      PROVE  LeaseInv'
      BY <1>9, <1>t DEF UpdateRefused, Idle, hostVars, storeVars, budgets
<1>10. ASSUME NEW a \in Admins, StopSessions(a)
       PROVE  LeaseInv'
  <2>1. /\ lease' \in [Leases -> Lease]
        /\ \A l \in Leases :
              /\ lease'[l].owner = lease[l].owner
              /\ lease'[l].source = lease[l].source
              /\ lease'[l].inFlight = lease[l].inFlight
              /\ lease'[l].listed = lease[l].listed
              /\ lease'[l].state \in {lease[l].state, "revoked"}
        BY <1>10, <1>t, RevokeStays DEF StopSessions
  <2>2. \A b \in Admins : /\ admin'[b].waits = admin[b].waits
                           /\ admin'[b].at \in {admin[b].at, "waiting"}
        BY <1>10, <1>t DEF StopSessions, Thread
  <2> QED BY <1>10, <2>1, <2>2 DEF StopSessions, hostVars, storeVars, budgets
<1>11. ASSUME NEW a \in Admins, Return(a)
       PROVE  LeaseInv'
  <2>1. \A l \in admin[a].waits : lease[l].inFlight = 0
        BY <1>11 DEF Return
  <2>2. admin' = [admin EXCEPT ![a] = Idle]
        BY <1>11 DEF Return
  <2>3. UNCHANGED <<hostVars, storeVars, lease, live, budgets>>
        BY <1>11 DEF Return
  <2> QED BY <1>t, <2>1, <2>2, <2>3 DEF Idle, hostVars, storeVars
<1>12. ASSUME NEW o \in Owners, NEW choice \in {"allowed", "denied"},
              SetInput(o, choice)
       PROVE  LeaseInv'
  <2>1. \A p \in Owners :
           /\ journal'.devices[p].sources = journal.devices[p].sources
           /\ journal'.devices[p].reviewed = journal.devices[p].reviewed
        BY <1>12, <1>t, SameGrants DEF SetInput, Inputs
  <2> QED BY <1>12, <2>1 DEF SetInput, hostVars
<1>13. CASE BeginShutdown
       BY <1>13 DEF BeginShutdown, storeVars, budgets
<1>14. CASE Fence
  <2>1. fenced' = UNION {Listed(o) : o \in Owners} /\ Invalidate(fenced')
        BY <1>14 DEF Fence
  <2>2. \A l \in Leases : lease[l].listed <=> l \in fenced'
        BY <1>t, <2>1 DEF Listed, OwnedBy
  <2>3. \A l \in Leases : ~lease'[l].listed
        BY <1>t, <2>1, <2>2, InvalidateStays
  <2>4. fenced = {} /\ admin' = admin
        BY <1>14 DEF Fence
  <2> QED BY <1>14, <1>t, <2>1, <2>2, <2>3, <2>4, InvalidateStays DEF Fence
<1>15. CASE Drain
       BY <1>15, <1>t DEF Drain, Drained, Retired, storeVars
<1>16. CASE Finish
  <2>1. journal'.devices = journal.devices
        BY <1>16, <1>t DEF Finish, Journal
  <2> QED BY <1>16, <2>1 DEF Finish
<1>17. CASE Exit
  <2>1. \A l \in Leases : /\ lease'[l].state # "valid" /\ ~lease'[l].listed
                           /\ lease'[l].inFlight = 0
        BY <1>17, <1>t DEF Exit, Forget, Lease, NoLease
  <2>2. \A a \in Admins : admin'[a].waits = {}
        BY <1>17 DEF Exit, Forget, Idle
  <2>3. fenced' = {}
        BY <1>17 DEF Exit, Forget
  <2> QED BY <2>1, <2>2, <2>3
<1>18. CASE UNCHANGED vars
       BY <1>18 DEF vars, hostVars, storeVars, budgets
<1> QED BY <1>1, <1>2, <1>3, <1>4, <1>5, <1>6, <1>7, <1>8, <1>9, <1>10, <1>11,
           <1>12, <1>13, <1>14, <1>15, <1>16, <1>17, <1>18 DEF Next, AdminStep

(* The two invariants hold of every behaviour. *)
LEMMA LeaseInvHolds == Spec => [](TypeInv /\ LeaseInv)
  BY TypeInit, TypeStep, LeaseInit, LeaseStep, PTL DEF Spec

(* No session works under a lease for what its device was not granted, or  *)
(* is not granted any more, whatever was written and whatever failed to be.*)
THEOREM LeasesAreGranted == Spec => []LeasesFollowGrants
<1>1. LeaseInv => LeasesFollowGrants
      BY DEF LeaseInv, Granted, LeasesFollowGrants
<1> QED BY <1>1, LeaseInvHolds, PTL

(* A removal that has returned, or a shutdown that has drained, leaves     *)
(* nothing at work on what it took away.                                   *)
THEOREM RemovalsDrain == Spec => []RemovalDrains
<1>1. LeaseInv => RemovalDrains
      BY DEF LeaseInv, Granted, Awaited, RemovalDrains
<1> QED BY <1>1, LeaseInvHolds, PTL

-----------------------------------------------------------------------------
(* The argument for the last journal: until it is written every journal    *)
(* the disk may hold is dirty, and when it is written the store is closed, *)
(* so that nothing is listed, nothing new enters and the drain was the end.*)
QuietInv ==
    /\ host \in {"up", "fencing", "draining", "retired"} =>
          journal.dirty /\ \A j \in disk : j.dirty
    /\ host \in {"draining", "retired", "stopped"} => closed
    /\ host \in {"retired", "stopped"} =>
          live = {} /\ \A l \in Leases : lease[l].inFlight = 0

(* A write of a dirty journal over dirty journals. *)
LEMMA WritesDirt ==
    ASSUME NEW j, j.dirty, \A k \in disk : k.dirty, Written(j) \/ NotWritten(j)
    PROVE  \A k \in disk' : k.dirty
  BY DEF Written, NotWritten

(* An update leaves a dirty journal, in memory and on disk. *)
LEMMA UpdatesAreDirty ==
    ASSUME journal \in Journal, journal.dirty, \A k \in disk : k.dirty,
           NEW o \in Owners, NEW want \in SUBSET Sources,
           UpdateWritten(o, want) \/ UpdateFailed(o, want)
    PROVE  journal'.dirty /\ \A k \in disk' : k.dirty
<1>1. \A record \in Record : With(o, record).dirty
      BY WithIsJournal
<1>2. Reviewed(o, want).dirty
      BY <1>1, RecordsOfUpdate DEF Reviewed
<1>3. Unwritten(o, want).dirty
      BY <1>1, RecordsOfUpdate DEF Unwritten
<1> QED BY <1>2, <1>3, WritesDirt DEF UpdateWritten, UpdateFailed

(* The host is stopped at the start. *)
LEMMA QuietInit == Init => QuietInv
  BY DEF Init, QuietInv

(* Every step keeps what runs, what is closed and what is dirty in line. *)
LEMMA QuietStep == TypeInv /\ LeaseInv /\ QuietInv /\ [Next]_vars => QuietInv'
<1> SUFFICES ASSUME TypeInv, LeaseInv, QuietInv, [Next]_vars PROVE QuietInv'
    OBVIOUS
<1>t. /\ journal \in Journal /\ lease \in [Leases -> Lease]
      /\ disk \subseteq Journal
      BY DEF TypeInv, TypeOK
<1>v. closed => \A l \in Leases : lease[l].state # "valid" /\ ~lease[l].listed
      BY DEF LeaseInv, Granted, Allows
<1> USE DEF QuietInv
<1>1. ASSUME NEW j \in disk, Open(j)
      PROVE  QuietInv'
  <2>1. [j EXCEPT !.dirty = TRUE].dirty
        BY <1>t DEF Journal
  <2>2. CASE host' = "up"
        BY <1>1, <2>1, <2>2 DEF Open, Written, Running
  <2>3. CASE host' = "down"
        BY <2>3
  <2> QED BY <1>1, <2>2, <2>3 DEF Open, Running
<1>2. ASSUME NEW l \in Leases, NEW o \in Owners, NEW s \in Sources,
             Access(l, o, s)
      PROVE  QuietInv'
      BY <1>2, <1>t DEF Access, Allows, hostVars, storeVars, budgets
<1>3. ASSUME NEW l \in Leases, NEW s \in Sources, Switch(l, s)
      PROVE  QuietInv'
      BY <1>3, <1>t DEF Switch, Allows, hostVars, storeVars, budgets
<1>4. ASSUME NEW l \in Leases, Register(l)
      PROVE  QuietInv'
      BY <1>4 DEF Register, hostVars, storeVars, budgets
<1>5. ASSUME NEW l \in Leases, Enter(l) \/ Leave(l)
      PROVE  QuietInv'
      BY <1>5, <1>t, <1>v DEF Enter, Leave, Lease, hostVars, storeVars, budgets
<1>6. ASSUME NEW l \in Leases, ForceStop(l)
      PROVE  QuietInv'
      BY <1>6 DEF ForceStop, hostVars, storeVars, budgets
<1>7. ASSUME NEW a \in Admins, NEW o \in Owners, NEW want \in SUBSET Sources,
             BeginUpdate(a, o, want)
      PROVE  QuietInv'
      BY <1>7 DEF BeginUpdate, hostVars, storeVars
<1>8. ASSUME NEW a \in Admins, Update(a)
      PROVE  QuietInv'
  <2>1. admin[a].owner \in Owners /\ admin[a].want \in SUBSET Sources
        BY <1>8 DEF Update, Thread, TypeInv, TypeOK
  <2>2. host \in {"up", "fencing"} /\ host' = host
        BY <1>8 DEF Update, Running, hostVars, TypeInv, TypeOK, Hosts
  <2>3. journal'.dirty /\ \A k \in disk' : k.dirty
        BY <1>8, <1>t, <2>1, <2>2, UpdatesAreDirty DEF Update
  <2> QED BY <2>2, <2>3
<1>9. ASSUME NEW a \in Admins, UpdateRefused(a) \/ Return(a)
      PROVE  QuietInv'
      BY <1>9 DEF UpdateRefused, Return, hostVars, storeVars, budgets
<1>10. ASSUME NEW a \in Admins, StopSessions(a)
       PROVE  QuietInv'
  <2>1. \A l \in Leases : lease'[l].inFlight = lease[l].inFlight
        BY <1>10, <1>t, RevokeStays DEF StopSessions
  <2> QED BY <1>10, <2>1 DEF StopSessions, hostVars, storeVars, budgets
<1>11. ASSUME NEW o \in Owners, NEW choice \in {"allowed", "denied"},
              SetInput(o, choice)
       PROVE  QuietInv'
  <2> DEFINE next == With(o, [journal.devices[o] EXCEPT !.input = choice])
  <2>1. host = "up" /\ host' = "up"
        BY <1>11 DEF SetInput, hostVars
  <2>2. next.dirty
        BY <1>11, <1>t, <2>1, InputIsJournal, WithIsJournal DEF Inputs
  <2>3. Written(next) \/ NotWritten(next)
        BY <1>11 DEF SetInput
  <2>4. journal'.dirty
        BY <1>11, <2>1, <2>2 DEF SetInput
  <2>5. \A k \in disk' : k.dirty
        BY <2>1, <2>2, <2>3, WritesDirt
  <2> QED BY <2>1, <2>4, <2>5
<1>12. CASE BeginShutdown
       BY <1>12 DEF BeginShutdown, storeVars, budgets
<1>13. CASE Fence
       BY <1>13 DEF Fence, storeVars, budgets
<1>14. CASE Drain
  <2>1. \A l \in Leases : lease[l].inFlight = 0
        BY <1>14, <1>t, <1>v DEF Drain, Drained, LeaseInv, Awaited, Lease
  <2>2. /\ host = "draining" /\ live' = {}
        /\ UNCHANGED <<closed, storeVars, lease>>
        BY <1>14 DEF Drain, Retired
  <2> QED BY <2>1, <2>2 DEF storeVars
<1>15. CASE Finish
       BY <1>15 DEF Finish
<1>16. CASE Exit
       BY <1>16 DEF Exit
<1>17. CASE UNCHANGED vars
       BY <1>17 DEF vars, hostVars, storeVars, budgets
<1> QED BY <1>1, <1>2, <1>3, <1>4, <1>5, <1>6, <1>7, <1>8, <1>9, <1>10, <1>11,
           <1>12, <1>13, <1>14, <1>15, <1>16, <1>17 DEF Next, AdminStep

(* The journal is marked clean only after the fence, the drain and the end *)
(* of every session: a start that reads it clean follows a quiet stop.     *)
THEOREM CleanMeansQuiet == Spec => []CleanOnlyWhenQuiet
<1>1. TypeInv /\ QuietInv => CleanOnlyWhenQuiet
      BY DEF TypeInv, TypeOK, Hosts, QuietInv, CleanOnlyWhenQuiet, Running
<1> QED BY <1>1, TypeInit, TypeStep, LeaseInit, LeaseStep, QuietInit, QuietStep,
           PTL DEF Spec

-----------------------------------------------------------------------------
(* What is stored.  A failed write spoils what is known of its own device  *)
(* only, and that device has an error from then on.                        *)
LEMMA DecisionsInit == Init => DecisionsSurvive
  BY DEF Init, DecisionsSurvive, Running

(* Every step keeps the decisions that survive. *)
LEMMA DecisionsStep ==
    TypeInv /\ DecisionsSurvive /\ [Next]_vars => DecisionsSurvive'
<1> SUFFICES ASSUME TypeInv, DecisionsSurvive, [Next]_vars
             PROVE  DecisionsSurvive'
    OBVIOUS
<1>t. journal \in Journal /\ disk \subseteq Journal
      BY DEF TypeInv, TypeOK
<1> USE DEF DecisionsSurvive, Running
<1>1. ASSUME NEW j \in disk, Open(j)
      PROVE  DecisionsSurvive'
  <2>1. CASE host' = "down"
        BY <2>1
  <2>2. CASE host' # "down"
        BY <1>1, <2>2 DEF Open, Written
  <2> QED BY <2>1, <2>2
<1>2. ASSUME NEW a \in Admins, Update(a)
      PROVE  DecisionsSurvive'
  <2> DEFINE o == admin[a].owner
             want == admin[a].want
  <2>1. o \in Owners /\ want \in SUBSET Sources
        BY <1>2 DEF Update, Thread, TypeInv, TypeOK
  <2>2. \A p \in Owners :
           p # o => /\ Reviewed(o, want).devices[p] = journal.devices[p]
                    /\ journal'.devices[p] = journal.devices[p]
    <3>1. \A record \in Record, p \in Owners :
             p # o => With(o, record).devices[p] = journal.devices[p]
          BY <1>t, <2>1, WithIsJournal
    <3>2. \A p \in Owners :
             p # o => Reviewed(o, want).devices[p] = journal.devices[p]
          BY <1>t, <2>1, <3>1, RecordsOfUpdate DEF Reviewed
    <3> QED BY <1>2, <1>t, <2>1, <3>2, OthersKeepGrants DEF Update
  <2>3. CASE UpdateWritten(o, want)
        BY <2>3 DEF UpdateWritten, Written
  <2>4. CASE UpdateFailed(o, want)
    <3>1. disk' \subseteq disk \cup {Reviewed(o, want)} /\ errors' = errors \cup {o}
          BY <2>4 DEF UpdateFailed, NotWritten
    <3> QED BY <1>2, <2>2, <3>1 DEF Update
  <2> QED BY <1>2, <2>3, <2>4 DEF Update
<1>3. ASSUME NEW o \in Owners, NEW choice \in {"allowed", "denied"},
             SetInput(o, choice)
      PROVE  DecisionsSurvive'
  <2> DEFINE record == [journal.devices[o] EXCEPT !.input = choice]
  <2>1. \A p \in Owners :
           p # o => With(o, record).devices[p] = journal.devices[p]
    <3>1. record \in Record
          BY <1>t, InputIsJournal DEF Inputs
    <3> HIDE DEF record
    <3> QED BY <1>t, <3>1, WithIsJournal
  <2>2. CASE Written(With(o, record)) /\ journal' = With(o, record)
        BY <2>2 DEF Written
  <2>3. CASE /\ NotWritten(With(o, record))
             /\ errors' = errors \cup {o} /\ UNCHANGED journal
    <3>1. disk' \subseteq disk \cup {With(o, record)}
          BY <2>3 DEF NotWritten
    <3> QED BY <1>3, <2>1, <2>3, <3>1 DEF SetInput
  <2> QED BY <1>3, <2>2, <2>3 DEF SetInput
<1>4. CASE Finish
  <2> DEFINE clean == [journal EXCEPT !.dirty = FALSE]
  <2>1. clean.devices = journal.devices /\ journal'.devices = journal.devices
        BY <1>4, <1>t DEF Finish, Journal
  <2>2. disk' \subseteq disk \cup {clean} /\ errors' = errors /\ host # "down"
        BY <1>4 DEF Finish, Written, NotWritten
  <2> QED BY <2>1, <2>2
<1>5. CASE Exit
      BY <1>5 DEF Exit
<1>6. ASSUME UNCHANGED storeVars, host # "down"
      PROVE  DecisionsSurvive'
      BY <1>6 DEF storeVars
<1>7. CASE UNCHANGED vars
      BY <1>7 DEF vars, hostVars, storeVars
<1>8. ASSUME NEW l \in Leases
      PROVE  /\ Register(l) \/ Enter(l) \/ Leave(l) \/ ForceStop(l)
                => UNCHANGED storeVars /\ host # "down"
             /\ \A o \in Owners, s \in Sources :
                   Access(l, o, s) => UNCHANGED storeVars /\ host # "down"
             /\ \A s \in Sources :
                   Switch(l, s) => UNCHANGED storeVars /\ host # "down"
      BY DEF Register, Enter, Leave, ForceStop, Access, Switch
<1>9. ASSUME NEW a \in Admins
      PROVE  /\ UpdateRefused(a) \/ StopSessions(a) \/ Return(a)
                => UNCHANGED storeVars /\ host # "down"
             /\ \A o \in Owners, want \in SUBSET Sources :
                   BeginUpdate(a, o, want)
                      => UNCHANGED storeVars /\ host # "down"
      BY DEF UpdateRefused, StopSessions, Return, BeginUpdate
<1>10. BeginShutdown \/ Fence \/ Drain => UNCHANGED storeVars /\ host # "down"
       BY DEF BeginShutdown, Fence, Drain, Retired
<1> QED BY <1>1, <1>2, <1>3, <1>4, <1>5, <1>6, <1>7, <1>8, <1>9, <1>10
        DEF Next, AdminStep

(* What the operator was told is stored is what any later start reads,     *)
(* wherever writes fail and the process dies.                              *)
THEOREM DecisionsAreDurable == Spec => []DecisionsSurvive
  BY TypeInit, TypeStep, DecisionsInit, DecisionsStep, PTL DEF Spec
=============================================================================
