----------------------------- MODULE SourceGrants -----------------------------
(***************************************************************************)
(* Which device may watch which display of the host: the grant store with  *)
(* its journal on disk, the leases under which a capture session works     *)
(* (source_grants.rs), and the operations of the control server that       *)
(* change a grant, start and stop sessions and shut the host down          *)
(* (control.rs, pairing.rs).                                               *)
(*                                                                         *)
(* The pairing lock makes the whole of an operation of the store, its      *)
(* write included, one step.  durable_replace fails before its rename (the *)
(* file keeps the old journal) or after it (the directory was not synced), *)
(* so `disk` is the set of journals that the next start may read.  A crash *)
(* in the middle of a write is a write that fails followed by a crash.     *)
(***************************************************************************)
EXTENDS Naturals

CONSTANTS
    Owners,       \* credentials of paired devices
    Sources,      \* displays
    Leases,       \* one for every session start
    Admins,       \* threads that run an operation of the host's operator
    MaxInFlight,  \* bound: operations under one lease at a time
    MaxChanges,   \* bound: operations that change a grant
    MaxFaults,    \* bound: writes that fail
    MaxCrashes    \* bound: host processes that crash

ASSUME SourceGrantsAssumption ==
    {MaxInFlight, MaxChanges, MaxFaults, MaxCrashes} \subseteq Nat

Inputs == {"unset", "allowed", "denied"}

Record == [sources : SUBSET Sources, reviewed : BOOLEAN, input : Inputs]

Journal == [dirty : BOOLEAN, devices : [Owners -> Record]]

Empty == [dirty |-> TRUE,
          devices |-> [o \in Owners |-> [sources |-> {}, reviewed |-> FALSE,
                                         input |-> "unset"]]]

VARIABLES
    host,       \* see Hosts
    journal,    \* GrantStore.journal
    disk,       \* what the next start may read
    errors,     \* owners with an entry in GrantStore.errors
    closed,     \* GrantStore.closed
    lease,      \* of each lease: owner, source, state, operations, listed or not
    live,       \* leases of the sessions that are registered
    admin,      \* of each thread: where it is in its operation
    fenced,     \* leases the shutdown waits for
    changes, faults, crashes   \* budgets spent

storeVars == <<journal, disk, errors>>
hostVars == <<host, closed, fenced>>
budgets == <<changes, faults, crashes>>
vars == <<hostVars, storeVars, lease, live, admin, budgets>>

(* down: no process.  fencing: shutdown has closed the operator's door.    *)
(* draining: it has closed the store.  retired: no session is left.        *)
(* stopped: it has written its last journal.                               *)
Hosts == {"down", "up", "fencing", "draining", "retired", "stopped"}

Lease == [owner : Owners \cup {"none"}, source : Sources \cup {"none"},
          state : {"unused", "valid", "revoked"}, inFlight : Nat,
          listed : BOOLEAN]

NoLease == [owner |-> "none", source |-> "none", state |-> "unused",
            inFlight |-> 0, listed |-> FALSE]

Thread == [at : {"idle", "begun", "updated", "waiting"},
           owner : Owners \cup {"none"}, want : SUBSET Sources,
           removes : BOOLEAN, waits : SUBSET Leases]

Idle == [at |-> "idle", owner |-> "none", want |-> {}, removes |-> FALSE,
         waits |-> {}]

Init ==
    /\ host = "down"
    /\ journal = Empty /\ disk = {Empty} /\ errors = {} /\ closed = FALSE
    /\ lease = [l \in Leases |-> NoLease] /\ live = {}
    /\ admin = [a \in Admins |-> Idle] /\ fenced = {}
    /\ changes = 0 /\ faults = 0 /\ crashes = 0

Running == host # "down"

SourcesOf(o) == journal.devices[o].sources

(* GrantStore::allows. *)
Allows(o, s) == ~closed /\ journal.devices[o].reviewed /\ s \in SourcesOf(o)

OwnedBy(o) == {l \in Leases : lease[l].owner = o}

(* GrantStore.leases: a lease stays in the list until the store itself     *)
(* takes it out, revoked in the meantime or not.                           *)
Listed(o) == {l \in OwnedBy(o) : lease[l].listed}

(* SourceLease::invalidate. *)
Revoke(ls) ==
    lease' = [l \in Leases |->
                IF l \in ls THEN [lease[l] EXCEPT !.state = "revoked"]
                ELSE lease[l]]

(* GrantStore::invalidate. *)
Invalidate(ls) ==
    lease' = [l \in Leases |->
                IF l \in ls
                THEN [lease[l] EXCEPT !.state = "revoked", !.listed = FALSE]
                ELSE lease[l]]

-----------------------------------------------------------------------------
(* durable_replace: the ways a write of j ends. *)

Written(j) == disk' = {j} /\ UNCHANGED faults

NotWritten(j) ==
    /\ faults < MaxFaults
    /\ faults' = faults + 1
    /\ disk' = disk \/ disk' = disk \cup {j}

With(o, record) == [journal EXCEPT !.devices[o] = record]

(* GrantStore::open: a store that cannot be written does not open. *)
Open(j) ==
    /\ j \in disk /\ ~Running
    /\ LET opened == [j EXCEPT !.dirty = TRUE] IN
         \/ /\ Written(opened)
            /\ host' = "up" /\ journal' = opened
         \/ /\ faults < MaxFaults /\ faults' = faults + 1
            /\ disk' \in {{j}, {j, opened}}
            /\ UNCHANGED <<host, journal>>
    /\ errors' = {} /\ closed' = FALSE
    /\ UNCHANGED <<fenced, lease, live, admin, changes, crashes>>

-----------------------------------------------------------------------------
(* Sessions. *)

(* source_authorization: every start gets a lease of its own. *)
Access(l, o, s) ==
    /\ Running /\ lease[l].state = "unused"
    /\ Allows(o, s)
    /\ lease' = [lease EXCEPT ![l] = [owner |-> o, source |-> s, state |-> "valid",
                                      inFlight |-> 0, listed |-> TRUE]]
    /\ UNCHANGED <<hostVars, storeVars, live, admin, budgets>>

(* source_authorization for a replacement: another source, the same lease. *)
Switch(l, s) ==
    /\ Running /\ l \in live /\ lease[l].state = "valid"
    /\ Allows(lease[l].owner, s)
    /\ lease' = [lease EXCEPT ![l].source = s]
    /\ UNCHANGED <<hostVars, storeVars, live, admin, budgets>>

(* startStream commits under with_authorization, seconds later. *)
Register(l) ==
    /\ Running /\ ~closed /\ l \notin live /\ lease[l].state = "valid"
    /\ live' = live \cup {l}
    /\ UNCHANGED <<hostVars, storeVars, lease, admin, budgets>>

(* SourceLease::enter, and the drop of its guard. *)
Enter(l) ==
    /\ Running /\ lease[l].state = "valid"
    /\ lease[l].inFlight < MaxInFlight
    /\ lease' = [lease EXCEPT ![l].inFlight = @ + 1]
    /\ UNCHANGED <<hostVars, storeVars, live, admin, budgets>>

(* A plausible slip: an operation that was refused also ends. *)
LeaveRefused(l) ==
    /\ Running /\ lease[l].state # "unused"
    /\ lease' = [lease EXCEPT ![l].inFlight = @ - 1]
    /\ UNCHANGED <<hostVars, storeVars, live, admin, budgets>>

Leave(l) ==
    /\ Running /\ lease[l].inFlight > 0
    /\ lease' = [lease EXCEPT ![l].inFlight = @ - 1]
    /\ UNCHANGED <<hostVars, storeVars, live, admin, budgets>>

(* force_stop_session: the session's lease is revoked, not taken out of    *)
(* the store's list.                                                       *)
ForceStop(l) ==
    /\ host = "up" /\ l \in live
    /\ live' = live \ {l}
    /\ Revoke({l})
    /\ UNCHANGED <<hostVars, storeVars, admin, budgets>>

-----------------------------------------------------------------------------
(* The operator changes the sources of a device: four steps of a thread.   *)

(* set_source_grants_for_credential looks at what was granted before.      *)
BeginUpdate(a, o, want) ==
    /\ host = "up" /\ admin[a].at = "idle"
    /\ changes < MaxChanges
    /\ changes' = changes + 1
    /\ admin' = [admin EXCEPT ![a] = [at |-> "begun", owner |-> o, want |-> want,
                                      removes |-> ~(SourcesOf(o) \subseteq want),
                                      waits |-> {}]]
    /\ UNCHANGED <<hostVars, storeVars, lease, live, faults, crashes>>

Reviewed(o, want) ==
    With(o, [journal.devices[o] EXCEPT !.sources = want, !.reviewed = TRUE])

(* What a failed write leaves in memory: a removal stays, unreviewed. *)
Unwritten(o, want) ==
    IF SourcesOf(o) \subseteq want THEN journal
    ELSE With(o, [journal.devices[o] EXCEPT !.sources = want, !.reviewed = FALSE])

UpdateWritten(o, want) ==
    /\ Written(Reviewed(o, want))
    /\ journal' = Reviewed(o, want)
    /\ errors' = errors \ {o}

UpdateFailed(o, want) ==
    /\ NotWritten(Reviewed(o, want))
    /\ journal' = Unwritten(o, want)
    /\ errors' = errors \cup {o}

(* A plausible slip: an update that fails leaves the sessions alone. *)
UpdateSparingOnFailure(a) ==
    LET o == admin[a].owner
        want == admin[a].want
    IN  /\ Running /\ ~closed /\ admin[a].at = "begun"
        /\ \/ UpdateWritten(o, want) /\ Invalidate(Listed(o))
           \/ UpdateFailed(o, want) /\ UNCHANGED lease
        /\ admin' = [admin EXCEPT ![a].at = "updated", ![a].waits = Listed(o)]
        /\ UNCHANGED <<hostVars, live, changes, crashes>>

(* GrantStore::update. *)
Update(a) ==
    LET o == admin[a].owner
        want == admin[a].want
    IN  /\ Running /\ ~closed /\ admin[a].at = "begun"
        /\ Invalidate(Listed(o))
        /\ UpdateWritten(o, want) \/ UpdateFailed(o, want)
        /\ admin' = [admin EXCEPT ![a].at = "updated", ![a].waits = Listed(o)]
        /\ UNCHANGED <<hostVars, live, changes, crashes>>

(* The host is shutting down: the operation returns an error at once. *)
UpdateRefused(a) ==
    /\ Running /\ closed /\ admin[a].at = "begun"
    /\ admin' = [admin EXCEPT ![a] = Idle]
    /\ UNCHANGED <<hostVars, storeVars, lease, live, budgets>>

(* stop_sessions_for_device, when the sources seen before are not all kept *)
StopSessions(a) ==
    /\ Running /\ admin[a].at = "updated"
    /\ IF admin[a].removes
       THEN /\ live' = live \ OwnedBy(admin[a].owner)
            /\ Revoke(live \cap OwnedBy(admin[a].owner))
       ELSE UNCHANGED <<live, lease>>
    /\ admin' = [admin EXCEPT ![a].at = "waiting"]
    /\ UNCHANGED <<hostVars, storeVars, budgets>>

(* A plausible slip: nobody waits for what is in flight. *)
ReturnAtOnce(a) ==
    /\ Running /\ admin[a].at = "waiting"
    /\ admin' = [admin EXCEPT ![a] = Idle]
    /\ UNCHANGED <<hostVars, storeVars, lease, live, budgets>>

(* SourceLease::wait_idle for each lease the update took out of the list. *)
Return(a) ==
    /\ Running /\ admin[a].at = "waiting"
    /\ \A l \in admin[a].waits : lease[l].inFlight = 0
    /\ admin' = [admin EXCEPT ![a] = Idle]
    /\ UNCHANGED <<hostVars, storeVars, lease, live, budgets>>

(* A plausible slip: a decision that was not written stays in memory. *)
SetInputHopefully(o, choice) ==
    LET next == With(o, [journal.devices[o] EXCEPT !.input = choice])
    IN  /\ host = "up" /\ ~closed
        /\ changes < MaxChanges /\ changes' = changes + 1
        /\ Written(next) \/ NotWritten(next)
        /\ journal' = next /\ errors' = errors \ {o}
        /\ UNCHANGED <<hostVars, lease, live, admin, crashes>>

(* GrantStore::set_input. *)
SetInput(o, choice) ==
    LET next == With(o, [journal.devices[o] EXCEPT !.input = choice])
    IN  /\ host = "up" /\ ~closed
        /\ changes < MaxChanges /\ changes' = changes + 1
        /\ \/ Written(next) /\ journal' = next /\ errors' = errors \ {o}
           \/ /\ NotWritten(next)
              /\ errors' = errors \cup {o} /\ UNCHANGED journal
        /\ UNCHANGED <<hostVars, lease, live, admin, crashes>>

-----------------------------------------------------------------------------
(* shutdown_source_access. *)

BeginShutdown ==
    /\ host = "up"
    /\ host' = "fencing"
    /\ UNCHANGED <<closed, fenced, storeVars, lease, live, admin,
                   budgets>>

(* GrantStore::fence. *)
Fence ==
    /\ host = "fencing"
    /\ host' = "draining" /\ closed' = TRUE
    /\ fenced' = UNION {Listed(o) : o \in Owners}
    /\ Invalidate(fenced')
    /\ UNCHANGED <<storeVars, live, admin, budgets>>

Drained == \A l \in fenced : lease[l].inFlight = 0

Retired(place) ==
    /\ host' = place /\ live' = {} /\ fenced' = {}
    /\ UNCHANGED <<closed, storeVars, lease, admin, changes, crashes>>

(* A plausible slip: the operator's threads are not waited for. *)
DrainLeasesOnly ==
    /\ host = "draining" /\ Drained
    /\ Retired("retired") /\ UNCHANGED faults

(* No operation is under way any more; the sessions are retired.  When the *)
(* backend fails to retire one the journal stays dirty.                    *)
Drain ==
    /\ host = "draining" /\ Drained
    /\ \A a \in Admins : admin[a].at = "idle"
    /\ \/ Retired("retired") /\ UNCHANGED faults
       \/ /\ live # {} /\ faults < MaxFaults /\ faults' = faults + 1
          /\ Retired("stopped")

(* finish_shutdown. *)
Finish ==
    /\ host = "retired"
    /\ LET clean == [journal EXCEPT !.dirty = FALSE]
       IN  \/ Written(clean) /\ journal' = clean
           \/ NotWritten(clean) /\ UNCHANGED journal
    /\ host' = "stopped"
    /\ UNCHANGED <<closed, fenced, errors, lease, live, admin,
                   changes, crashes>>

(* What lives in memory only. *)
Forget ==
    /\ lease' = [l \in Leases |->
                    IF lease[l].state = "unused" THEN NoLease
                    ELSE [lease[l] EXCEPT !.state = "revoked", !.inFlight = 0,
                                          !.listed = FALSE]]
    /\ live' = {} /\ fenced' = {}
    /\ admin' = [a \in Admins |-> Idle]

(* The process ends: by itself after its shutdown, or at any time. *)
Exit ==
    /\ Running
    /\ IF host = "stopped" THEN UNCHANGED crashes
       ELSE crashes < MaxCrashes /\ crashes' = crashes + 1
    /\ host' = "down"
    /\ Forget
    /\ UNCHANGED <<closed, storeVars, changes, faults>>

-----------------------------------------------------------------------------
AdminStep(a) == Update(a) \/ UpdateRefused(a) \/ StopSessions(a) \/ Return(a)

Next ==
    \/ \E j \in disk : Open(j)
    \/ \E l \in Leases :
          \/ \E o \in Owners, s \in Sources : Access(l, o, s)
          \/ \E s \in Sources : Switch(l, s)
          \/ Register(l) \/ Enter(l) \/ Leave(l) \/ ForceStop(l)
    \/ \E a \in Admins :
          \/ \E o \in Owners, want \in SUBSET Sources : BeginUpdate(a, o, want)
          \/ AdminStep(a)
    \/ \E o \in Owners, choice \in {"allowed", "denied"} : SetInput(o, choice)
    \/ BeginShutdown \/ Fence \/ Drain \/ Finish
    \/ Exit

Spec == Init /\ [][Next]_vars

(* Threads run and an operation of the capture backend comes to an end.    *)
Fairness ==
    /\ \A a \in Admins : WF_vars(AdminStep(a))
    /\ \A l \in Leases : WF_vars(Leave(l))
    /\ WF_vars(Fence) /\ WF_vars(Drain) /\ WF_vars(Finish)

FairSpec == Spec /\ Fairness

-----------------------------------------------------------------------------
(* Every variable stays in its domain. *)
TypeOK ==
    /\ host \in Hosts
    /\ journal \in Journal /\ disk \subseteq Journal /\ disk # {}
    /\ errors \subseteq Owners /\ closed \in BOOLEAN
    /\ lease \in [Leases -> Lease] /\ admin \in [Admins -> Thread]
    /\ live \subseteq Leases /\ fenced \subseteq Leases
    /\ {changes, faults, crashes} \subseteq Nat

(* A lease that still admits operations is for a source the store grants   *)
(* to its owner now, whatever was removed, or failed to be written, since  *)
(* the session started.                                                    *)
LeasesFollowGrants ==
    \A l \in Leases :
        lease[l].state = "valid" => Allows(lease[l].owner, lease[l].source)

(* When the operator's removal has returned, no operation of the capture   *)
(* backend on what is not granted is still under way: one that is has a    *)
(* thread, or the shutdown, waiting for it.                                *)
RemovalDrains ==
    \A l \in Leases :
        lease[l].inFlight > 0 =>
            \/ Allows(lease[l].owner, lease[l].source)
            \/ l \in fenced
            \/ \E a \in Admins : l \in admin[a].waits

(* What the operator was told is stored survives any restart: whatever the *)
(* next start reads, a device without a reported storage error has the     *)
(* grants and the input decision that are in force now.                    *)
DecisionsSurvive ==
    Running => \A o \in Owners \ errors, j \in disk :
                  j.devices[o] = journal.devices[o]

(* A clean journal is written only after the admission fence, the drain of *)
(* the leases and the retirement of every session (finish_shutdown): while *)
(* the disk may hold one, nothing works under a lease.                     *)
CleanOnlyWhenQuiet ==
    Running /\ (\E j \in disk : ~j.dirty) =>
        /\ closed /\ live = {}
        /\ \A l \in Leases : lease[l].inFlight = 0

(* An operation of the operator returns although sessions keep working.    *)
OperationsReturn == \A a \in Admins : admin[a].at # "idle" ~> admin[a].at = "idle"
=============================================================================
