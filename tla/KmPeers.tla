------------------------------ MODULE KmPeers ------------------------------
(* Who may hold the host's one input-sharing session: KmManager, called from *)
(* control connections, from the operator's window and from the session's    *)
(* own task, none of which holds a lock across its steps. A peer is a device *)
(* and the generation of its pairing; the pairing itself is the module       *)
(* Pairing, of which only the current generation is seen here.               *)
EXTENDS Naturals, FiniteSets

CONSTANTS Devices, Conns,
          MaxGen,       \* pairings of a device
          MaxSessions,  \* sessions created
          MaxStarts,    \* startKm calls in flight
          MaxStops,     \* stops and consent changes in flight
          MaxConsents   \* consent changes begun

Peers == Devices \X (1 .. MaxGen)
Consents == {"both", "partial"}       \* both directions approved, or not
None == [id |-> 0]

VARIABLES
  gens,       \* the generation each device is paired with; 0: not paired
  made,       \* generations handed out so far
  approvals,  \* ManagerState.approvals
  active,     \* ManagerState.active
  starts,     \* start(), between its steps
  tasks,      \* run(), the spawned session tasks: id and step
  stops,      \* stop_peer, stop_all, control_closed and set_km_consent, between their steps
  past        \* sessions created, what stopped whom, who consented, who was revoked

vars == <<gens, made, approvals, active, starts, tasks, stops, past>>

Authorized(p) == gens[p[1]] = p[2]

\* a slip: approvals are keyed by the device
DeviceKey(p) == <<p[1], 1>>
\* approvals are keyed by the whole peer
ApprovalKey(p) == p
Approved(p) == ApprovalKey(p) \in DOMAIN approvals /\ approvals[ApprovalKey(p)] = "both"
Without(p) == [q \in DOMAIN approvals \ {ApprovalKey(p)} |-> approvals[q]]

\* stop_session: only the session of that id, its consent with it
\* slips: a stop takes whatever session is active; it misses one that has connected
HitsAny(id) == active # None
Hits(id) == active.id = id
Stoppable(id) == active # None /\ Hits(id)

StopSession(id, expire, target) ==
  IF Stoppable(id)
  THEN /\ active' = None
       /\ approvals' = IF expire THEN Without(active.peer) ELSE approvals
       /\ past' = [past EXCEPT !.stopped = @ \cup {<<active.peer, target>>}]
  ELSE UNCHANGED <<active, approvals, past>>

(***************************************************************************)
(* start(): checks, a bind that awaits, the slot, a second check.          *)
(***************************************************************************)
StartChecks(p, c) ==
  /\ Cardinality(starts) < MaxStarts
  /\ past.created < MaxSessions
  /\ Authorized(p) /\ Approved(p)
  /\ starts' = starts \cup {[id |-> past.created + 1, peer |-> p, conn |-> c, at |-> "bind"]}
  /\ past' = [past EXCEPT !.created = @ + 1]
  /\ UNCHANGED <<gens, made, approvals, active, tasks, stops>>

StartTakesSlot(s) ==
  /\ s.at = "bind"
  /\ IF active = None
     THEN /\ active' = [id |-> s.id, peer |-> s.peer, conn |-> s.conn, connected |-> FALSE]
          /\ starts' = (starts \ {s}) \cup {[s EXCEPT !.at = "slot"]}
     ELSE starts' = starts \ {s} /\ UNCHANGED active
  /\ UNCHANGED <<gens, made, approvals, tasks, stops, past>>

StartSpawns(s) ==
  /\ s.at = "slot"
  /\ starts' = starts \ {s}
  /\ IF Authorized(s.peer)
     THEN /\ tasks' = tasks \cup {[id |-> s.id, peer |-> s.peer, at |-> "accept"]}
          /\ UNCHANGED <<active, approvals, past>>
     ELSE StopSession(s.id, TRUE, s.peer) /\ UNCHANGED tasks
  /\ UNCHANGED <<gens, made, stops>>

(***************************************************************************)
(* run(): the native connection, its key proof, then the loop.             *)
(***************************************************************************)
TaskEnds(t) ==
  /\ tasks' = tasks \ {t}
  /\ StopSession(t.id, TRUE, t.peer)
  /\ UNCHANGED <<gens, made, starts, stops>>

\* the accept, the proof or the peer fails or times out, at any step; a stopped
\* task ends the same way
TaskFails(t) == TaskEnds(t)

Move(t, at) == tasks' = (tasks \ {t}) \cup {[t EXCEPT !.at = at]}

TaskProves(t) ==
  /\ t.at = "accept"
  /\ IF Authorized(t.peer)
     THEN Move(t, "proved") /\ UNCHANGED <<gens, made, approvals, active, starts, stops, past>>
     ELSE TaskEnds(t)

\* under the lock: the session is still this one, the peer still approved
StillApproved(p) == Approved(p)

TaskConnects(t) ==
  /\ t.at = "proved"
  /\ IF Stoppable(t.id) /\ StillApproved(t.peer)
     THEN /\ active' = [active EXCEPT !.connected = TRUE]
          /\ Move(t, "loop")
          /\ UNCHANGED <<gens, made, approvals, starts, stops, past>>
     ELSE TaskEnds(t)

\* each tick and each message asks again
TaskTicks(t) == t.at = "loop" /\ ~Authorized(t.peer) /\ TaskEnds(t)

(***************************************************************************)
(* Stops: the id is read under the lock, the session stopped by id later,  *)
(* the approval dropped last.                                              *)
(***************************************************************************)
Enter(op) == Cardinality(stops) < MaxStops /\ stops' = stops \cup {op}
StopOp(p, expire, at) == [peer |-> p, id |-> 0, expire |-> expire, at |-> at]

\* revoke_device: the generation ends in the pairing first
Revoke(d) ==
  /\ gens[d] # 0
  /\ gens' = [gens EXCEPT ![d] = 0]
  /\ Enter(StopOp(<<d, gens[d]>>, TRUE, "read"))
  /\ past' = [past EXCEPT !.revoked = @ \cup {<<d, gens[d]>>}]
  /\ UNCHANGED <<made, approvals, active, starts, tasks>>

\* complete_pairing: a device that pairs again gets a new generation; its
\* sessions are not stopped here, their next check is
PairAgain(d) ==
  /\ made[d] < MaxGen
  /\ made' = [made EXCEPT ![d] = @ + 1]
  /\ gens' = [gens EXCEPT ![d] = made'[d]]
  /\ UNCHANGED <<approvals, active, starts, tasks, stops, past>>

\* stopKm on a connection that authenticated as p, and the operator's disconnect
StopPeer(p) ==
  /\ p[2] <= made[p[1]]
  /\ Enter(StopOp(p, TRUE, "read"))
  /\ UNCHANGED <<gens, made, approvals, active, starts, tasks, past>>

ReadActive(op) ==
  /\ op.at = "read"
  /\ stops' = (stops \ {op}) \cup
       {[op EXCEPT !.at = "stop",
                   !.id = IF active # None /\ active.peer = op.peer THEN active.id ELSE 0]}
  /\ UNCHANGED <<gens, made, approvals, active, starts, tasks, past>>

StopById(op) ==
  /\ op.at = "stop"
  /\ stops' = (stops \ {op}) \cup (IF op.expire THEN {[op EXCEPT !.at = "expire"]} ELSE {})
  /\ IF op.id = 0 THEN UNCHANGED <<active, approvals, past>>
     ELSE StopSession(op.id, op.expire, op.peer)
  /\ UNCHANGED <<gens, made, starts, tasks>>

ExpireConsent(op) ==
  /\ op.at = "expire"
  /\ stops' = stops \ {op}
  /\ approvals' = Without(op.peer)
  /\ UNCHANGED <<gens, made, active, starts, tasks, past>>

\* set_km_consent: look the peer up, record under the pairing's lock, then stop
LookUp(d, value) ==
  /\ past.consents < MaxConsents
  /\ gens[d] # 0
  /\ Enter([peer |-> <<d, gens[d]>>, id |-> 0, expire |-> FALSE, at |-> value])
  /\ past' = [past EXCEPT !.consents = @ + 1]
  /\ UNCHANGED <<gens, made, approvals, active, starts, tasks>>

\* a slip: the withdrawal is recorded and stops nothing
RecordOnly(op) == {}
AfterRecord(op) == IF op.at = "partial" THEN {[op EXCEPT !.at = "read"]} ELSE {}

RecordConsent(op) ==
  /\ op.at \in Consents
  /\ IF Authorized(op.peer)
     THEN /\ approvals' = [q \in DOMAIN approvals \cup {ApprovalKey(op.peer)} |->
                             IF q = ApprovalKey(op.peer) THEN op.at ELSE approvals[q]]
          /\ stops' = (stops \ {op}) \cup AfterRecord(op)
          /\ past' = [past EXCEPT !.approved =
                        IF op.at = "both" THEN @ \cup {op.peer} ELSE @ \ {op.peer}]
     ELSE stops' = stops \ {op} /\ UNCHANGED <<approvals, past>>
  /\ UNCHANGED <<gens, made, active, starts, tasks>>

\* stop_all: whatever is active by id, then every approval; taken as one step
\* per lock
StopAll ==
  /\ Enter([peer |-> IF active = None THEN <<>> ELSE active.peer, id |-> active.id,
            expire |-> TRUE, at |-> "stopall"])
  /\ UNCHANGED <<gens, made, approvals, active, starts, tasks, past>>

StopAllStops(op) ==
  /\ op.at = "stopall"
  /\ stops' = (stops \ {op}) \cup {[op EXCEPT !.at = "clear"]}
  /\ IF op.id = 0 THEN UNCHANGED <<active, approvals, past>> ELSE StopSession(op.id, TRUE, op.peer)
  /\ UNCHANGED <<gens, made, starts, tasks>>

ClearConsents(op) ==
  /\ op.at = "clear"
  /\ stops' = stops \ {op}
  /\ approvals' = <<>>
  /\ UNCHANGED <<gens, made, active, starts, tasks, past>>

\* control_closed: only a session of this connection that has not proved its key
ControlClosed(d, c) ==
  /\ active # None
  /\ active.peer[1] = d /\ active.conn = c /\ ~active.connected
  /\ Enter([peer |-> active.peer, id |-> active.id, expire |-> TRUE, at |-> "closed"])
  /\ UNCHANGED <<gens, made, approvals, active, starts, tasks, past>>

ClosedStops(op) ==
  /\ op.at = "closed"
  /\ stops' = stops \ {op}
  /\ StopSession(op.id, TRUE, op.peer)
  /\ UNCHANGED <<gens, made, starts, tasks>>

Init ==
  /\ gens = [d \in Devices |-> 1]
  /\ made = [d \in Devices |-> 1]
  /\ approvals = <<>>
  /\ active = None
  /\ starts = {} /\ tasks = {} /\ stops = {}
  /\ past = [created |-> 0, consents |-> 0, stopped |-> {}, approved |-> {}, revoked |-> {}]

TaskSteps == \E t \in tasks : TaskProves(t) \/ TaskConnects(t) \/ TaskTicks(t) \/ TaskFails(t)
StartSteps == \E s \in starts : StartTakesSlot(s) \/ StartSpawns(s)
StopSteps ==
  \E op \in stops : ReadActive(op) \/ StopById(op) \/ ExpireConsent(op) \/ RecordConsent(op)
                    \/ StopAllStops(op) \/ ClearConsents(op) \/ ClosedStops(op)

Next ==
  \/ \E p \in Peers, c \in Conns : StartChecks(p, c)
  \/ StartSteps \/ TaskSteps \/ StopSteps \/ StopAll
  \/ \E d \in Devices : Revoke(d) \/ PairAgain(d)
  \/ \E p \in Peers : StopPeer(p)
  \/ \E d \in Devices, value \in Consents : LookUp(d, value)
  \/ \E d \in Devices, c \in Conns : ControlClosed(d, c)

Spec == Init /\ [][Next]_vars

(***************************************************************************)
(* Properties.                                                             *)
(***************************************************************************)
\* The types of the manager's state and of the calls in flight.
TypeOK ==
  /\ DOMAIN approvals \subseteq Peers
  /\ \A p \in DOMAIN approvals : approvals[p] \in Consents
  /\ active = None \/ active.peer \in Peers
  /\ \A op \in stops : op.at \in {"read", "stop", "expire", "both", "partial", "stopall", "clear", "closed"}
  /\ \A t \in tasks : t.at \in {"accept", "proved", "loop"}

InFlight(p) == \E op \in stops : op.peer = p /\ op.at \in {"read", "stop"}

\* Withdrawing either direction stops the whole sharing: a connected session whose
\* peer has one direction withdrawn is on its way to be stopped by that withdrawal,
\* whenever a start or a key proof came in between.
WithdrawnIsStopped ==
  (active # None /\ active.connected /\ ApprovalKey(active.peer) \in DOMAIN approvals /\ ~Approved(active.peer))
    => InFlight(active.peer)

\* Once a revocation has returned, no session of the revoked pairing is connected,
\* whatever start was in flight meanwhile.
RevokedIsStopped ==
  (active # None /\ active.connected /\ active.peer \in past.revoked) => InFlight(active.peer)

\* The consent that armed a session was given to this very pairing of the device:
\* pairing again starts with none.
ConsentIsPerPairing ==
  [][active # None /\ active'.id = active.id /\ active'.connected /\ ~active.connected
       => active.peer \in past.approved]_vars

\* A late stop of one pairing or device never takes down the session of another.
StopsSpareOthers == \A s \in past.stopped : s[1] = s[2]

\* The one slot never leaks: someone who will free it still runs.
SlotIsOwned ==
  active # None => (\E s \in starts : s.id = active.id) \/ (\E t \in tasks : t.id = active.id)

\* A withdrawn direction and a revoked pairing hold no session, late stops spare
\* other sessions, and the slot has an owner.
StopsReachTheirSession ==
  /\ WithdrawnIsStopped
  /\ RevokedIsStopped
  /\ StopsSpareOthers
  /\ SlotIsOwned
=============================================================================
