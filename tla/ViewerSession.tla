----------------------------- MODULE ViewerSession -----------------------------
(* The viewer application's control session: one client for the whole app, the    *)
(* selections of a host that compete for it, the requests on its socket, which    *)
(* carry no identifiers and are answered in order, and what a lost or a refused   *)
(* connection does to them. Everything runs on one JavaScript thread: a step is   *)
(* what happens between two awaits.                                               *)
EXTENDS Naturals, Sequences, FiniteSets, SequencesExt

CONSTANTS Hosts, Requests,
          Reads,         \* requests that may be repeated (REPLAYABLE_CONTROL_READS)
          Home,          \* the home screen among those who wait for a reconnection
          MaxSelections, \* selections of a host and disconnections
          MaxSockets,
          Retries,       \* further candidates or attempts of one selection
          MaxFaults      \* sockets that fail, requests refused as unauthorized

VARIABLES
  gen,      \* connectGeneration
  client,   \* the socket requests go to, or NoSocket
  context,  \* activeContext, an optional [sock, host, gen]
  tries,    \* connections being opened: [kind, host, gen, origin, sock, left, off, waits]
  shared,   \* reconnectInFlight: the generation of the attempt others may join
  socks,    \* [st, host, watched, pending, armed, out, back, shut] of each socket
  reqs,     \* [st, host, gen, origin, got] of each request
  retiring, \* contexts refused with 401 whose credential is being cleared
  probes,   \* contexts just connected whose screen waits for the catalogue
  ran,      \* at which hosts a request was run
  faults

vars == <<gen, client, context, tries, shared, socks, reqs, retiring, probes, ran, faults>>

NoSocket == 0
Sockets == 1 .. MaxSockets
NoHost == "none"
Unused == [st |-> "none", host |-> NoHost, watched |-> FALSE, pending |-> <<>>, armed |-> FALSE,
           out |-> <<>>, back |-> <<>>, shut |-> FALSE]
Idle == [st |-> "idle", host |-> NoHost, gen |-> 0, origin |-> {}, got |-> {}]

Init ==
  /\ gen = 0 /\ client = NoSocket /\ context = {} /\ tries = {} /\ shared = {}
  /\ socks = [s \in Sockets |-> Unused]
  /\ reqs = [r \in Requests |-> Idle]
  /\ retiring = {} /\ probes = {} /\ ran = [r \in Requests |-> <<>>] /\ faults = 0

Fault == faults < MaxFaults /\ faults' = faults + 1

\* isRequestContextCurrent
Current(c) == context = {c} /\ client \in {c.sock, NoSocket} /\ gen = c.gen
\* the selection was superseded, or the screen gave the attempt up
Aborted(t) == t.off \/ t.gen # gen

Closed(sk, s) == IF s \in Sockets /\ sk[s].st = "open" THEN [sk EXCEPT ![s].st = "closing"] ELSE sk
Settled(rs, st) == [r \in Requests |-> IF r \in rs THEN [reqs[r] EXCEPT !.st = st] ELSE reqs[r]]

----------------------------------------------------------------------------
(* Selecting a host. *)

\* beginHostSelection, then connectHost: from the home screen, the host screen or a pairing
Select(h) ==
  /\ gen < MaxSelections /\ gen' = gen + 1
  /\ tries' = tries \cup {[kind |-> "connect", host |-> h, gen |-> gen + 1, origin |-> {},
                           sock |-> NoSocket, left |-> Retries, off |-> FALSE, waits |-> {}]}
  /\ UNCHANGED <<client, context, shared, socks, reqs, retiring, probes, ran, faults>>

\* disconnectHost: nothing that is under way may bring the session back
Disconnected(sk) ==
  /\ gen' = gen + 1 /\ client' = NoSocket /\ context' = {} /\ shared' = {}
  /\ socks' = Closed(sk, client)
Disconnect ==
  /\ gen < MaxSelections /\ context # {} /\ Disconnected(socks)
  /\ UNCHANGED <<tries, reqs, retiring, probes, ran, faults>>

\* the screen an attempt belongs to loses the focus
LeaveScreen(t) ==
  /\ t.kind = "connect" /\ ~t.off
  /\ tries' = (tries \ {t}) \cup {[t EXCEPT !.off = TRUE]}
  /\ UNCHANGED <<gen, client, context, shared, socks, reqs, retiring, probes, ran, faults>>

\* reconnectHost: whoever has the same selection waits for the attempt under way
Reconnect(c, who) ==
  LET joined == {t \in tries : t.kind = "reconnect" /\ t.gen = c.gen}
  IN IF shared = {c.gen}
     THEN /\ tries' = (tries \ joined) \cup {[t EXCEPT !.waits = @ \cup who] : t \in joined}
          /\ UNCHANGED shared
     ELSE /\ tries' = tries \cup {[kind |-> "reconnect", host |-> c.host, gen |-> c.gen, origin |-> {c},
                                   sock |-> NoSocket, left |-> 0, off |-> FALSE, waits |-> who]}
          /\ shared' = {c.gen}

\* attemptAutoReconnect with the retained context of a host that went away
AutoReconnect(c) ==
  /\ client = NoSocket /\ Current(c)
  /\ Reconnect(c, {Home})
  /\ UNCHANGED <<gen, client, context, socks, reqs, retiring, probes, ran, faults>>

\* An attempt ends without a connection. A selection goes on with its next candidate, those
\* who waited for a reconnection are told, and the home screen gives its context up.
Abandon(t, sk) ==
  /\ tries' = (tries \ {t}) \cup IF t.kind = "connect" /\ t.left > 0 /\ ~Aborted(t)
                                 THEN {[t EXCEPT !.sock = NoSocket, !.left = @ - 1]} ELSE {}
  /\ reqs' = Settled(t.waits, "failed")
  /\ IF Home \in t.waits /\ \A c \in t.origin : Current(c)
     THEN Disconnected(sk)
     ELSE /\ socks' = sk /\ shared' = IF t.kind = "reconnect" THEN shared \ {t.gen} ELSE shared
          /\ UNCHANGED <<gen, client, context>>
  /\ UNCHANGED <<retiring, probes, ran, faults>>

ConnectFails(t) == t.sock = NoSocket /\ Abandon(t, socks)

\* the socket is open and the channel established; the stored credential is looked up next
Opened(t) ==
  /\ t.sock = NoSocket
  /\ \E s \in Sockets :
       /\ socks[s].st = "none" /\ \A o \in 1 .. s - 1 : socks[o].st # "none"
       /\ IF Aborted(t) THEN Abandon(t, [socks EXCEPT ![s].st = "closing", ![s].host = t.host])
          ELSE /\ socks' = [socks EXCEPT ![s].st = "open", ![s].host = t.host]
               /\ tries' = (tries \ {t}) \cup {[t EXCEPT !.sock = s]}
               /\ UNCHANGED <<gen, client, context, shared, reqs, retiring, probes, ran, faults>>

CredentialFails(t) == t.sock # NoSocket /\ Abandon(t, Closed(socks, t.sock))

\* slip: the screen is asked, the selection is not
ScreenOnly(t) == ~t.off
\* assertSelectionCurrent, and for a reconnection that its context is still the current one
Wanted(t) == ~Aborted(t) /\ \A c \in t.origin : Current(c)

Dropped(t) == Closed(socks, t.sock)

\* the connection becomes the session and releases the one it replaces
Install(t, c) ==
  LET previous == IF t.kind = "connect" THEN client ELSE (CHOOSE o \in t.origin : TRUE).sock
      alive == socks[t.sock].st = "open"
      again == t.waits \cap Requests
  IN /\ client' = t.sock /\ context' = {c}
     /\ tries' = tries \ {t}
     /\ shared' = IF t.kind = "reconnect" THEN shared \ {t.gen} ELSE shared
     /\ probes' = IF t.kind = "connect" \/ Home \in t.waits THEN probes \cup {c} ELSE probes
     \* those who waited ask again, in order; a socket that died meanwhile refuses them
     /\ socks' = [Closed(socks, IF previous = t.sock THEN NoSocket ELSE previous) EXCEPT
                    ![t.sock].watched = @ \/ socks[t.sock].st # "closed",
                    ![t.sock].pending = IF alive THEN SetToSeq(again) ELSE <<>>,
                    ![t.sock].out = IF alive THEN SetToSeq(again) ELSE <<>>,
                    ![t.sock].armed = alive /\ again # {}]
     /\ reqs' = [r \in Requests |->
                   IF r \in again THEN [reqs[r] EXCEPT !.st = IF alive THEN "again" ELSE "failed", !.origin = {c}]
                   ELSE reqs[r]]
     /\ UNCHANGED <<gen, retiring, ran, faults>>

Connected(t) ==
  /\ t.sock # NoSocket
  /\ IF Wanted(t) THEN Install(t, [sock |-> t.sock, host |-> t.host, gen |-> t.gen])
     ELSE Abandon(t, Dropped(t))

----------------------------------------------------------------------------
(* Requests. *)

\* a stream window binds its operations to the selection of its host
Bind(r) ==
  /\ reqs[r].st = "idle" /\ \E c \in context : Current(c) /\
       reqs' = [reqs EXCEPT ![r].st = "bound", ![r].host = c.host, ![r].gen = c.gen]
  /\ UNCHANGED <<gen, client, context, tries, shared, socks, retiring, probes, ran, faults>>

\* slip: the window of another selection may use the current client
AnySelection(r, c) == Current(c)
\* requestForCurrentSelection
MayAsk(r, c) == Current(c) /\ reqs[r].gen = c.gen

\* only reads are repeated, and a repetition only once
Repeats(lost) == {r \in lost : reqs[r].st = "waiting" /\ r \in Reads}

\* the caller of each lost request of a socket sees a transport error
Interrupted(lost) ==
  LET repeated == Repeats(lost)
      outcome(r) == IF reqs[r].st = "waiting" /\ r \notin Reads THEN "ambiguous" ELSE "failed"
      refused == [r \in Requests |-> IF r \in lost THEN [reqs[r] EXCEPT !.st = outcome(r)] ELSE reqs[r]]
      origin == UNION {reqs[r].origin : r \in repeated}
  IN IF repeated # {} /\ \A c \in origin : Current(c)
     THEN /\ reqs' = [r \in Requests |-> IF r \in repeated THEN [reqs[r] EXCEPT !.st = "rejoining"] ELSE refused[r]]
          /\ \A c \in origin : Reconnect(c, repeated)
     ELSE reqs' = refused /\ UNCHANGED <<tries, shared>>

\* requestWithReconnect: the request is written to the current client, or refused by a dead one
Ask(r) ==
  /\ reqs[r].st = "bound"
  /\ \E c \in context :
       /\ MayAsk(r, c)
       /\ IF socks[c.sock].st = "open"
          THEN /\ reqs' = [reqs EXCEPT ![r].st = "waiting", ![r].origin = {c}]
               /\ socks' = [socks EXCEPT ![c.sock].pending = Append(@, r), ![c.sock].out = Append(@, r),
                                         ![c.sock].armed = TRUE]
               /\ UNCHANGED <<tries, shared>>
          ELSE /\ IF r \in Reads
                  THEN reqs' = [reqs EXCEPT ![r].st = "rejoining", ![r].origin = {c}] /\ Reconnect(c, {r})
                  ELSE reqs' = [reqs EXCEPT ![r].st = "ambiguous", ![r].origin = {c}] /\ UNCHANGED <<tries, shared>>
               /\ UNCHANGED socks
  /\ UNCHANGED <<gen, client, context, retiring, probes, ran, faults>>

\* the host reads the next line; it may have dropped the credential, and then it refuses the
\* request, closes its end and reads no other line, also of those that are yet to be written
HostRuns(s) ==
  /\ socks[s].out # <<>> /\ ~socks[s].shut
  /\ LET r == Head(socks[s].out)
     IN \/ /\ ran' = [ran EXCEPT ![r] = Append(@, socks[s].host)]
           /\ socks' = [socks EXCEPT ![s].out = Tail(@), ![s].back = Append(@, [of |-> r, ok |-> TRUE])]
           /\ UNCHANGED faults
        \/ /\ Fault
           /\ socks' = [socks EXCEPT ![s].out = <<>>, ![s].shut = TRUE,
                                    ![s].back = Append(@, [of |-> r, ok |-> FALSE])]
           /\ UNCHANGED ran
  /\ UNCHANGED <<gen, client, context, tries, shared, reqs, retiring, probes>>

\* slip: the deadline of the next request starts only with the next one written
Disarms(s) == FALSE
\* armFrontDeadline after a response
Rearmed(s) == Len(socks[s].pending) > 1

\* handlePlainTextLine: a response belongs to the oldest request, and a 401 to its context
Deliver(s) ==
  /\ socks[s].st = "open" /\ socks[s].back # <<>>
  /\ socks' = [socks EXCEPT ![s].back = Tail(@), ![s].pending = IF @ = <<>> THEN @ ELSE Tail(@),
                            ![s].armed = Rearmed(s)]
  /\ LET a == Head(socks[s].back)
     IN IF socks[s].pending = <<>> THEN UNCHANGED <<reqs, retiring>>
        ELSE LET r == Head(socks[s].pending)
             IN /\ reqs' = [reqs EXCEPT ![r].st = IF a.ok THEN "done" ELSE "unauthorized", ![r].got = {a.of}]
                /\ retiring' = IF a.ok THEN retiring ELSE retiring \cup reqs[r].origin
  /\ UNCHANGED <<gen, client, context, tries, shared, probes, ran, faults>>

\* handleUnauthorized, after the credential was cleared
Retired(c) ==
  /\ retiring' = retiring \ {c}
  /\ IF Current(c) THEN Disconnected(socks) ELSE UNCHANGED <<gen, client, context, shared, socks>>
  /\ UNCHANGED <<tries, reqs, probes, ran, faults>>

\* the screen that connected got the catalogue, or failed or left and gives its session up
Probed(c) ==
  /\ probes' = probes \ {c}
  /\ \/ UNCHANGED <<gen, client, context, shared, socks>>
     \/ Current(c) /\ Disconnected(socks)
  /\ UNCHANGED <<tries, reqs, retiring, ran, faults>>

----------------------------------------------------------------------------
(* Sockets. *)

\* slip: a timeout forgets its request and goes on with the socket
Forgives(sk, s) == [sk EXCEPT ![s].pending = Tail(@), ![s].armed = Len(sk[s].pending) > 1]
\* without identifiers a late response could not be told from the next one: the socket goes
Destroyed(sk, s) == [sk EXCEPT ![s].st = "closing", ![s].pending = <<>>, ![s].armed = FALSE]

\* the deadline of the oldest request; a read that timed out is not repeated
TimeoutFront(s) ==
  /\ socks[s].st = "open" /\ socks[s].armed
  /\ LET lost == Range(socks[s].pending) \ Range(Destroyed(socks, s)[s].pending)
     IN reqs' = [r \in Requests |->
                   IF r \in lost
                   THEN [reqs[r] EXCEPT !.st = IF @ = "waiting" /\ r \notin Reads THEN "ambiguous" ELSE "failed"]
                   ELSE reqs[r]]
  /\ socks' = Destroyed(socks, s)
  /\ UNCHANGED <<gen, client, context, tries, shared, retiring, probes, ran, faults>>

\* an error event, a failed write, a malformed line, or the end of what the host sends
Fails(s) ==
  /\ socks[s].st = "open" /\ IF socks[s].shut THEN UNCHANGED faults ELSE Fault
  /\ Interrupted(Range(socks[s].pending))
  /\ socks' = [socks EXCEPT ![s].st = "closing", ![s].pending = <<>>, ![s].armed = FALSE]
  /\ UNCHANGED <<gen, client, context, retiring, probes, ran>>

\* the close event; only a session that asked to know it is told (watchControlClose)
Closes(s) ==
  /\ socks[s].st = "closing"
  /\ Interrupted(Range(socks[s].pending))
  /\ socks' = [socks EXCEPT ![s].st = "closed", ![s].pending = <<>>, ![s].armed = FALSE]
  /\ client' = IF socks[s].watched /\ client = s THEN NoSocket ELSE client
  /\ UNCHANGED <<gen, context, retiring, probes, ran, faults>>

Attempts == \E t \in tries : LeaveScreen(t) \/ ConnectFails(t) \/ Opened(t) \/ CredentialFails(t) \/ Connected(t)
SocketSteps == \E s \in Sockets : HostRuns(s) \/ Deliver(s) \/ TimeoutFront(s) \/ Fails(s) \/ Closes(s)
Next ==
  \/ \E h \in Hosts : Select(h)
  \/ Disconnect \/ Attempts \/ SocketSteps
  \/ \E r \in Requests : Bind(r) \/ Ask(r)
  \/ \E c \in context : AutoReconnect(c)
  \/ \E c \in retiring : Retired(c)
  \/ \E c \in probes : Probed(c)

Spec == Init /\ [][Next]_vars

\* Deadlines fire, destroyed sockets report their close, and every attempt to connect ends: the
\* connection has a timeout of its own, and the device's own secure store, where the credential
\* is looked up, answers one way or the other. Nothing is assumed of the host, of the user or of
\* the network.
AttemptEnds == \E t \in tries : ConnectFails(t) \/ Opened(t) \/ CredentialFails(t) \/ Connected(t)
Fairness ==
  /\ WF_vars(AttemptEnds)
  /\ \A s \in Sockets : WF_vars(TimeoutFront(s)) /\ WF_vars(Closes(s))
FairSpec == Spec /\ Fairness

----------------------------------------------------------------------------
TypeOK ==
  /\ gen \in Nat /\ client \in Sockets \cup {NoSocket}
  /\ \A c \in context : c.sock \in Sockets /\ c.gen <= gen
  /\ \A r \in Requests : reqs[r].st \in {"idle", "bound", "waiting", "again", "rejoining", "done",
                                          "failed", "ambiguous", "unauthorized"}

\* No socket stays open that nobody owns: an open socket is the client or belongs to an attempt
\* under way. Late connections, replaced ones and those of abandoned screens are all closed.
NoSocketLeaks ==
  \A s \in Sockets : socks[s].st = "open" => s = client \/ \E t \in tries : t.sock = s

\* A request runs only at the host its window was bound to, however often the client, the
\* selection or the connection changed between the binding and the run.
RunsOnItsHost == \A r \in Requests : \A i \in DOMAIN ran[r] : ran[r][i] = reqs[r].host

\* A request that changes something runs at most once; a read at most once more.
RunsOnce == \A r \in Requests : Len(ran[r]) <= IF r \in Reads THEN 2 ELSE 1

\* Responses carry no identifier, and still no request ever receives another one's response.
AnswersItsOwn == \A r \in Requests : reqs[r].got \subseteq {r}

\* A request runs at its own host, once unless it only reads, and gets its own answer; every
\* socket has an owner.
RequestsKeepTheirHost ==
  /\ NoSocketLeaks
  /\ RunsOnItsHost
  /\ RunsOnce
  /\ AnswersItsOwn

\* An attempt of a superseded selection never becomes the session, and so no late connection
\* revives a session that was disconnected or replaces the host selected after it.
SelectionPrevails ==
  [][client' \notin {client, NoSocket} => \A c \in context' : c.gen = gen' /\ c.sock = client']_vars

\* A request was written, or waits to be repeated.
Unsettled == \E r \in Requests : reqs[r].st \in {"waiting", "again", "rejoining"}
\* A request that was written is answered, times out or is told of its lost connection, also when
\* the host answers those before it and falls silent, or the connection that a repetition waits
\* for never comes.
RequestsSettle == Unsettled ~> ~Unsettled

================================================================================
