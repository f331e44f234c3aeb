-------------------------- MODULE BothEnds_proofs ---------------------------
(*****************************************************************************)
(* Theorems about the viewer's session, for any finite set of requests and   *)
(* any number of sockets, hosts, selections, retries and faults, and, in the *)
(* second half, about the sealed datagrams, for a replay window of any size. *)
(*                                                                           *)
(* SocketsInv says what is on the sockets: no request twice on one, each of  *)
(* them at its own host, the answers and the requests under way in the order *)
(* of those that wait, and of every request how often it was run and is      *)
(* still under way (RunInv).  AttemptsInv says whom the attempts to connect  *)
(* belong to: what is bound to one selection is bound to one host, a socket  *)
(* has one attempt, and nothing was written to it yet.                       *)
(*                                                                           *)
(* Calm steps write nothing; what writes (WriteStep), rejoins, installs and  *)
(* loses a connection has a lemma of its own.                                *)
(*                                                                           *)
(* Exact relates the bitmap of the replay window to the set of the counters  *)
(* accepted.  That shifting it in place, word by word, moves every bit rests *)
(* on DoneNext and on the least number for which the fold is not Done.       *)
(*****************************************************************************)
EXTENDS MCBothEnds, FiniteSetTheorems, SequenceTheorems, WellFoundedInduction, TLAPS

(* The types of what the session keeps. *)
Contexts == [sock : V!Sockets, host : Hosts, gen : Nat]
Tries == [kind : {"connect", "reconnect"}, host : Hosts, gen : Nat, origin : SUBSET Contexts,
          sock : V!Sockets \cup {V!NoSocket}, left : Nat, off : BOOLEAN,
          waits : SUBSET (Requests \cup {Home})]
Answers == [of : Requests, ok : BOOLEAN]
SocketStates == [st : {"none", "open", "closing", "closed"}, host : Hosts \cup {V!NoHost},
                 watched : BOOLEAN, pending : Seq(Requests), armed : BOOLEAN,
                 out : Seq(Requests), back : Seq(Answers), shut : BOOLEAN]
Statuses == {"idle", "bound", "waiting", "again", "rejoining", "done", "failed", "ambiguous",
             "unauthorized"}
RequestStates == [st : Statuses, host : Hosts \cup {V!NoHost}, gen : Nat,
                  origin : SUBSET Contexts, got : SUBSET Requests]

SessionTypes ==
  /\ IsFiniteSet(Requests) /\ MaxSockets \in Nat /\ Retries \in Nat /\ Home \notin Requests
  /\ gen \in Nat
  /\ client \in V!Sockets \cup {V!NoSocket}
  /\ context \in SUBSET Contexts
  /\ tries \in SUBSET Tries
  /\ shared \in SUBSET Nat
  /\ socks \in [V!Sockets -> SocketStates]
  /\ reqs \in [Requests -> RequestStates]
  /\ retiring \in SUBSET Contexts
  /\ probes \in SUBSET Contexts
  /\ ran \in [Requests -> Seq(Hosts \cup {V!NoHost})]
  /\ faults \in Nat

\* The context is one connection, and the client is its socket or none.
ClientInv ==
  /\ \A c, d \in context : c = d
  /\ client # V!NoSocket => \E c \in context : c.sock = client
  /\ \A c \in context : socks[c.sock].st # "none" /\ socks[c.sock].host = c.host

\* What is bound to a selection, and to which host.
Bound == {[gen |-> c.gen, host |-> c.host] : c \in context}
         \cup {[gen |-> t.gen, host |-> t.host] : t \in tries}
         \cup {[gen |-> reqs[r].gen, host |-> reqs[r].host] : r \in {q \in Requests : reqs[q].st # "idle"}}
BoundInv ==
  /\ \A b \in Bound : b.gen <= gen
  /\ \A b, d \in Bound : b.gen = d.gen => b.host = d.host

\* The socket of an attempt is its own and nothing was written to it yet.
Untouched(k) == k.pending = <<>> /\ k.out = <<>> /\ k.back = <<>> /\ ~k.shut
TrySocks ==
  \A t \in tries : t.sock # V!NoSocket =>
     /\ socks[t.sock].st # "none" /\ socks[t.sock].host = t.host /\ Untouched(socks[t.sock])
     /\ client # t.sock /\ \A c \in context : c.sock # t.sock
TriesApart ==
  \A t, u \in tries :
     \/ t = u
     \/ /\ t.sock # V!NoSocket => t.sock # u.sock
        /\ t.kind = "reconnect" /\ u.kind = "reconnect" => t.gen # u.gen
TryKinds ==
  \A t \in tries :
     /\ t.kind = "connect" => t.waits = {} /\ t.origin = {}
     /\ t.kind = "reconnect" => \E c \in Contexts : t.origin = {c} /\ c.gen = t.gen
     /\ t.kind = "reconnect" /\ t.gen = gen => shared = {gen}
WaitInv ==
  \A t \in tries : \A r \in t.waits \cap Requests : reqs[r].st = "rejoining" /\ reqs[r].gen = t.gen

\* What a socket holds.
NotTwice(q) == \A i, j \in 1 .. Len(q) : q[i] = q[j] => i = j
OutInv ==
  \A s \in V!Sockets :
     /\ NotTwice(socks[s].out)
     /\ \A i \in 1 .. Len(socks[s].out) : LET r == socks[s].out[i] IN
          socks[s].host = reqs[r].host /\ reqs[r].st \notin {"idle", "bound"}
PendingInv ==
  \A s \in V!Sockets :
     /\ NotTwice(socks[s].pending)
     /\ \A i \in 1 .. Len(socks[s].pending) : LET r == socks[s].pending[i] IN
          /\ reqs[r].st \in {"waiting", "again"}
          /\ \E c \in Contexts : reqs[r].origin = {c} /\ c.sock = s /\ c.gen = reqs[r].gen
UnusedInv == \A s \in V!Sockets : socks[s].st = "none" => socks[s] = V!Unused
\* The answers under way and, while the host reads, the requests under way are the oldest pending.
Matches(k) ==
  /\ Len(k.back) <= Len(k.pending)
  /\ \A i \in 1 .. Len(k.back) : k.back[i].of = k.pending[i]
  /\ ~k.shut =>
       /\ Len(k.pending) = Len(k.back) + Len(k.out)
       /\ \A i \in 1 .. Len(k.out) : k.out[i] = k.pending[Len(k.back) + i]
MatchInv == \A s \in V!Sockets : socks[s].st = "open" => Matches(socks[s])

\* How often a request has been run and may still be.
Out(r) == {s \in V!Sockets : \E i \in 1 .. Len(socks[s].out) : socks[s].out[i] = r}
Limit(r) ==
  CASE reqs[r].st \in {"idle", "bound"} -> 0
    [] reqs[r].st \in {"waiting", "rejoining"} -> 1
    [] reqs[r].st = "again" -> 2
    [] OTHER -> IF r \in Reads THEN 2 ELSE 1
RunInv ==
  \A r \in Requests :
     /\ Len(ran[r]) + Cardinality(Out(r)) <= Limit(r)
     /\ reqs[r].st \in {"again", "rejoining"} => r \in Reads

\* What holds of the sockets and of the requests on them, and of the attempts to connect.
SocketsInv ==
  /\ OutInv /\ PendingInv /\ UnusedInv /\ MatchInv /\ RunInv
  /\ V!RunsOnItsHost /\ V!AnswersItsOwn
AttemptsInv == ClientInv /\ BoundInv /\ TrySocks /\ TriesApart /\ TryKinds /\ WaitInv
SessionInv == SessionTypes /\ SocketsInv /\ AttemptsInv /\ V!NoSocketLeaks

(* What a step that writes nothing to a socket may do to the sockets. *)
Calm(q, sk) ==
  \A s \in V!Sockets :
     /\ q[s].pending = sk[s].pending /\ q[s].out = sk[s].out /\ q[s].back = sk[s].back
     /\ q[s].shut = sk[s].shut
     /\ sk[s].st # "none" => /\ q[s].host = sk[s].host /\ q[s].st # "none"
                             /\ q[s].st = "open" => sk[s].st = "open"
     /\ q[s].st = "none" => q[s] = sk[s]
(* What it may do to the requests: those that wait for a connection fail. *)
CalmReqs ==
  \A r \in Requests :
     /\ reqs'[r].host = reqs[r].host /\ reqs'[r].gen = reqs[r].gen
     /\ reqs'[r].origin = reqs[r].origin /\ reqs'[r].got = reqs[r].got
     /\ \/ reqs'[r].st = reqs[r].st
        \/ reqs[r].st = "rejoining" /\ reqs'[r].st = "failed"

(* Closing a socket. *)
LEMMA ClosedSocks ==
  ASSUME NEW sk \in [V!Sockets -> SocketStates], NEW x
  PROVE  /\ V!Closed(sk, x) \in [V!Sockets -> SocketStates]
         /\ \A s \in V!Sockets :
              /\ s # x => V!Closed(sk, x)[s] = sk[s]
              /\ s = x => V!Closed(sk, x)[s].st # "open"
              /\ V!Closed(sk, x)[s].host = sk[s].host
              /\ V!Closed(sk, x)[s].pending = sk[s].pending
              /\ V!Closed(sk, x)[s].out = sk[s].out
              /\ V!Closed(sk, x)[s].back = sk[s].back
              /\ V!Closed(sk, x)[s].shut = sk[s].shut
              /\ \/ V!Closed(sk, x)[s].st = sk[s].st
                 \/ sk[s].st = "open" /\ V!Closed(sk, x)[s].st = "closing" /\ s = x
              /\ V!Closed(sk, x)[s].st # "closing" => V!Closed(sk, x)[s] = sk[s]
<1>1. CASE x \in V!Sockets /\ sk[x].st = "open"
  <2>1. V!Closed(sk, x) = [sk EXCEPT ![x] = [sk[x] EXCEPT !.st = "closing"]]
        BY <1>1 DEF V!Closed
  <2>2. sk[x] \in SocketStates
        BY <1>1
  <2>3. [sk[x] EXCEPT !.st = "closing"] \in SocketStates
        BY <2>2 DEF SocketStates
  <2>4. /\ [sk[x] EXCEPT !.st = "closing"].st = "closing"
        /\ [sk[x] EXCEPT !.st = "closing"].host = sk[x].host
        /\ [sk[x] EXCEPT !.st = "closing"].pending = sk[x].pending
        /\ [sk[x] EXCEPT !.st = "closing"].out = sk[x].out
        /\ [sk[x] EXCEPT !.st = "closing"].back = sk[x].back
        /\ [sk[x] EXCEPT !.st = "closing"].shut = sk[x].shut
        BY <2>2 DEF SocketStates
  <2>5. V!Closed(sk, x)[x] = [sk[x] EXCEPT !.st = "closing"]
        BY <2>1, <1>1
  <2>6. \A s \in V!Sockets : s # x => V!Closed(sk, x)[s] = sk[s]
        BY <2>1
  <2>7. V!Closed(sk, x) \in [V!Sockets -> SocketStates]
        BY <2>1, <2>3, <1>1
  <2> QED BY <2>4, <2>5, <2>6, <2>7, <1>1
<1>2. CASE ~(x \in V!Sockets /\ sk[x].st = "open")
  <2>1. V!Closed(sk, x) = sk
        BY <1>2 DEF V!Closed
  <2> QED BY <2>1, <1>2
<1> QED BY <1>1, <1>2

(* Closing a socket writes nothing. *)
LEMMA ClosedIsCalm ==
  ASSUME NEW sk \in [V!Sockets -> SocketStates], NEW q \in [V!Sockets -> SocketStates], NEW x, Calm(sk, q)
  PROVE  Calm(V!Closed(sk, x), q)
<1> SUFFICES ASSUME NEW s \in V!Sockets
             PROVE  /\ V!Closed(sk, x)[s].pending = q[s].pending /\ V!Closed(sk, x)[s].out = q[s].out
                    /\ V!Closed(sk, x)[s].back = q[s].back /\ V!Closed(sk, x)[s].shut = q[s].shut
                    /\ q[s].st # "none" => /\ V!Closed(sk, x)[s].host = q[s].host
                                           /\ V!Closed(sk, x)[s].st # "none"
                                           /\ V!Closed(sk, x)[s].st = "open" => q[s].st = "open"
                    /\ V!Closed(sk, x)[s].st = "none" => V!Closed(sk, x)[s] = q[s]
    BY DEF Calm
<1> DEFINE k == V!Closed(sk, x)[s]
<1>0. /\ V!Closed(sk, x)[s].host = sk[s].host /\ V!Closed(sk, x)[s].pending = sk[s].pending
      /\ V!Closed(sk, x)[s].out = sk[s].out /\ V!Closed(sk, x)[s].back = sk[s].back
      /\ V!Closed(sk, x)[s].shut = sk[s].shut
      /\ V!Closed(sk, x)[s].st # "closing" => V!Closed(sk, x)[s] = sk[s]
      BY ClosedSocks, SMTT(20)
<1>1. /\ k.host = sk[s].host /\ k.pending = sk[s].pending /\ k.out = sk[s].out
      /\ k.back = sk[s].back /\ k.shut = sk[s].shut
      /\ k.st # "closing" => k = sk[s]
      BY <1>0
<1>2. /\ sk[s].pending = q[s].pending /\ sk[s].out = q[s].out /\ sk[s].back = q[s].back
      /\ sk[s].shut = q[s].shut
      /\ q[s].st # "none" => /\ sk[s].host = q[s].host /\ sk[s].st # "none"
                             /\ sk[s].st = "open" => q[s].st = "open"
      /\ sk[s].st = "none" => sk[s] = q[s]
      BY DEF Calm
<1> HIDE DEF k
<1>3. CASE k = sk[s]
      BY <1>2, <1>3 DEF k
<1>4. CASE k.st = "closing"
      BY <1>1, <1>2, <1>4 DEF k
<1> QED BY <1>1, <1>3, <1>4

(* Neither does a step that leaves the sockets alone. *)
LEMMA CalmItself ==
  ASSUME NEW sk
  PROVE  Calm(sk, sk)
BY DEF Calm

(* The requests of a set in some order. *)
LEMMA InOrder ==
  ASSUME NEW A \in SUBSET Requests, IsFiniteSet(Requests)
  PROVE  /\ V!SetToSeq(A) \in Seq(A) /\ NotTwice(V!SetToSeq(A))
         /\ (A = {}) => V!SetToSeq(A) = <<>>
<1>1. IsFiniteSet(A)
      BY FS_Subset
<1>2. Cardinality(A) \in Nat /\ ExistsBijection(1 .. Cardinality(A), A)
      BY <1>1, FS_CardinalityType
<1>3. PICK f \in [1 .. Cardinality(A) -> A] : IsInjective(f)
      BY <1>2 DEF ExistsBijection, Bijection, Injection
<1>4. V!Cardinality(A) = Cardinality(A)
      BY DEF V!Cardinality, Cardinality, V!IsFiniteSet, IsFiniteSet
<1>5. \A g : V!IsInjective(g) <=> IsInjective(g)
      BY DEF V!IsInjective, IsInjective
<1>6. V!SetToSeq(A) \in [1 .. Cardinality(A) -> A] /\ IsInjective(V!SetToSeq(A))
      BY <1>3, <1>4, <1>5 DEF V!SetToSeq
<1>7. V!SetToSeq(A) \in Seq(A) /\ Len(V!SetToSeq(A)) = Cardinality(A)
      BY <1>2, <1>6
<1>8. NotTwice(V!SetToSeq(A))
      BY <1>6, <1>7 DEF NotTwice, IsInjective
<1>9. A = {} => Cardinality(A) = 0
      BY FS_EmptySet
<1> QED BY <1>7, <1>8, <1>9

(* The elements of a sequence. *)
LEMMA InSequence ==
  ASSUME NEW T, NEW q \in Seq(T)
  PROVE  \A x : x \in V!Range(q) <=> \E i \in 1 .. Len(q) : q[i] = x
BY DEF V!Range

(* Changing one field of a request or of an attempt. *)
LEMMA RequestWith ==
  ASSUME NEW k \in RequestStates, NEW x \in Statuses
  PROVE  /\ [k EXCEPT !.st = x] \in RequestStates
         /\ [k EXCEPT !.st = x].st = x
         /\ [k EXCEPT !.st = x].host = k.host
         /\ [k EXCEPT !.st = x].gen = k.gen
         /\ [k EXCEPT !.st = x].origin = k.origin
         /\ [k EXCEPT !.st = x].got = k.got
BY DEF RequestStates

(* What an attempt may change about itself. *)
LEMMA TryWith ==
  ASSUME NEW t \in Tries
  PROVE  /\ \A w \in SUBSET (Requests \cup {Home}) : [t EXCEPT !.waits = @ \cup w] \in Tries
         /\ t.left > 0 => [t EXCEPT !.sock = V!NoSocket, !.left = @ - 1] \in Tries
         /\ [t EXCEPT !.off = TRUE] \in Tries
         /\ \A s \in V!Sockets : [t EXCEPT !.sock = s] \in Tries
<1>1. \A w \in SUBSET (Requests \cup {Home}) : [t EXCEPT !.waits = @ \cup w] \in Tries
      BY DEF Tries
<1>2. t.left > 0 => [t EXCEPT !.sock = V!NoSocket, !.left = @ - 1] \in Tries
  <2> SUFFICES ASSUME t.left > 0 PROVE [t EXCEPT !.sock = V!NoSocket, !.left = @ - 1] \in Tries
      OBVIOUS
  <2>1. t.left - 1 \in Nat
        BY DEF Tries
  <2> DEFINE n == t.left - 1
  <2> HIDE DEF n
  <2>2. [t EXCEPT !.sock = V!NoSocket, !.left = n] \in Tries
        BY <2>1 DEF Tries, n
  <2> QED BY <2>2 DEF n
<1>3. [t EXCEPT !.off = TRUE] \in Tries
      BY DEF Tries
<1>4. \A s \in V!Sockets : [t EXCEPT !.sock = s] \in Tries
      BY DEF Tries
<1> QED BY <1>1, <1>2, <1>3, <1>4

(* Opening a reconnection or waiting for one keeps the attempts in their domain. *)
LEMMA ReconnectTypes ==
  ASSUME SessionTypes, NEW c \in Contexts, NEW who \in SUBSET (Requests \cup {Home}),
         V!Reconnect(c, who)
  PROVE  tries' \in SUBSET Tries /\ shared' \in SUBSET Nat
<1> DEFINE joined == {t \in tries : t.kind = "reconnect" /\ t.gen = c.gen}
<1>1. CASE shared = {c.gen}
  <2>1. tries' = (tries \ joined) \cup {[t EXCEPT !.waits = @ \cup who] : t \in joined} /\ shared' = shared
        BY <1>1 DEF V!Reconnect
  <2>2. \A t \in tries : [t EXCEPT !.waits = @ \cup who] \in Tries
        BY Zenon, TryWith DEF SessionTypes
  <2> QED BY <2>1, <2>2 DEF SessionTypes
<1>2. CASE shared # {c.gen}
  <2> DEFINE new == [kind |-> "reconnect", host |-> c.host, gen |-> c.gen, origin |-> {c},
                     sock |-> V!NoSocket, left |-> 0, off |-> FALSE, waits |-> who]
  <2>1. tries' = tries \cup {new} /\ shared' = {c.gen}
        BY <1>2 DEF V!Reconnect
  <2>2. new \in Tries /\ c.gen \in Nat
        BY DEF Tries, Contexts
  <2> QED BY <2>1, <2>2 DEF SessionTypes
<1> QED BY <1>1, <1>2

(* The session of a host ends. *)
LEMMA DisconnectedTypes ==
  ASSUME SessionTypes, NEW sk \in [V!Sockets -> SocketStates], V!Disconnected(sk)
  PROVE  /\ gen' \in Nat /\ client' \in V!Sockets \cup {V!NoSocket} /\ context' \in SUBSET Contexts
         /\ shared' \in SUBSET Nat /\ socks' \in [V!Sockets -> SocketStates]
BY ClosedSocks DEF SessionTypes, V!Disconnected

(* An attempt ends, or goes on with its next candidate. *)
LEMMA AbandonTypes ==
  ASSUME SessionTypes, NEW t \in tries, NEW sk \in [V!Sockets -> SocketStates], V!Abandon(t, sk)
  PROVE  SessionTypes'
<1>1. t \in Tries
      BY DEF SessionTypes
<1>2. tries' \in SUBSET Tries
  <2>1. t.left > 0 => [t EXCEPT !.sock = V!NoSocket, !.left = @ - 1] \in Tries
        BY Zenon, <1>1, TryWith
  <2>2. \/ tries' = (tries \ {t}) \cup {[t EXCEPT !.sock = V!NoSocket, !.left = @ - 1]} /\ t.left > 0
        \/ tries' = (tries \ {t}) \cup {}
        BY DEF V!Abandon
  <2> QED BY <2>1, <2>2 DEF SessionTypes
<1>3. reqs' \in [Requests -> RequestStates]
  <2>1. \A r \in Requests : [reqs[r] EXCEPT !.st = "failed"] \in RequestStates
        BY RequestWith DEF SessionTypes, Statuses
  <2>2. reqs' = [r \in Requests |-> IF r \in t.waits THEN [reqs[r] EXCEPT !.st = "failed"] ELSE reqs[r]]
        BY DEF V!Abandon, V!Settled
  <2> QED BY <2>1, <2>2 DEF SessionTypes
<1>4. /\ gen' \in Nat /\ client' \in V!Sockets \cup {V!NoSocket} /\ context' \in SUBSET Contexts
      /\ shared' \in SUBSET Nat /\ socks' \in [V!Sockets -> SocketStates]
  <2>1. CASE V!Disconnected(sk)
        BY <2>1, DisconnectedTypes
  <2>2. CASE /\ socks' = sk /\ shared' = IF t.kind = "reconnect" THEN shared \ {t.gen} ELSE shared
             /\ UNCHANGED <<gen, client, context>>
        BY <2>2 DEF SessionTypes
  <2> QED BY <2>1, <2>2 DEF V!Abandon
<1>5. UNCHANGED <<retiring, probes, ran, faults>>
      BY DEF V!Abandon
<1> QED BY <1>2, <1>3, <1>4, <1>5 DEF SessionTypes

(* What a lost connection does to the requests that were under way. *)
LEMMA InterruptedTypes ==
  ASSUME SessionTypes, NEW lost \in SUBSET Requests, V!Interrupted(lost),
         \A r \in lost : reqs[r].origin # {}
  PROVE  /\ reqs' \in [Requests -> RequestStates]
         /\ tries' \in SUBSET Tries /\ shared' \in SUBSET Nat
<1> DEFINE outcome(r) == IF reqs[r].st = "waiting" /\ r \notin Reads THEN "ambiguous" ELSE "failed"
           refused == [r \in Requests |-> IF r \in lost THEN [reqs[r] EXCEPT !.st = outcome(r)] ELSE reqs[r]]
           repeated == V!Repeats(lost)
           origin == UNION {reqs[r].origin : r \in repeated}
<1>1. \A r \in Requests : /\ [reqs[r] EXCEPT !.st = outcome(r)] \in RequestStates
                          /\ [reqs[r] EXCEPT !.st = "rejoining"] \in RequestStates
                          /\ reqs[r].origin \in SUBSET Contexts
  <2> SUFFICES ASSUME NEW r \in Requests
               PROVE  /\ [reqs[r] EXCEPT !.st = outcome(r)] \in RequestStates
                      /\ [reqs[r] EXCEPT !.st = "rejoining"] \in RequestStates
                      /\ reqs[r].origin \in SUBSET Contexts
      OBVIOUS
  <2>1. reqs[r] \in RequestStates
        BY DEF SessionTypes
  <2>2. outcome(r) \in Statuses /\ "rejoining" \in Statuses
        BY DEF Statuses
  <2>3. reqs[r].origin \in SUBSET Contexts
        BY <2>1 DEF RequestStates
  <2> HIDE DEF outcome
  <2> QED BY <2>1, <2>2, <2>3, RequestWith
<1>2. refused \in [Requests -> RequestStates]
      BY <1>1 DEF SessionTypes
<1>3. CASE repeated # {} /\ \A c \in origin : V!Current(c)
  <2>1. /\ reqs' = [r \in Requests |-> IF r \in repeated THEN [reqs[r] EXCEPT !.st = "rejoining"] ELSE refused[r]]
        /\ \A c \in origin : V!Reconnect(c, repeated)
        BY <1>3 DEF V!Interrupted
  <2>2. reqs' \in [Requests -> RequestStates]
        BY <1>1, <1>2, <2>1
  <2>3. repeated \in SUBSET Requests /\ repeated \subseteq lost
        BY DEF V!Repeats
  <2>4. PICK c \in origin : TRUE
        BY <1>3, <2>3
  <2>5. V!Reconnect(c, repeated)
        BY <2>1
  <2>6. c \in Contexts
        BY <1>1, <2>3
  <2>7. repeated \in SUBSET (Requests \cup {Home})
        BY <2>3
  <2> QED BY <2>2, <2>5, <2>6, <2>7, ReconnectTypes
<1>4. CASE ~(repeated # {} /\ \A c \in origin : V!Current(c))
  <2>1. reqs' = refused /\ UNCHANGED <<tries, shared>>
        BY <1>4 DEF V!Interrupted
  <2> QED BY <1>2, <2>1 DEF SessionTypes
<1> QED BY <1>3, <1>4

(* The requests that are under way on a socket. *)
LEMMA PendingRequests ==
  ASSUME SessionTypes, PendingInv, NEW s \in V!Sockets
  PROVE  /\ V!Range(socks[s].pending) \in SUBSET Requests
         /\ \A r \in V!Range(socks[s].pending) :
              /\ reqs[r].st \in {"waiting", "again"}
              /\ \E c \in Contexts : reqs[r].origin = {c} /\ c.sock = s /\ c.gen = reqs[r].gen
              /\ \E i \in 1 .. Len(socks[s].pending) : socks[s].pending[i] = r
<1>1. socks[s].pending \in Seq(Requests)
      BY DEF SessionTypes, SocketStates
<1>2. \A r : r \in V!Range(socks[s].pending) <=> \E i \in 1 .. Len(socks[s].pending) : socks[s].pending[i] = r
      BY <1>1, InSequence
<1>3. \A i \in 1 .. Len(socks[s].pending) : socks[s].pending[i] \in Requests
      BY <1>1
<1>4. \A i \in 1 .. Len(socks[s].pending) :
        /\ reqs[socks[s].pending[i]].st \in {"waiting", "again"}
        /\ \E c \in Contexts : /\ reqs[socks[s].pending[i]].origin = {c} /\ c.sock = s
                               /\ c.gen = reqs[socks[s].pending[i]].gen
      BY DEF PendingInv
<1> SUFFICES ASSUME NEW r \in V!Range(socks[s].pending)
             PROVE  /\ r \in Requests
                    /\ reqs[r].st \in {"waiting", "again"}
                    /\ \E c \in Contexts : reqs[r].origin = {c} /\ c.sock = s /\ c.gen = reqs[r].gen
                    /\ \E i \in 1 .. Len(socks[s].pending) : socks[s].pending[i] = r
    OBVIOUS
<1>5. PICK i \in 1 .. Len(socks[s].pending) : socks[s].pending[i] = r
      BY <1>2
<1> QED BY <1>3, <1>4, <1>5

(* What a step writes into one socket. *)
LEMMA SocketWith ==
  ASSUME NEW k \in SocketStates, NEW st \in {"none", "open", "closing", "closed"},
         NEW h \in Hosts \cup {V!NoHost}, NEW p \in Seq(Requests), NEW o \in Seq(Requests),
         NEW b \in Seq(Answers), NEW w \in BOOLEAN, NEW a \in BOOLEAN, NEW e \in BOOLEAN
  PROVE  [st |-> st, host |-> h, watched |-> w, pending |-> p, armed |-> a, out |-> o,
          back |-> b, shut |-> e] \in SocketStates
BY DEF SocketStates

(* A socket is the record of its fields. *)
LEMMA SocketFields ==
  ASSUME NEW k \in SocketStates
  PROVE  /\ k = [st |-> k.st, host |-> k.host, watched |-> k.watched, pending |-> k.pending,
                 armed |-> k.armed, out |-> k.out, back |-> k.back, shut |-> k.shut]
         /\ k.st \in {"none", "open", "closing", "closed"} /\ k.host \in Hosts \cup {V!NoHost}
         /\ k.watched \in BOOLEAN /\ k.pending \in Seq(Requests) /\ k.armed \in BOOLEAN
         /\ k.out \in Seq(Requests) /\ k.back \in Seq(Answers) /\ k.shut \in BOOLEAN
BY DEF SocketStates

(* A socket that loses its pending requests. *)
LEMMA DropTypes ==
  ASSUME SessionTypes, NEW s \in V!Sockets, NEW x \in {"closing", "closed"},
         socks' = [socks EXCEPT ![s].st = x, ![s].pending = <<>>, ![s].armed = FALSE]
  PROVE  /\ socks' \in [V!Sockets -> SocketStates]
         /\ \A z \in V!Sockets : z # s => socks'[z] = socks[z]
         /\ socks'[s].st = x /\ socks'[s].pending = <<>> /\ socks'[s].host = socks[s].host
         /\ socks'[s].out = socks[s].out /\ socks'[s].back = socks[s].back
         /\ socks'[s].shut = socks[s].shut
<1> DEFINE k == [socks[s] EXCEPT !.st = x, !.pending = <<>>, !.armed = FALSE]
<1>1. socks' = [socks EXCEPT ![s] = k]
      OBVIOUS
<1>2. socks[s] \in SocketStates /\ socks \in [V!Sockets -> SocketStates]
      BY DEF SessionTypes
<1>3. /\ k \in SocketStates
      /\ k.st = x /\ k.pending = <<>> /\ k.host = socks[s].host
      /\ k.out = socks[s].out /\ k.back = socks[s].back /\ k.shut = socks[s].shut
  <2>1. PICK j \in SocketStates : j = socks[s]
        BY <1>2
  <2>2. PICK b \in BOOLEAN : b = FALSE
        OBVIOUS
  <2>3. PICK e : e = <<>>
        OBVIOUS
  <2>4. k = [j EXCEPT !.st = x, !.pending = e, !.armed = b]
        BY <2>1, <2>2, <2>3
  <2> HIDE DEF k
  <2>5. e \in Seq(Requests) /\ x \in {"none", "open", "closing", "closed"}
        BY <2>3
  <2>6. k \in SocketStates
        BY <2>4, <2>5 DEF SocketStates
  <2>7. k.st = x /\ k.pending = e /\ k.host = j.host /\ k.out = j.out /\ k.back = j.back
        /\ k.shut = j.shut
        BY <2>4 DEF SocketStates
  <2> QED BY <2>1, <2>3, <2>6, <2>7
<1> HIDE DEF k
<1> QED BY Zenon, <1>1, <1>2, <1>3

(* What an attempt does before it is the session. *)
LEMMA RetryTypes ==
  ASSUME SessionTypes, NEW t \in tries,
         V!LeaveScreen(t) \/ V!ConnectFails(t) \/ V!Opened(t) \/ V!CredentialFails(t)
  PROVE  SessionTypes'
<1>0. t \in Tries /\ socks \in [V!Sockets -> SocketStates]
      BY DEF SessionTypes
<1>1. CASE V!LeaveScreen(t)
  <2>1. tries' = (tries \ {t}) \cup {[t EXCEPT !.off = TRUE]}
        /\ UNCHANGED <<gen, client, context, shared, socks, reqs, retiring, probes, ran, faults>>
        BY <1>1 DEF V!LeaveScreen
  <2>2. tries' \in SUBSET Tries
        BY Zenon, <1>0, <2>1, TryWith DEF SessionTypes
  <2> QED BY <2>1, <2>2 DEF SessionTypes
<1>2. CASE V!ConnectFails(t)
      BY <1>0, <1>2, AbandonTypes DEF V!ConnectFails
<1>3. CASE V!Opened(t)
  <2>1. PICK s \in V!Sockets :
          IF V!Aborted(t) THEN V!Abandon(t, [socks EXCEPT ![s].st = "closing", ![s].host = t.host])
          ELSE /\ socks' = [socks EXCEPT ![s].st = "open", ![s].host = t.host]
               /\ tries' = (tries \ {t}) \cup {[t EXCEPT !.sock = s]}
               /\ UNCHANGED <<gen, client, context, shared, reqs, retiring, probes, ran, faults>>
        BY <1>3 DEF V!Opened
  <2>2. t.host \in Hosts
        BY <1>0 DEF Tries
  <2>3. \A x \in {"open", "closing"} :
          [socks EXCEPT ![s].st = x, ![s].host = t.host] \in [V!Sockets -> SocketStates]
    <3> SUFFICES ASSUME NEW x \in {"open", "closing"}
                 PROVE  [socks EXCEPT ![s].st = x, ![s].host = t.host] \in [V!Sockets -> SocketStates]
        OBVIOUS
    <3> DEFINE k == [socks[s] EXCEPT !.st = x, !.host = t.host]
    <3>1. k \in SocketStates
          BY <1>0, <2>2 DEF SocketStates
    <3>2. [socks EXCEPT ![s].st = x, ![s].host = t.host] = [socks EXCEPT ![s] = k]
          OBVIOUS
    <3> HIDE DEF k
    <3> QED BY <1>0, <3>1, <3>2
  <2>4. CASE V!Aborted(t)
        BY <2>1, <2>3, <2>4, AbandonTypes
  <2>5. CASE ~V!Aborted(t)
    <3>1. socks' \in [V!Sockets -> SocketStates]
          BY <2>1, <2>3, <2>5
    <3>2. tries' \in SUBSET Tries
      <4>1. [t EXCEPT !.sock = s] \in Tries
            BY Zenon, <1>0, TryWith
      <4>2. tries' = (tries \ {t}) \cup {[t EXCEPT !.sock = s]}
            BY <2>1, <2>5
      <4> QED BY <4>1, <4>2 DEF SessionTypes
    <3> QED BY <2>1, <2>5, <3>1, <3>2 DEF SessionTypes
  <2> QED BY <2>4, <2>5
<1>4. CASE V!CredentialFails(t)
      BY <1>0, <1>4, AbandonTypes, ClosedSocks DEF V!CredentialFails
<1> QED BY <1>1, <1>2, <1>3, <1>4

(* What the connection that becomes the session does to the sockets. *)
Previous(t) == IF t.kind = "connect" THEN client ELSE (CHOOSE o \in t.origin : TRUE).sock
Again(t) == t.waits \cap Requests
Alive(t) == socks[t.sock].st = "open"
Asked(t) == IF Alive(t) THEN V!SetToSeq(Again(t)) ELSE <<>>
(* The sockets after a connection became the session. *)
LEMMA InstallSocks ==
  ASSUME SessionTypes, NEW t \in tries, t.sock # V!NoSocket, NEW c, V!Install(t, c)
  PROVE  /\ socks' \in [V!Sockets -> SocketStates]
         /\ t.sock \in V!Sockets
         /\ \A z \in V!Sockets : z # t.sock => socks'[z] = V!Closed(socks, Previous(t))[z]
         /\ socks'[t.sock].st = socks[t.sock].st /\ socks'[t.sock].host = socks[t.sock].host
         /\ socks'[t.sock].back = socks[t.sock].back /\ socks'[t.sock].shut = socks[t.sock].shut
         /\ socks'[t.sock].pending = Asked(t) /\ socks'[t.sock].out = Asked(t)
<1> DEFINE p == IF Previous(t) = t.sock THEN V!NoSocket ELSE Previous(t)
           s == t.sock
           sk == V!Closed(socks, p)
<1>1. s \in V!Sockets /\ t \in Tries
      BY DEF SessionTypes, Tries
<1>2. socks \in [V!Sockets -> SocketStates]
      BY DEF SessionTypes
<1>3. sk \in [V!Sockets -> SocketStates]
      BY <1>2, ClosedSocks
<1>4. sk[s] = socks[s]
  <2>1. p # s
        BY <1>1 DEF V!NoSocket, V!Sockets
  <2> HIDE DEF p, s
  <2> QED BY <1>1, <1>2, <2>1, ClosedSocks
<1>5. \A z \in V!Sockets : z # s => sk[z] = V!Closed(socks, Previous(t))[z]
  <2>1. CASE Previous(t) = s
    <3>1. \A z \in V!Sockets : z # V!NoSocket
          BY DEF V!Sockets, V!NoSocket
    <3> QED BY <1>2, <2>1, <3>1, ClosedSocks
  <2>2. CASE Previous(t) # s
        BY <2>2
  <2> QED BY <2>1, <2>2
<1>6. Asked(t) \in Seq(Requests)
  <2>1. V!SetToSeq(Again(t)) \in Seq(Again(t))
    <3>1. Again(t) \in SUBSET Requests
          BY DEF Again
    <3> QED BY <3>1, InOrder DEF SessionTypes
  <2>2. V!SetToSeq(Again(t)) \in Seq(Requests)
        BY <2>1 DEF Again
  <2>3. <<>> \in Seq(Requests)
        OBVIOUS
  <2> QED BY <2>2, <2>3 DEF Asked
<1>7. PICK w \in BOOLEAN, a \in BOOLEAN :
        socks' = [sk EXCEPT ![s].watched = w, ![s].pending = Asked(t), ![s].out = Asked(t), ![s].armed = a]
  <2>1. PICK w : w = (sk[s].watched \/ socks[s].st # "closed")
        OBVIOUS
  <2>2. PICK a : a = (Alive(t) /\ Again(t) # {})
        OBVIOUS
  <2>3. w \in BOOLEAN /\ a \in BOOLEAN
        BY <2>1, <2>2
  <2>4. socks' = [sk EXCEPT ![s].watched = w, ![s].pending = Asked(t), ![s].out = Asked(t), ![s].armed = a]
    <3>1. socks' = [sk EXCEPT ![s].watched = @ \/ socks[s].st # "closed", ![s].pending = Asked(t),
                              ![s].out = Asked(t), ![s].armed = Alive(t) /\ Again(t) # {}]
          BY Zenon DEF V!Install, Previous, Alive, Again, Asked
    <3> HIDE DEF sk, s
    <3> QED BY <3>1, <2>1, <2>2, Zenon
  <2> QED BY Zenon, <2>3, <2>4
<1>8. PICK j \in SocketStates : j = sk[s]
      BY <1>1, <1>3
<1>9. PICK q \in Seq(Requests) : q = Asked(t)
      BY <1>6
<1> DEFINE k == [j EXCEPT !.watched = w, !.pending = q, !.out = q, !.armed = a]
<1> HIDE DEF sk, s, p
<1>10. socks' = [sk EXCEPT ![s] = k]
      BY <1>7, <1>8, <1>9
<1>11. k \in SocketStates
      BY DEF SocketStates
<1>12. k.st = j.st /\ k.host = j.host /\ k.back = j.back /\ k.shut = j.shut /\ k.pending = q /\ k.out = q
      BY DEF SocketStates
<1> HIDE DEF k
<1>13. socks' \in [V!Sockets -> SocketStates] /\ socks'[s] = k
      BY <1>1, <1>3, <1>10, <1>11
<1>14. \A z \in V!Sockets : z # s => socks'[z] = sk[z]
      BY <1>3, <1>10
<1> QED BY <1>1, <1>4, <1>5, <1>8, <1>9, <1>12, <1>13, <1>14 DEF s

(* A connection becomes the session. *)
LEMMA InstallTypes ==
  ASSUME SessionTypes, NEW t \in tries, t.sock # V!NoSocket,
         V!Install(t, [sock |-> t.sock, host |-> t.host, gen |-> t.gen])
  PROVE  SessionTypes'
<1> DEFINE c == [sock |-> t.sock, host |-> t.host, gen |-> t.gen]
<1>1. t.sock \in V!Sockets /\ t.host \in Hosts /\ t.gen \in Nat
      BY DEF SessionTypes, Tries
<1>2. c \in Contexts
      BY <1>1 DEF Contexts
<1>3. V!Install(t, c)
      OBVIOUS
<1> HIDE DEF c
<1>4. client' = t.sock /\ context' = {c} /\ tries' = tries \ {t}
      /\ shared' = IF t.kind = "reconnect" THEN shared \ {t.gen} ELSE shared
      BY Zenon, <1>3 DEF V!Install
<1>5. probes' = probes \cup {c} \/ probes' = probes
      BY Zenon, <1>3 DEF V!Install
<1>6. reqs' \in [Requests -> RequestStates]
  <2>1. reqs' = [r \in Requests |->
                   IF r \in Again(t) THEN [reqs[r] EXCEPT !.st = IF Alive(t) THEN "again" ELSE "failed", !.origin = {c}]
                   ELSE reqs[r]]
        BY Zenon, <1>3 DEF V!Install, Again, Alive
  <2>2. PICK x \in Statuses : x = IF Alive(t) THEN "again" ELSE "failed"
        BY DEF Statuses
  <2>3. \A r \in Requests : [reqs[r] EXCEPT !.st = x, !.origin = {c}] \in RequestStates
    <3> SUFFICES ASSUME NEW r \in Requests PROVE [reqs[r] EXCEPT !.st = x, !.origin = {c}] \in RequestStates
        BY Zenon
    <3>1. PICK k \in RequestStates : k = reqs[r]
          BY DEF SessionTypes
    <3>2. [k EXCEPT !.st = x, !.origin = {c}] \in RequestStates
          BY <1>2 DEF RequestStates
    <3> QED BY <3>1, <3>2
  <2>4. \A r \in Requests : reqs[r] \in RequestStates
        BY DEF SessionTypes
  <2>5. reqs' = [r \in Requests |-> IF r \in Again(t) THEN [reqs[r] EXCEPT !.st = x, !.origin = {c}] ELSE reqs[r]]
        BY Zenon, <2>1, <2>2
  <2> QED BY Zenon, <2>3, <2>4, <2>5
<1>7. UNCHANGED <<gen, retiring, ran, faults>>
      BY Zenon, <1>3 DEF V!Install
<1>8. socks' \in [V!Sockets -> SocketStates]
      BY <1>3, InstallSocks
<1> QED BY <1>1, <1>2, <1>4, <1>5, <1>6, <1>7, <1>8 DEF SessionTypes

(* What writing a request does to a socket. *)
LEMMA AskSocks ==
  ASSUME SessionTypes, NEW s \in V!Sockets, NEW r \in Requests,
         socks' = [socks EXCEPT ![s].pending = Append(@, r), ![s].out = Append(@, r), ![s].armed = TRUE]
  PROVE  /\ socks' \in [V!Sockets -> SocketStates]
         /\ \A z \in V!Sockets : z # s => socks'[z] = socks[z]
         /\ socks'[s].st = socks[s].st /\ socks'[s].host = socks[s].host
         /\ socks'[s].back = socks[s].back /\ socks'[s].shut = socks[s].shut
         /\ socks'[s].pending = Append(socks[s].pending, r) /\ socks'[s].out = Append(socks[s].out, r)
<1>1. socks \in [V!Sockets -> SocketStates]
      BY DEF SessionTypes
<1>2. PICK j \in SocketStates : j = socks[s]
      BY <1>1
<1>3. PICK b \in BOOLEAN : b = TRUE
      OBVIOUS
<1>4. PICK p \in Seq(Requests) : p = Append(j.pending, r)
  <2>1. j.pending \in Seq(Requests)
        BY DEF SocketStates
  <2>2. Append(j.pending, r) \in Seq(Requests)
        BY <2>1
  <2> QED BY <2>2
<1>5. PICK o \in Seq(Requests) : o = Append(j.out, r)
  <2>1. j.out \in Seq(Requests)
        BY DEF SocketStates
  <2>2. Append(j.out, r) \in Seq(Requests)
        BY <2>1
  <2> QED BY <2>2
<1> DEFINE k == [j EXCEPT !.pending = p, !.out = o, !.armed = b]
<1>6. socks' = [socks EXCEPT ![s] = k]
      BY <1>2, <1>3, <1>4, <1>5
<1>7. k \in SocketStates
      BY DEF SocketStates
<1>8. k.st = j.st /\ k.host = j.host /\ k.back = j.back /\ k.shut = j.shut /\ k.pending = p /\ k.out = o
      BY DEF SocketStates
<1> HIDE DEF k
<1> QED BY <1>1, <1>2, <1>4, <1>5, <1>6, <1>7, <1>8

(* What the host does to a socket: it answers, or refuses and closes. *)
LEMMA HostSocks ==
  ASSUME SessionTypes, NEW s \in V!Sockets, V!HostRuns(s)
  PROVE  /\ socks[s].out # <<>> /\ ~socks[s].shut /\ Head(socks[s].out) \in Requests
         /\ socks' \in [V!Sockets -> SocketStates]
         /\ \A z \in V!Sockets : z # s => socks'[z] = socks[z]
         /\ socks'[s].st = socks[s].st /\ socks'[s].host = socks[s].host
         /\ socks'[s].pending = socks[s].pending
         /\ \/ /\ ran' = [ran EXCEPT ![Head(socks[s].out)] = Append(@, socks[s].host)]
               /\ socks'[s].out = Tail(socks[s].out) /\ ~socks'[s].shut
               /\ socks'[s].back = Append(socks[s].back, [of |-> Head(socks[s].out), ok |-> TRUE])
               /\ faults' = faults
            \/ /\ ran' = ran /\ faults' = faults + 1
               /\ socks'[s].out = <<>> /\ socks'[s].shut
               /\ socks'[s].back = Append(socks[s].back, [of |-> Head(socks[s].out), ok |-> FALSE])
<1>1. socks \in [V!Sockets -> SocketStates]
      BY DEF SessionTypes
<1>2. PICK j \in SocketStates : j = socks[s]
      BY <1>1
<1>3. j.out # <<>> /\ ~j.shut
      BY <1>2 DEF V!HostRuns
<1>4. j.out \in Seq(Requests) /\ Head(j.out) \in Requests /\ Tail(j.out) \in Seq(Requests)
  <2>1. j.out \in Seq(Requests)
        BY DEF SocketStates
  <2> QED BY <1>3, <2>1
<1> DEFINE r == Head(j.out)
<1>5. \A x \in BOOLEAN : Append(j.back, [of |-> r, ok |-> x]) \in Seq(Answers)
  <2>1. \A x \in BOOLEAN : [of |-> r, ok |-> x] \in Answers
        BY <1>4 DEF Answers
  <2>2. j.back \in Seq(Answers)
        BY DEF SocketStates
  <2> QED BY <2>1, <2>2
<1>6. CASE /\ ran' = [ran EXCEPT ![r] = Append(@, j.host)] /\ faults' = faults
           /\ socks' = [socks EXCEPT ![s].out = Tail(@), ![s].back = Append(@, [of |-> r, ok |-> TRUE])]
  <2>1. PICK b \in Seq(Answers) : b = Append(j.back, [of |-> r, ok |-> TRUE])
        BY <1>5
  <2>2. PICK o \in Seq(Requests) : o = Tail(j.out)
        BY <1>4
  <2> DEFINE k == [j EXCEPT !.out = o, !.back = b]
  <2> HIDE DEF r
  <2>3. socks' = [socks EXCEPT ![s] = k]
        BY <1>2, <1>6, <2>1, <2>2
  <2>4. k \in SocketStates
        BY DEF SocketStates
  <2>5. k.st = j.st /\ k.host = j.host /\ k.pending = j.pending /\ k.shut = j.shut /\ k.out = o /\ k.back = b
        BY DEF SocketStates
  <2> HIDE DEF k
  <2>6. /\ socks' \in [V!Sockets -> SocketStates] /\ socks'[s] = k
        /\ \A z \in V!Sockets : z # s => socks'[z] = socks[z]
        BY <1>1, <2>3, <2>4
  <2> QED BY <1>2, <1>3, <1>4, <1>6, <2>1, <2>2, <2>5, <2>6 DEF r
<1>7. CASE /\ ran' = ran /\ faults' = faults + 1
           /\ socks' = [socks EXCEPT ![s].out = <<>>, ![s].shut = TRUE,
                                     ![s].back = Append(@, [of |-> r, ok |-> FALSE])]
  <2>1. PICK b \in Seq(Answers) : b = Append(j.back, [of |-> r, ok |-> FALSE])
        BY <1>5
  <2>2. PICK o \in Seq(Requests) : o = <<>>
    <3>1. <<>> \in Seq(Requests)
          OBVIOUS
    <3> QED BY <3>1
  <2>3. PICK e \in BOOLEAN : e = TRUE
        OBVIOUS
  <2> DEFINE k == [j EXCEPT !.out = o, !.shut = e, !.back = b]
  <2> HIDE DEF r
  <2>4. socks' = [socks EXCEPT ![s] = k]
        BY <1>2, <1>7, <2>1, <2>2, <2>3
  <2>5. k \in SocketStates
        BY DEF SocketStates
  <2>6. k.st = j.st /\ k.host = j.host /\ k.pending = j.pending /\ k.shut = e /\ k.out = o /\ k.back = b
        BY DEF SocketStates
  <2> HIDE DEF k
  <2>7. /\ socks' \in [V!Sockets -> SocketStates] /\ socks'[s] = k
        /\ \A z \in V!Sockets : z # s => socks'[z] = socks[z]
        BY <1>1, <2>4, <2>5
  <2> QED BY <1>2, <1>3, <1>4, <1>7, <2>1, <2>2, <2>3, <2>6, <2>7 DEF r
<1>8. \/ /\ ran' = [ran EXCEPT ![r] = Append(@, j.host)] /\ faults' = faults
         /\ socks' = [socks EXCEPT ![s].out = Tail(@), ![s].back = Append(@, [of |-> r, ok |-> TRUE])]
      \/ /\ ran' = ran /\ faults' = faults + 1
         /\ socks' = [socks EXCEPT ![s].out = <<>>, ![s].shut = TRUE,
                                   ![s].back = Append(@, [of |-> r, ok |-> FALSE])]
      BY <1>2 DEF V!HostRuns, V!Fault
<1> QED BY Zenon, <1>6, <1>7, <1>8

(* What a response does to a socket. *)
LEMMA DeliverSocks ==
  ASSUME SessionTypes, NEW s \in V!Sockets, V!Deliver(s)
  PROVE  /\ socks[s].st = "open" /\ socks[s].back # <<>>
         /\ Head(socks[s].back) \in Answers
         /\ socks' \in [V!Sockets -> SocketStates]
         /\ \A z \in V!Sockets : z # s => socks'[z] = socks[z]
         /\ socks'[s].st = socks[s].st /\ socks'[s].host = socks[s].host
         /\ socks'[s].out = socks[s].out /\ socks'[s].shut = socks[s].shut
         /\ socks'[s].back = Tail(socks[s].back)
         /\ socks'[s].pending = IF socks[s].pending = <<>> THEN <<>> ELSE Tail(socks[s].pending)
<1>1. socks \in [V!Sockets -> SocketStates]
      BY DEF SessionTypes
<1>2. PICK j \in SocketStates : j = socks[s]
      BY <1>1
<1>3. j.st = "open" /\ j.back # <<>>
      BY <1>2 DEF V!Deliver
<1>4. j.back \in Seq(Answers) /\ Head(j.back) \in Answers /\ Tail(j.back) \in Seq(Answers)
  <2>1. j.back \in Seq(Answers)
        BY DEF SocketStates
  <2> QED BY <1>3, <2>1
<1>5. PICK p \in Seq(Requests) : p = IF j.pending = <<>> THEN <<>> ELSE Tail(j.pending)
  <2>1. j.pending \in Seq(Requests)
        BY DEF SocketStates
  <2>2. j.pending # <<>> => Tail(j.pending) \in Seq(Requests)
        BY <2>1
  <2>3. <<>> \in Seq(Requests)
        OBVIOUS
  <2> QED BY <2>2, <2>3
<1>6. PICK b \in Seq(Answers) : b = Tail(j.back)
      BY <1>4
<1>7. PICK a \in BOOLEAN : a = V!Rearmed(s)
  <2>1. V!Rearmed(s) \in BOOLEAN
    <3>1. PICK n \in Nat : n = Len(socks[s].pending)
      <4>1. socks[s].pending \in Seq(Requests)
            BY <1>2 DEF SocketStates
      <4> QED BY <4>1
    <3>2. (n > 1) \in BOOLEAN
          BY SMT
    <3> QED BY <3>1, <3>2, Zenon DEF V!Rearmed
  <2> QED BY <2>1, Zenon
<1> DEFINE k == [j EXCEPT !.back = b, !.pending = p, !.armed = a]
<1>8. socks' = [socks EXCEPT ![s] = k]
  <2>1. socks' = [socks EXCEPT ![s].back = Tail(@), ![s].pending = IF @ = <<>> THEN @ ELSE Tail(@),
                               ![s].armed = a]
        BY <1>7 DEF V!Deliver
  <2> QED BY <2>1, <1>2, <1>5, <1>6
<1>9. k \in SocketStates
      BY DEF SocketStates
<1>10. k.st = j.st /\ k.host = j.host /\ k.out = j.out /\ k.shut = j.shut /\ k.back = b /\ k.pending = p
      BY DEF SocketStates
<1> HIDE DEF k
<1>11. /\ socks' \in [V!Sockets -> SocketStates] /\ socks'[s] = k
       /\ \A z \in V!Sockets : z # s => socks'[z] = socks[z]
       BY <1>1, <1>8, <1>9
<1> QED BY <1>2, <1>3, <1>4, <1>5, <1>6, <1>10, <1>11

(* The status of one request changes. *)
LEMMA RequestTypes ==
  ASSUME SessionTypes, NEW q, NEW x \in Statuses, NEW r \in Requests,
         q = [reqs EXCEPT ![r].st = x]
  PROVE  q \in [Requests -> RequestStates]
<1>1. q = [reqs EXCEPT ![r] = [reqs[r] EXCEPT !.st = x]]
      OBVIOUS
<1> QED BY <1>1, RequestWith DEF SessionTypes

(* A request is bound, and written or refused. *)
LEMMA AskTypes ==
  ASSUME SessionTypes, NEW r \in Requests, V!Bind(r) \/ V!Ask(r)
  PROVE  SessionTypes'
<1>1. PICK k \in RequestStates : k = reqs[r]
      BY DEF SessionTypes
<1>2. CASE V!Bind(r)
  <2>1. PICK c \in context : reqs' = [reqs EXCEPT ![r].st = "bound", ![r].host = c.host, ![r].gen = c.gen]
        BY Zenon, <1>2 DEF V!Bind
  <2>2. c.host \in Hosts /\ c.gen \in Nat
        BY DEF SessionTypes, Contexts
  <2>3. [k EXCEPT !.st = "bound", !.host = c.host, !.gen = c.gen] \in RequestStates
        BY <2>2 DEF RequestStates, Statuses
  <2>4. reqs' = [reqs EXCEPT ![r] = [k EXCEPT !.st = "bound", !.host = c.host, !.gen = c.gen]]
        BY <1>1, <2>1
  <2>5. reqs' \in [Requests -> RequestStates]
        BY <2>3, <2>4 DEF SessionTypes
  <2>6. UNCHANGED <<gen, client, context, tries, shared, socks, retiring, probes, ran, faults>>
        BY Zenon, <1>2 DEF V!Bind
  <2> QED BY <2>5, <2>6 DEF SessionTypes
<1>3. CASE V!Ask(r)
  <2>1. PICK c \in context :
          \/ /\ reqs' = [reqs EXCEPT ![r].st = "waiting", ![r].origin = {c}]
             /\ socks' = [socks EXCEPT ![c.sock].pending = Append(@, r), ![c.sock].out = Append(@, r),
                                       ![c.sock].armed = TRUE]
             /\ UNCHANGED <<tries, shared>>
          \/ reqs' = [reqs EXCEPT ![r].st = "rejoining", ![r].origin = {c}] /\ V!Reconnect(c, {r}) /\ socks' = socks
          \/ reqs' = [reqs EXCEPT ![r].st = "ambiguous", ![r].origin = {c}] /\ UNCHANGED <<tries, shared, socks>>
        BY Zenon, <1>3 DEF V!Ask
  <2>2. c \in Contexts /\ c.sock \in V!Sockets
        BY DEF SessionTypes, Contexts
  <2>3. \A x \in Statuses : reqs' = [reqs EXCEPT ![r].st = x, ![r].origin = {c}]
                            => reqs' \in [Requests -> RequestStates]
    <3> SUFFICES ASSUME NEW x \in Statuses, reqs' = [reqs EXCEPT ![r].st = x, ![r].origin = {c}]
                 PROVE  reqs' \in [Requests -> RequestStates]
        OBVIOUS
    <3>1. [k EXCEPT !.st = x, !.origin = {c}] \in RequestStates
          BY <2>2 DEF RequestStates
    <3>2. reqs' = [reqs EXCEPT ![r] = [k EXCEPT !.st = x, !.origin = {c}]]
          BY <1>1
    <3> QED BY <3>1, <3>2 DEF SessionTypes
  <2>4. reqs' \in [Requests -> RequestStates]
        BY <2>1, <2>3 DEF Statuses
  <2>5. socks' \in [V!Sockets -> SocketStates]
    <3>1. CASE socks' = [socks EXCEPT ![c.sock].pending = Append(@, r), ![c.sock].out = Append(@, r),
                                      ![c.sock].armed = TRUE]
          BY Zenon, <2>2, <3>1, AskSocks
    <3>2. CASE socks' = socks
          BY <3>2 DEF SessionTypes
    <3> QED BY <2>1, <3>1, <3>2
  <2>6. tries' \in SUBSET Tries /\ shared' \in SUBSET Nat
    <3>1. CASE V!Reconnect(c, {r})
      <4>1. {r} \in SUBSET (Requests \cup {Home})
            OBVIOUS
      <4> QED BY <2>2, <3>1, <4>1, ReconnectTypes
    <3>2. CASE UNCHANGED <<tries, shared>>
          BY <3>2 DEF SessionTypes
    <3> QED BY <2>1, <3>1, <3>2
  <2>7. UNCHANGED <<gen, client, context, retiring, probes, ran, faults>>
        BY Zenon, <1>3 DEF V!Ask
  <2> QED BY <2>4, <2>5, <2>6, <2>7 DEF SessionTypes
<1> QED BY <1>2, <1>3

(* What happens on a socket. *)
LEMMA SocketTypes ==
  ASSUME SessionTypes, PendingInv, NEW s \in V!Sockets,
         V!HostRuns(s) \/ V!Deliver(s) \/ V!TimeoutFront(s) \/ V!Fails(s) \/ V!Closes(s)
  PROVE  SessionTypes'
<1>1. CASE V!HostRuns(s)
  <2>1. /\ socks' \in [V!Sockets -> SocketStates]
        /\ faults' = faults \/ faults' = faults + 1
        /\ Head(socks[s].out) \in Requests
        /\ ran' = ran \/ ran' = [ran EXCEPT ![Head(socks[s].out)] = Append(@, socks[s].host)]
        BY <1>1, HostSocks
  <2>2. socks[s].host \in Hosts \cup {V!NoHost}
        BY DEF SessionTypes, SocketStates
  <2>3. ran' \in [Requests -> Seq(Hosts \cup {V!NoHost})]
    <3> DEFINE r == Head(socks[s].out)
    <3>1. r \in Requests /\ ran[r] \in Seq(Hosts \cup {V!NoHost})
          BY <2>1 DEF SessionTypes
    <3>2. Append(ran[r], socks[s].host) \in Seq(Hosts \cup {V!NoHost})
          BY <2>2, <3>1
    <3>3. ran' = ran \/ ran' = [ran EXCEPT ![r] = Append(@, socks[s].host)]
          BY <2>1
    <3> HIDE DEF r
    <3> QED BY <3>1, <3>2, <3>3 DEF SessionTypes
  <2>4. UNCHANGED <<gen, client, context, tries, shared, reqs, retiring, probes>>
        BY Zenon, <1>1 DEF V!HostRuns
  <2> QED BY <2>1, <2>3, <2>4 DEF SessionTypes
<1>2. CASE V!Deliver(s)
  <2>1. socks' \in [V!Sockets -> SocketStates] /\ Head(socks[s].back) \in Answers
        BY <1>2, DeliverSocks
  <2>2. UNCHANGED <<gen, client, context, tries, shared, probes, ran, faults>>
        BY <1>2 DEF V!Deliver
  <2>3. CASE socks[s].pending = <<>>
        BY <1>2, <2>1, <2>2, <2>3 DEF V!Deliver, SessionTypes
  <2>4. CASE socks[s].pending # <<>>
    <3> DEFINE r == Head(socks[s].pending)
               a == Head(socks[s].back)
    <3>1. r \in Requests
      <4>1. socks[s].pending \in Seq(Requests)
            BY DEF SessionTypes, SocketStates
      <4> QED BY <2>4, <4>1
    <3>2. /\ reqs' = [reqs EXCEPT ![r].st = IF a.ok THEN "done" ELSE "unauthorized", ![r].got = {a.of}]
          /\ retiring' = IF a.ok THEN retiring ELSE retiring \cup reqs[r].origin
          BY <1>2, <2>4 DEF V!Deliver
    <3>3. a.of \in Requests
          BY <2>1 DEF Answers
    <3> HIDE DEF r, a
    <3>4. PICK k \in RequestStates : k = reqs[r]
          BY <3>1 DEF SessionTypes
    <3>5. PICK x \in Statuses : x = IF a.ok THEN "done" ELSE "unauthorized"
          BY DEF Statuses
    <3>6. [k EXCEPT !.st = x, !.got = {a.of}] \in RequestStates
          BY <3>3 DEF RequestStates
    <3>7. reqs' = [reqs EXCEPT ![r] = [k EXCEPT !.st = x, !.got = {a.of}]]
          BY <3>2, <3>4, <3>5
    <3>8. reqs' \in [Requests -> RequestStates]
          BY <3>1, <3>6, <3>7 DEF SessionTypes
    <3>9. k.origin \in SUBSET Contexts
          BY DEF RequestStates
    <3>10. retiring' \in SUBSET Contexts
          BY <3>2, <3>4, <3>9 DEF SessionTypes
    <3> QED BY <2>1, <2>2, <3>8, <3>10 DEF SessionTypes
  <2> QED BY <2>3, <2>4
<1>3. CASE V!TimeoutFront(s)
  <2>1. socks' \in [V!Sockets -> SocketStates]
        BY Zenon, <1>3, DropTypes DEF V!TimeoutFront, V!Destroyed
  <2>2. reqs' \in [Requests -> RequestStates]
    <3> DEFINE lost == V!Range(socks[s].pending) \ V!Range(V!Destroyed(socks, s)[s].pending)
               x(r) == IF reqs[r].st = "waiting" /\ r \notin Reads THEN "ambiguous" ELSE "failed"
    <3>1. reqs' = [r \in Requests |-> IF r \in lost THEN [reqs[r] EXCEPT !.st = x(r)] ELSE reqs[r]]
          BY <1>3 DEF V!TimeoutFront
    <3>2. \A r \in Requests : x(r) \in Statuses /\ reqs[r] \in RequestStates
          BY DEF SessionTypes, Statuses
    <3>3. \A r \in Requests : [reqs[r] EXCEPT !.st = x(r)] \in RequestStates
      <4> HIDE DEF x
      <4> QED BY <3>2, RequestWith
    <3> HIDE DEF lost, x
    <3> QED BY <3>1, <3>2, <3>3
  <2>3. UNCHANGED <<gen, client, context, tries, shared, retiring, probes, ran, faults>>
        BY <1>3 DEF V!TimeoutFront
  <2> QED BY <2>1, <2>2, <2>3 DEF SessionTypes
<1>4. CASE V!Fails(s) \/ V!Closes(s)
  <2> DEFINE lost == V!Range(socks[s].pending)
  <2>1. V!Interrupted(lost)
        BY <1>4 DEF V!Fails, V!Closes
  <2>2. lost \in SUBSET Requests /\ \A r \in lost : reqs[r].origin # {}
        BY PendingRequests
  <2> HIDE DEF lost
  <2>3. /\ reqs' \in [Requests -> RequestStates]
        /\ tries' \in SUBSET Tries /\ shared' \in SUBSET Nat
        BY <2>1, <2>2, InterruptedTypes
  <2>4. socks' \in [V!Sockets -> SocketStates]
    <3>1. CASE socks' = [socks EXCEPT ![s].st = "closing", ![s].pending = <<>>, ![s].armed = FALSE]
          BY Zenon, <3>1, DropTypes
    <3>2. CASE socks' = [socks EXCEPT ![s].st = "closed", ![s].pending = <<>>, ![s].armed = FALSE]
          BY Zenon, <3>2, DropTypes
    <3> QED BY <1>4, <3>1, <3>2 DEF V!Fails, V!Closes
  <2>5. /\ UNCHANGED <<gen, context, retiring, probes, ran>>
        /\ client' \in {client, V!NoSocket}
        BY <1>4 DEF V!Fails, V!Closes
  <2>6. faults' \in Nat
        BY <1>4 DEF V!Fails, V!Closes, V!Fault, SessionTypes
  <2> QED BY <2>3, <2>4, <2>5, <2>6 DEF SessionTypes
<1> QED BY <1>1, <1>2, <1>3, <1>4

(* Every variable of the session stays in its domain. *)
LEMMA SessionTypesStay ==
  ASSUME SessionTypes, PendingInv, V!Next
  PROVE  SessionTypes'
<1>0. socks \in [V!Sockets -> SocketStates]
      BY DEF SessionTypes
<1>1. CASE \E h \in Hosts : V!Select(h)
  <2>1. PICK h \in Hosts : V!Select(h)
        BY <1>1
  <2> DEFINE new == [kind |-> "connect", host |-> h, gen |-> gen + 1, origin |-> {},
                     sock |-> V!NoSocket, left |-> Retries, off |-> FALSE, waits |-> {}]
  <2>2. new \in Tries
        BY DEF SessionTypes, Tries
  <2>3. /\ gen' = gen + 1 /\ tries' = tries \cup {new}
        /\ UNCHANGED <<client, context, shared, socks, reqs, retiring, probes, ran, faults>>
        BY <2>1 DEF V!Select
  <2> HIDE DEF new
  <2> QED BY <2>2, <2>3 DEF SessionTypes
<1>2. CASE V!Disconnect
  <2>1. V!Disconnected(socks) /\ UNCHANGED <<tries, reqs, retiring, probes, ran, faults>>
        BY <1>2 DEF V!Disconnect
  <2> QED BY <1>0, <2>1, DisconnectedTypes DEF SessionTypes
<1>3. CASE V!Attempts
  <2>1. PICK t \in tries : \/ V!LeaveScreen(t) \/ V!ConnectFails(t) \/ V!Opened(t) \/ V!CredentialFails(t)
                          \/ V!Connected(t)
        BY <1>3 DEF V!Attempts
  <2>2. CASE V!Connected(t)
    <3>1. CASE V!Wanted(t)
          BY <2>2, <3>1, InstallTypes DEF V!Connected
    <3>2. CASE ~V!Wanted(t)
          BY <1>0, <2>2, <3>2, AbandonTypes, ClosedSocks DEF V!Connected, V!Dropped
    <3> QED BY <3>1, <3>2
  <2> QED BY <2>1, <2>2, RetryTypes
<1>4. CASE V!SocketSteps
      BY <1>4, SocketTypes DEF V!SocketSteps
<1>5. CASE \E r \in Requests : V!Bind(r) \/ V!Ask(r)
      BY <1>5, AskTypes
<1>6. CASE \E c \in context : V!AutoReconnect(c)
  <2>1. PICK c \in context : V!AutoReconnect(c)
        BY <1>6
  <2>2. c \in Contexts /\ {Home} \in SUBSET (Requests \cup {Home})
        BY DEF SessionTypes
  <2>3. /\ V!Reconnect(c, {Home})
        /\ UNCHANGED <<gen, client, context, socks, reqs, retiring, probes, ran, faults>>
        BY <2>1 DEF V!AutoReconnect
  <2>4. tries' \in SUBSET Tries /\ shared' \in SUBSET Nat
        BY <2>2, <2>3, ReconnectTypes
  <2> QED BY <2>3, <2>4 DEF SessionTypes
<1>7. CASE \E c \in retiring : V!Retired(c)
  <2>1. PICK c \in retiring : V!Retired(c)
        BY <1>7
  <2>2. retiring' = retiring \ {c} /\ UNCHANGED <<tries, reqs, probes, ran, faults>>
        BY <2>1 DEF V!Retired
  <2>3. V!Disconnected(socks) \/ UNCHANGED <<gen, client, context, shared, socks>>
        BY <2>1 DEF V!Retired
  <2>4. CASE V!Disconnected(socks)
        BY <1>0, <2>2, <2>4, DisconnectedTypes DEF SessionTypes
  <2>5. CASE UNCHANGED <<gen, client, context, shared, socks>>
        BY <2>2, <2>5 DEF SessionTypes
  <2> QED BY <2>3, <2>4, <2>5
<1>8. CASE \E c \in probes : V!Probed(c)
  <2>1. PICK c \in probes : V!Probed(c)
        BY <1>8
  <2>2. probes' = probes \ {c} /\ UNCHANGED <<tries, reqs, retiring, ran, faults>>
        BY <2>1 DEF V!Probed
  <2>3. V!Disconnected(socks) \/ UNCHANGED <<gen, client, context, shared, socks>>
        BY <2>1 DEF V!Probed
  <2>4. CASE V!Disconnected(socks)
        BY <1>0, <2>2, <2>4, DisconnectedTypes DEF SessionTypes
  <2>5. CASE UNCHANGED <<gen, client, context, shared, socks>>
        BY <2>2, <2>5 DEF SessionTypes
  <2> QED BY <2>3, <2>4, <2>5
<1> QED BY <1>1, <1>2, <1>3, <1>4, <1>5, <1>6, <1>7, <1>8 DEF V!Next

(* The fields of a socket. *)
LEMMA SocketDomains ==
  ASSUME SessionTypes, NEW s \in V!Sockets
  PROVE  /\ socks[s] \in SocketStates
         /\ socks[s].st \in {"none", "open", "closing", "closed"}
         /\ socks[s].pending \in Seq(Requests) /\ socks[s].out \in Seq(Requests)
         /\ socks[s].back \in Seq(Answers)
         /\ Len(socks[s].pending) \in Nat /\ Len(socks[s].out) \in Nat /\ Len(socks[s].back) \in Nat
         /\ \A i \in 1 .. Len(socks[s].pending) : socks[s].pending[i] \in Requests
         /\ \A i \in 1 .. Len(socks[s].out) : socks[s].out[i] \in Requests
<1>1. socks[s] \in SocketStates
      BY DEF SessionTypes
<1>2. /\ socks[s].st \in {"none", "open", "closing", "closed"}
      /\ socks[s].pending \in Seq(Requests) /\ socks[s].out \in Seq(Requests)
      /\ socks[s].back \in Seq(Answers)
      BY <1>1, SocketFields
<1> QED BY <1>1, <1>2

(* The sockets a request is under way on, and how often it has been run. *)
LEMMA RunCounts ==
  ASSUME SessionTypes, NEW r \in Requests
  PROVE  /\ IsFiniteSet(V!Sockets) /\ IsFiniteSet(Out(r)) /\ Cardinality(Out(r)) \in Nat
         /\ Len(ran[r]) \in Nat /\ ran[r] \in Seq(Hosts \cup {V!NoHost})
         /\ Limit(r) \in 0 .. 2
         /\ reqs[r].st \in Statuses
<1>1. IsFiniteSet(V!Sockets)
  <2>1. MaxSockets \in Int /\ 1 \in Int
        BY DEF SessionTypes
  <2> QED BY <2>1, FS_Interval DEF V!Sockets
<1>2. Out(r) \in SUBSET V!Sockets
      BY DEF Out
<1>3. IsFiniteSet(Out(r))
      BY <1>1, <1>2, FS_Subset
<1>4. Cardinality(Out(r)) \in Nat
      BY <1>3, FS_CardinalityType
<1>5. ran[r] \in Seq(Hosts \cup {V!NoHost}) /\ reqs[r].st \in Statuses
      BY DEF SessionTypes, RequestStates
<1>6. Len(ran[r]) \in Nat
      BY <1>5
<1>7. Limit(r) \in 0 .. 2
      BY <1>5 DEF Limit, Statuses
<1> QED BY <1>1, <1>3, <1>4, <1>5, <1>6, <1>7

(* A step that writes nothing to a socket keeps what holds of the sockets. *)
LEMMA CalmStep ==
  ASSUME SessionTypes, SessionTypes', SocketsInv, Calm(socks', socks), CalmReqs, ran' = ran
  PROVE  SocketsInv'
<1>1. OutInv'
  <2> SUFFICES ASSUME NEW s \in V!Sockets
               PROVE  /\ NotTwice(socks'[s].out)
                      /\ \A i \in 1 .. Len(socks'[s].out) :
                           /\ socks'[s].host = reqs'[socks'[s].out[i]].host
                           /\ reqs'[socks'[s].out[i]].st \notin {"idle", "bound"}
      BY DEF OutInv
  <2>1. socks'[s].out = socks[s].out
        BY DEF Calm
  <2>2. NotTwice(socks[s].out)
        BY DEF SocketsInv, OutInv
  <2>3. CASE socks[s].st = "none"
    <3>1. Len(socks[s].out) = 0
          BY <2>3 DEF SocketsInv, UnusedInv, V!Unused
    <3> QED BY <2>1, <2>2, <3>1
  <2>4. CASE socks[s].st # "none"
    <3>1. socks'[s].host = socks[s].host
          BY <2>4 DEF Calm
    <3> SUFFICES ASSUME NEW i \in 1 .. Len(socks[s].out)
                 PROVE  /\ socks[s].host = reqs'[socks[s].out[i]].host
                        /\ reqs'[socks[s].out[i]].st \notin {"idle", "bound"}
        BY <2>1, <2>2, <3>1
    <3> DEFINE r == socks[s].out[i]
    <3>2. r \in Requests
          BY SocketDomains
    <3>3. socks[s].host = reqs[r].host /\ reqs[r].st \notin {"idle", "bound"}
          BY DEF SocketsInv, OutInv
    <3>4. reqs'[r].host = reqs[r].host /\ (reqs'[r].st = reqs[r].st \/ reqs'[r].st = "failed")
          BY <3>2 DEF CalmReqs
    <3> QED BY <3>3, <3>4
  <2> QED BY <2>3, <2>4
<1>2. PendingInv'
  <2> SUFFICES ASSUME NEW s \in V!Sockets
               PROVE  /\ NotTwice(socks'[s].pending)
                      /\ \A i \in 1 .. Len(socks'[s].pending) :
                           /\ reqs'[socks'[s].pending[i]].st \in {"waiting", "again"}
                           /\ \E c \in Contexts : /\ reqs'[socks'[s].pending[i]].origin = {c} /\ c.sock = s
                                                  /\ c.gen = reqs'[socks'[s].pending[i]].gen
      BY DEF PendingInv
  <2>1. socks'[s].pending = socks[s].pending
        BY DEF Calm
  <2>2. NotTwice(socks[s].pending)
        BY DEF SocketsInv, PendingInv
  <2> SUFFICES ASSUME NEW i \in 1 .. Len(socks[s].pending)
               PROVE  /\ reqs'[socks[s].pending[i]].st \in {"waiting", "again"}
                      /\ \E c \in Contexts : /\ reqs'[socks[s].pending[i]].origin = {c} /\ c.sock = s
                                             /\ c.gen = reqs'[socks[s].pending[i]].gen
      BY <2>1, <2>2
  <2> DEFINE r == socks[s].pending[i]
  <2>3. r \in Requests
        BY SocketDomains
  <2>4. /\ reqs[r].st \in {"waiting", "again"}
        /\ \E c \in Contexts : reqs[r].origin = {c} /\ c.sock = s /\ c.gen = reqs[r].gen
        BY DEF SocketsInv, PendingInv
  <2>5. reqs'[r].st = reqs[r].st /\ reqs'[r].origin = reqs[r].origin /\ reqs'[r].gen = reqs[r].gen
        BY <2>3, <2>4 DEF CalmReqs
  <2> QED BY <2>4, <2>5
<1>3. UnusedInv'
      BY DEF UnusedInv, SocketsInv, Calm
<1>4. MatchInv'
  <2> SUFFICES ASSUME NEW s \in V!Sockets, socks'[s].st = "open"
               PROVE  Matches(socks'[s])
      BY DEF MatchInv
  <2>1. /\ socks'[s].pending = socks[s].pending /\ socks'[s].out = socks[s].out
        /\ socks'[s].back = socks[s].back /\ socks'[s].shut = socks[s].shut
        /\ socks[s].st = "none" \/ socks[s].st = "open"
        BY DEF Calm
  <2>2. CASE socks[s].st = "none"
    <3>1. Len(socks[s].pending) = 0 /\ Len(socks[s].out) = 0 /\ Len(socks[s].back) = 0
          BY <2>2 DEF SocketsInv, UnusedInv, V!Unused
    <3> QED BY <2>1, <3>1 DEF Matches
  <2>3. CASE socks[s].st = "open"
    <3>1. Matches(socks[s])
          BY <2>3 DEF SocketsInv, MatchInv
    <3> QED BY <2>1, <3>1 DEF Matches
  <2> QED BY <2>1, <2>2, <2>3
<1>5. RunInv'
  <2> SUFFICES ASSUME NEW r \in Requests
               PROVE  /\ Len(ran'[r]) + Cardinality(Out(r)') <= Limit(r)'
                      /\ reqs'[r].st \in {"again", "rejoining"} => r \in Reads
      BY DEF RunInv
  <2>1. Out(r)' = Out(r)
        BY DEF Out, Calm
  <2>2. /\ Len(ran[r]) + Cardinality(Out(r)) <= Limit(r)
        /\ reqs[r].st \in {"again", "rejoining"} => r \in Reads
        BY DEF SocketsInv, RunInv
  <2>3. reqs'[r].st = reqs[r].st \/ (reqs[r].st = "rejoining" /\ reqs'[r].st = "failed")
        BY DEF CalmReqs
  <2>4. Limit(r) <= Limit(r)' /\ Limit(r)' \in Nat
    <3>1. CASE reqs'[r].st = reqs[r].st
      <4>1. Limit(r)' = Limit(r)
            BY <3>1 DEF Limit
      <4> QED BY <4>1, RunCounts
    <3>2. CASE reqs[r].st = "rejoining" /\ reqs'[r].st = "failed"
      <4>1. r \in Reads
            BY <2>2, <3>2
      <4> QED BY <3>2, <4>1 DEF Limit
    <3> QED BY <2>3, <3>1, <3>2
  <2>5. Cardinality(Out(r)') = Cardinality(Out(r)) /\ ran'[r] = ran[r]
        BY <2>1
  <2>6. reqs'[r].st \in {"again", "rejoining"} => r \in Reads
        BY <2>2, <2>3
  <2> HIDE DEF Limit
  <2>7. Cardinality(Out(r)) \in Nat /\ Len(ran[r]) \in Nat /\ Limit(r) \in Nat
        BY RunCounts
  <2> QED BY <2>2, <2>4, <2>5, <2>6, <2>7
<1>6. V!RunsOnItsHost'
      BY DEF SocketsInv, V!RunsOnItsHost, CalmReqs
<1>7. V!AnswersItsOwn'
      BY DEF SocketsInv, V!AnswersItsOwn, CalmReqs
<1> QED BY <1>1, <1>2, <1>3, <1>4, <1>5, <1>6, <1>7 DEF SocketsInv

(* What becomes of the requests that were under way on a socket that is lost. *)
Lost(s) ==
  \A r \in Requests :
     /\ reqs'[r].host = reqs[r].host /\ reqs'[r].gen = reqs[r].gen
     /\ reqs'[r].origin = reqs[r].origin /\ reqs'[r].got = reqs[r].got
     /\ r \notin V!Range(socks[s].pending) => reqs'[r].st = reqs[r].st
     /\ r \in V!Range(socks[s].pending) =>
          \/ reqs'[r].st \in {"failed", "ambiguous"}
          \/ reqs'[r].st = "rejoining" /\ reqs[r].st = "waiting" /\ r \in Reads

(* Losing a socket keeps what holds of the sockets. *)
LEMMA DropStep ==
  ASSUME SessionTypes, SessionTypes', SocketsInv, NEW s \in V!Sockets, socks[s].st # "none",
         NEW x \in {"closing", "closed"},
         socks' = [socks EXCEPT ![s].st = x, ![s].pending = <<>>, ![s].armed = FALSE],
         Lost(s), ran' = ran
  PROVE  SocketsInv'
<1>0. /\ \A z \in V!Sockets : z # s => socks'[z] = socks[z]
      /\ socks'[s].st = x /\ socks'[s].pending = <<>> /\ socks'[s].host = socks[s].host
      /\ socks'[s].out = socks[s].out /\ socks'[s].back = socks[s].back
      /\ socks'[s].shut = socks[s].shut
      BY Zenon, DropTypes
<1>a. \A z \in V!Sockets : socks'[z].out = socks[z].out /\ socks'[z].host = socks[z].host
      BY <1>0
<1>b. \A r \in V!Range(socks[s].pending) :
        /\ r \in Requests /\ reqs[r].st \in {"waiting", "again"}
        /\ \E c \in Contexts : reqs[r].origin = {c} /\ c.sock = s
      BY PendingRequests DEF SocketsInv
<1>1. OutInv'
  <2> SUFFICES ASSUME NEW z \in V!Sockets
               PROVE  /\ NotTwice(socks'[z].out)
                      /\ \A i \in 1 .. Len(socks'[z].out) :
                           /\ socks'[z].host = reqs'[socks'[z].out[i]].host
                           /\ reqs'[socks'[z].out[i]].st \notin {"idle", "bound"}
      BY DEF OutInv
  <2>0. socks'[z].out = socks[z].out /\ socks'[z].host = socks[z].host
        BY <1>a
  <2>1. NotTwice(socks[z].out)
        BY DEF SocketsInv, OutInv
  <2> SUFFICES ASSUME NEW i \in 1 .. Len(socks[z].out)
               PROVE  /\ socks[z].host = reqs'[socks[z].out[i]].host
                      /\ reqs'[socks[z].out[i]].st \notin {"idle", "bound"}
      BY <2>0, <2>1
  <2> DEFINE r == socks[z].out[i]
  <2>2. r \in Requests
        BY SocketDomains
  <2>3. socks[z].host = reqs[r].host /\ reqs[r].st \notin {"idle", "bound"}
        BY DEF SocketsInv, OutInv
  <2>4. reqs'[r].host = reqs[r].host /\ reqs'[r].st \in {reqs[r].st, "failed", "ambiguous", "rejoining"}
        BY <2>2 DEF Lost
  <2> QED BY <2>3, <2>4
<1>2. PendingInv'
  <2> SUFFICES ASSUME NEW z \in V!Sockets
               PROVE  /\ NotTwice(socks'[z].pending)
                      /\ \A i \in 1 .. Len(socks'[z].pending) :
                           /\ reqs'[socks'[z].pending[i]].st \in {"waiting", "again"}
                           /\ \E c \in Contexts : /\ reqs'[socks'[z].pending[i]].origin = {c} /\ c.sock = z
                                                  /\ c.gen = reqs'[socks'[z].pending[i]].gen
      BY DEF PendingInv
  <2>1. CASE z = s
    <3>1. socks'[z].pending = <<>>
          BY <1>0, <2>1
    <3>2. NotTwice(<<>>) /\ \A i \in 1 .. Len(<<>>) : FALSE
          BY DEF NotTwice
    <3> QED BY <3>1, <3>2
  <2>2. CASE z # s
    <3>1. socks'[z].pending = socks[z].pending
          BY <1>0, <2>2
    <3>2. NotTwice(socks[z].pending)
          BY DEF SocketsInv, PendingInv
    <3> SUFFICES ASSUME NEW i \in 1 .. Len(socks[z].pending)
                 PROVE  /\ reqs'[socks[z].pending[i]].st \in {"waiting", "again"}
                        /\ \E c \in Contexts : /\ reqs'[socks[z].pending[i]].origin = {c} /\ c.sock = z
                                               /\ c.gen = reqs'[socks[z].pending[i]].gen
        BY <3>1, <3>2
    <3> DEFINE r == socks[z].pending[i]
    <3>3. r \in Requests
          BY SocketDomains
    <3>4. /\ reqs[r].st \in {"waiting", "again"}
          /\ \E c \in Contexts : reqs[r].origin = {c} /\ c.sock = z /\ c.gen = reqs[r].gen
          BY Zenon DEF SocketsInv, PendingInv
    <3> HIDE DEF r
    <3>5. r \notin V!Range(socks[s].pending)
          BY <1>b, <2>2, <3>4
    <3>6. reqs'[r].st = reqs[r].st /\ reqs'[r].origin = reqs[r].origin /\ reqs'[r].gen = reqs[r].gen
          BY <3>3, <3>5 DEF Lost
    <3> QED BY <3>4, <3>6 DEF r
  <2> QED BY <2>1, <2>2
<1>3. UnusedInv'
      BY <1>0 DEF UnusedInv, SocketsInv
<1>4. MatchInv'
      BY <1>0 DEF MatchInv, SocketsInv
<1>5. RunInv'
  <2> SUFFICES ASSUME NEW r \in Requests
               PROVE  /\ Len(ran'[r]) + Cardinality(Out(r)') <= Limit(r)'
                      /\ reqs'[r].st \in {"again", "rejoining"} => r \in Reads
      BY DEF RunInv
  <2>1. Out(r)' = Out(r)
        BY <1>a DEF Out
  <2>2. /\ Len(ran[r]) + Cardinality(Out(r)) <= Limit(r)
        /\ reqs[r].st \in {"again", "rejoining"} => r \in Reads
        BY DEF SocketsInv, RunInv
  <2>3. \/ reqs'[r].st = reqs[r].st
        \/ /\ reqs[r].st \in {"waiting", "again"}
           /\ \/ reqs'[r].st \in {"failed", "ambiguous"}
              \/ reqs'[r].st = "rejoining" /\ reqs[r].st = "waiting" /\ r \in Reads
        BY <1>b DEF Lost
  <2>4. Limit(r) <= Limit(r)' /\ Limit(r)' \in Nat
    <3>1. CASE reqs'[r].st = reqs[r].st
      <4>1. Limit(r)' = Limit(r)
            BY <3>1 DEF Limit
      <4> QED BY <4>1, RunCounts
    <3>2. CASE reqs[r].st = "waiting" /\ reqs'[r].st \in {"failed", "ambiguous", "rejoining"}
          BY <3>2 DEF Limit
    <3>3. CASE reqs[r].st = "again" /\ reqs'[r].st \in {"failed", "ambiguous"}
      <4>1. r \in Reads
            BY <2>2, <3>3
      <4> QED BY <3>3, <4>1 DEF Limit
    <3> QED BY <2>3, <3>1, <3>2, <3>3
  <2>5. Cardinality(Out(r)') = Cardinality(Out(r)) /\ ran'[r] = ran[r]
        BY <2>1
  <2>6. reqs'[r].st \in {"again", "rejoining"} => r \in Reads
        BY <2>2, <2>3
  <2> HIDE DEF Limit
  <2>7. Cardinality(Out(r)) \in Nat /\ Len(ran[r]) \in Nat /\ Limit(r) \in Nat
        BY RunCounts
  <2> QED BY <2>2, <2>4, <2>5, <2>6, <2>7
<1>6. V!RunsOnItsHost'
      BY DEF SocketsInv, V!RunsOnItsHost, Lost
<1>7. V!AnswersItsOwn'
      BY DEF SocketsInv, V!AnswersItsOwn, Lost
<1> QED BY <1>1, <1>2, <1>3, <1>4, <1>5, <1>6, <1>7 DEF SocketsInv

(* The requests of a socket that fails are told, or wait to be repeated. *)
LEMMA InterruptedLoses ==
  ASSUME SessionTypes, SocketsInv, NEW s \in V!Sockets, V!Interrupted(V!Range(socks[s].pending))
  PROVE  Lost(s)
<1> DEFINE lost == V!Range(socks[s].pending)
           repeated == V!Repeats(lost)
           outcome(r) == IF reqs[r].st = "waiting" /\ r \notin Reads THEN "ambiguous" ELSE "failed"
           refused == [r \in Requests |-> IF r \in lost THEN [reqs[r] EXCEPT !.st = outcome(r)] ELSE reqs[r]]
<1>1. \/ reqs' = refused
      \/ reqs' = [r \in Requests |-> IF r \in repeated THEN [reqs[r] EXCEPT !.st = "rejoining"] ELSE refused[r]]
      BY DEF V!Interrupted
<1>2. SUFFICES ASSUME NEW r \in Requests
               PROVE  /\ reqs'[r].host = reqs[r].host /\ reqs'[r].gen = reqs[r].gen
                      /\ reqs'[r].origin = reqs[r].origin /\ reqs'[r].got = reqs[r].got
                      /\ r \notin lost => reqs'[r].st = reqs[r].st
                      /\ r \in lost =>
                           \/ reqs'[r].st \in {"failed", "ambiguous"}
                           \/ reqs'[r].st = "rejoining" /\ reqs[r].st = "waiting" /\ r \in Reads
      BY DEF Lost
<1>3. reqs[r] \in RequestStates
      BY DEF SessionTypes
<1>4. r \in repeated => r \in lost /\ reqs[r].st = "waiting" /\ r \in Reads
      BY DEF V!Repeats
<1>5. PICK o \in Statuses : o = outcome(r) /\ o \in {"failed", "ambiguous"}
      BY DEF Statuses
<1>6. refused[r] = IF r \in lost THEN [reqs[r] EXCEPT !.st = o] ELSE reqs[r]
      BY <1>5
<1>7. \/ reqs'[r] = refused[r]
      \/ r \in repeated /\ reqs'[r] = [reqs[r] EXCEPT !.st = "rejoining"]
      BY <1>1
<1> HIDE DEF lost, repeated, outcome, refused
<1>8. "rejoining" \in Statuses
      BY DEF Statuses
<1>9. CASE r \in repeated /\ reqs'[r] = [reqs[r] EXCEPT !.st = "rejoining"]
  <2>1. /\ reqs'[r].st = "rejoining" /\ reqs'[r].host = reqs[r].host /\ reqs'[r].gen = reqs[r].gen
        /\ reqs'[r].origin = reqs[r].origin /\ reqs'[r].got = reqs[r].got
        BY <1>3, <1>8, <1>9, RequestWith
  <2> QED BY <1>4, <1>9, <2>1
<1>10. CASE r \in lost /\ reqs'[r] = refused[r]
  <2>1. reqs'[r] = [reqs[r] EXCEPT !.st = o]
        BY <1>6, <1>10
  <2>2. /\ reqs'[r].st = o /\ reqs'[r].host = reqs[r].host /\ reqs'[r].gen = reqs[r].gen
        /\ reqs'[r].origin = reqs[r].origin /\ reqs'[r].got = reqs[r].got
        BY <1>3, <2>1, RequestWith
  <2> QED BY <1>5, <1>10, <2>2
<1>11. CASE r \notin lost /\ reqs'[r] = refused[r]
  <2>1. reqs'[r] = reqs[r]
        BY <1>6, <1>11
  <2> QED BY <1>11, <2>1
<1> QED BY <1>7, <1>9, <1>10, <1>11

(* So do those of a socket whose oldest request timed out. *)
LEMMA TimeoutLoses ==
  ASSUME SessionTypes, SocketsInv, NEW s \in V!Sockets, V!TimeoutFront(s)
  PROVE  Lost(s)
<1> DEFINE lost == V!Range(socks[s].pending) \ V!Range(V!Destroyed(socks, s)[s].pending)
           outcome(r) == IF reqs[r].st = "waiting" /\ r \notin Reads THEN "ambiguous" ELSE "failed"
<1>1. reqs' = [r \in Requests |-> IF r \in lost THEN [reqs[r] EXCEPT !.st = outcome(r)] ELSE reqs[r]]
      BY DEF V!TimeoutFront
<1>2. lost = V!Range(socks[s].pending)
  <2>1. socks' = V!Destroyed(socks, s)
        BY DEF V!TimeoutFront
  <2>2. socks'[s].pending = <<>>
        BY Zenon, <2>1, DropTypes DEF V!Destroyed
  <2>3. V!Range(<<>>) = {}
        BY DEF V!Range
  <2> QED BY <2>1, <2>2, <2>3
<1> HIDE DEF lost
<1> SUFFICES ASSUME NEW r \in Requests
             PROVE  /\ reqs'[r].host = reqs[r].host /\ reqs'[r].gen = reqs[r].gen
                    /\ reqs'[r].origin = reqs[r].origin /\ reqs'[r].got = reqs[r].got
                    /\ r \notin lost => reqs'[r].st = reqs[r].st
                    /\ r \in lost => reqs'[r].st \in {"failed", "ambiguous"}
    BY <1>2 DEF Lost
<1>3. reqs[r] \in RequestStates
      BY DEF SessionTypes
<1>4. PICK o \in Statuses : o = outcome(r) /\ o \in {"failed", "ambiguous"}
      BY DEF Statuses
<1>5. reqs'[r] = IF r \in lost THEN [reqs[r] EXCEPT !.st = o] ELSE reqs[r]
      BY <1>1, <1>4
<1> HIDE DEF outcome
<1> QED BY <1>3, <1>4, <1>5, RequestWith

(* A socket that is lost keeps what holds of the sockets. *)
LEMMA LossStep ==
  ASSUME SessionTypes, SessionTypes', SocketsInv, NEW s \in V!Sockets,
         V!TimeoutFront(s) \/ V!Fails(s) \/ V!Closes(s)
  PROVE  SocketsInv'
<1>1. CASE V!TimeoutFront(s)
  <2>1. /\ socks' = [socks EXCEPT ![s].st = "closing", ![s].pending = <<>>, ![s].armed = FALSE]
        /\ socks[s].st = "open" /\ ran' = ran
        BY <1>1 DEF V!TimeoutFront, V!Destroyed
  <2> QED BY Zenon, <1>1, <2>1, TimeoutLoses, DropStep
<1>2. CASE V!Fails(s)
  <2>1. /\ socks' = [socks EXCEPT ![s].st = "closing", ![s].pending = <<>>, ![s].armed = FALSE]
        /\ socks[s].st = "open" /\ ran' = ran /\ V!Interrupted(V!Range(socks[s].pending))
        BY <1>2 DEF V!Fails
  <2> QED BY Zenon, <2>1, InterruptedLoses, DropStep
<1>3. CASE V!Closes(s)
  <2>1. /\ socks' = [socks EXCEPT ![s].st = "closed", ![s].pending = <<>>, ![s].armed = FALSE]
        /\ socks[s].st = "closing" /\ ran' = ran /\ V!Interrupted(V!Range(socks[s].pending))
        BY <1>3 DEF V!Closes
  <2> QED BY Zenon, <2>1, InterruptedLoses, DropStep
<1> QED BY <1>1, <1>2, <1>3

(* The host answers the oldest request it has not read, or refuses it. *)
LEMMA HostStep ==
  ASSUME SessionTypes, SessionTypes', SocketsInv, NEW s \in V!Sockets, V!HostRuns(s)
  PROVE  SocketsInv'
<1> DEFINE q == Head(socks[s].out)
<1>0. /\ socks[s].out # <<>> /\ ~socks[s].shut /\ q \in Requests
      /\ \A z \in V!Sockets : z # s => socks'[z] = socks[z]
      /\ socks'[s].st = socks[s].st /\ socks'[s].host = socks[s].host
      /\ socks'[s].pending = socks[s].pending
      /\ \/ /\ ran' = [ran EXCEPT ![q] = Append(@, socks[s].host)]
            /\ socks'[s].out = Tail(socks[s].out) /\ ~socks'[s].shut
            /\ socks'[s].back = Append(socks[s].back, [of |-> q, ok |-> TRUE])
         \/ /\ ran' = ran
            /\ socks'[s].out = <<>> /\ socks'[s].shut
            /\ socks'[s].back = Append(socks[s].back, [of |-> q, ok |-> FALSE])
      BY HostSocks
<1>a. reqs' = reqs
      BY DEF V!HostRuns
<1>b. /\ socks[s].out \in Seq(Requests) /\ Len(socks[s].out) \in Nat /\ Len(socks[s].out) > 0
      /\ q = socks[s].out[1] /\ socks[s].back \in Seq(Answers) /\ Len(socks[s].back) \in Nat
  <2>1. socks[s].out \in Seq(Requests) /\ Len(socks[s].out) \in Nat
        /\ socks[s].back \in Seq(Answers) /\ Len(socks[s].back) \in Nat
        BY SocketDomains
  <2> QED BY <1>0, <2>1
<1>c. socks[s].host = reqs[q].host /\ reqs[q].st \notin {"idle", "bound"} /\ NotTwice(socks[s].out)
      BY <1>b DEF SocketsInv, OutInv
<1>d. \/ socks'[s].out = <<>>
      \/ /\ Len(Tail(socks[s].out)) = Len(socks[s].out) - 1
         /\ \A i \in 1 .. Len(socks[s].out) - 1 : Tail(socks[s].out)[i] = socks[s].out[i + 1]
      BY <1>b
<1>e. /\ Len(socks'[s].out) \in Nat /\ Len(socks'[s].out) <= Len(socks[s].out) - 1
      /\ \A i \in 1 .. Len(socks'[s].out) : socks'[s].out[i] = socks[s].out[i + 1]
  <2>1. CASE socks'[s].out = <<>>
    <3>1. Len(socks'[s].out) = 0
          BY <2>1
    <3> QED BY <1>b, <3>1
  <2>2. CASE socks'[s].out = Tail(socks[s].out)
    <3>1. Len(Tail(socks[s].out)) = Len(socks[s].out) - 1
          /\ \A i \in 1 .. Len(socks[s].out) - 1 : Tail(socks[s].out)[i] = socks[s].out[i + 1]
          BY <1>b
    <3> QED BY <1>b, <2>2, <3>1
  <2> QED BY <1>0, <2>1, <2>2
<1> HIDE DEF q
<1>1. OutInv'
  <2> SUFFICES ASSUME NEW z \in V!Sockets
               PROVE  /\ NotTwice(socks'[z].out)
                      /\ \A i \in 1 .. Len(socks'[z].out) :
                           /\ socks'[z].host = reqs[socks'[z].out[i]].host
                           /\ reqs[socks'[z].out[i]].st \notin {"idle", "bound"}
      BY <1>a DEF OutInv
  <2>1. CASE z # s
        BY <1>0, <2>1 DEF SocketsInv, OutInv
  <2>2. CASE z = s
    <3>2. \A i \in 1 .. Len(socks'[s].out) : i + 1 \in 1 .. Len(socks[s].out)
          BY <1>b, <1>e
    <3>1. NotTwice(socks'[s].out)
      <4> SUFFICES ASSUME NEW i \in 1 .. Len(socks'[s].out), NEW j \in 1 .. Len(socks'[s].out),
                          socks'[s].out[i] = socks'[s].out[j]
                   PROVE  i = j
          BY DEF NotTwice
      <4>1. socks[s].out[i + 1] = socks[s].out[j + 1]
            BY <1>e
      <4>2. i + 1 \in 1 .. Len(socks[s].out) /\ j + 1 \in 1 .. Len(socks[s].out)
            BY <3>2
      <4>3. i + 1 = j + 1
            BY <1>c, <4>1, <4>2 DEF NotTwice
      <4> QED BY <1>e, <4>3
    <3>3. \A i \in 1 .. Len(socks[s].out) : /\ socks[s].host = reqs[socks[s].out[i]].host
                                            /\ reqs[socks[s].out[i]].st \notin {"idle", "bound"}
          BY DEF SocketsInv, OutInv
    <3>4. \A i \in 1 .. Len(socks'[s].out) : /\ socks[s].host = reqs[socks'[s].out[i]].host
                                             /\ reqs[socks'[s].out[i]].st \notin {"idle", "bound"}
      <4> TAKE i \in 1 .. Len(socks'[s].out)
      <4>1. socks'[s].out[i] = socks[s].out[i + 1] /\ i + 1 \in 1 .. Len(socks[s].out)
            BY <1>e, <3>2
      <4> QED BY <3>3, <4>1
    <3>5. socks'[s].host = socks[s].host
          BY <1>0
    <3> QED BY <2>2, <3>1, <3>4, <3>5
  <2> QED BY <2>1, <2>2
<1>2. PendingInv'
  <2>1. \A z \in V!Sockets : socks'[z].pending = socks[z].pending
        BY <1>0
  <2> SUFFICES ASSUME NEW z \in V!Sockets
               PROVE  /\ NotTwice(socks'[z].pending)
                      /\ \A i \in 1 .. Len(socks'[z].pending) :
                           /\ reqs'[socks'[z].pending[i]].st \in {"waiting", "again"}
                           /\ \E c \in Contexts : /\ reqs'[socks'[z].pending[i]].origin = {c} /\ c.sock = z
                                                  /\ c.gen = reqs'[socks'[z].pending[i]].gen
      BY Zenon DEF PendingInv
  <2>2. socks'[z].pending = socks[z].pending
        BY <2>1
  <2>3. /\ NotTwice(socks[z].pending)
        /\ \A i \in 1 .. Len(socks[z].pending) :
             /\ reqs[socks[z].pending[i]].st \in {"waiting", "again"}
             /\ \E c \in Contexts : /\ reqs[socks[z].pending[i]].origin = {c} /\ c.sock = z
                                    /\ c.gen = reqs[socks[z].pending[i]].gen
        BY Zenon DEF SocketsInv, PendingInv
  <2> QED BY <1>a, <2>2, <2>3, Zenon
<1>3. UnusedInv'
  <2>1. socks[s].st # "none"
    <3>1. Len(V!Unused.out) = 0
          BY DEF V!Unused
    <3> QED BY <1>b, <3>1 DEF SocketsInv, UnusedInv
  <2> QED BY <1>0, <2>1 DEF SocketsInv, UnusedInv
<1>4. MatchInv'
  <2> SUFFICES ASSUME NEW z \in V!Sockets, socks'[z].st = "open" PROVE Matches(socks'[z])
      BY DEF MatchInv
  <2>1. CASE z # s
        BY <1>0, <2>1 DEF SocketsInv, MatchInv
  <2>2. CASE z = s
    <3> DEFINE j == socks[s]
               k == socks'[s]
    <3>1. Matches(j)
          BY <1>0, <2>2 DEF SocketsInv, MatchInv
    <3>2. PICK a : a.of = q /\ k.back = Append(j.back, a)
      <4>1. \A b \in BOOLEAN : [of |-> q, ok |-> b].of = q
            OBVIOUS
      <4> QED BY <1>0, <4>1
    <3>3. /\ Len(k.back) = Len(j.back) + 1
          /\ \A i \in 1 .. Len(j.back) : k.back[i] = j.back[i]
          /\ k.back[Len(j.back) + 1] = a
      <4>1. j.back \in Seq(Answers \cup {a}) /\ a \in Answers \cup {a}
            BY <1>b
      <4> QED BY <3>2, <4>1
    <3>4. ~j.shut /\ k.pending = j.pending
          BY <1>0
    <3>5. /\ Len(j.pending) = Len(j.back) + Len(j.out)
          /\ \A i \in 1 .. Len(j.out) : j.out[i] = j.pending[Len(j.back) + i]
          BY <3>1, <3>4 DEF Matches
    <3>a. /\ Len(j.back) \in Nat /\ Len(j.out) \in Nat /\ Len(j.out) > 0 /\ q = j.out[1]
          /\ Len(k.out) \in Nat /\ \A i \in 1 .. Len(k.out) : k.out[i] = j.out[i + 1]
          BY <1>b, <1>e
    <3>b. ~k.shut => Len(k.out) = Len(j.out) - 1
      <4> SUFFICES ASSUME ~k.shut PROVE Len(k.out) = Len(j.out) - 1
          OBVIOUS
      <4>1. k.out = Tail(j.out)
            BY <1>0
      <4> QED BY <1>b, <4>1
    <3> HIDE DEF j, k
    <3>6. Len(k.back) <= Len(k.pending)
          BY <3>a, <3>3, <3>4, <3>5
    <3>7. k.back[Len(j.back) + 1].of = j.pending[Len(j.back) + 1]
      <4>1. 1 \in 1 .. Len(j.out)
            BY <3>a
      <4>2. j.out[1] = j.pending[Len(j.back) + 1]
            BY <3>5, <4>1
      <4> QED BY <3>a, <3>2, <3>3, <4>2
    <3>8. \A i \in 1 .. Len(k.back) : k.back[i].of = k.pending[i]
      <4>1. \A i \in 1 .. Len(j.back) : j.back[i].of = j.pending[i]
            BY <3>1 DEF Matches
      <4>2. \A i \in 1 .. Len(k.back) : i \in 1 .. Len(j.back) \/ i = Len(j.back) + 1
            BY <3>a, <3>3
      <4> QED BY <3>3, <3>4, <3>7, <4>1, <4>2
    <3>9. ~k.shut =>
            /\ Len(k.pending) = Len(k.back) + Len(k.out)
            /\ \A i \in 1 .. Len(k.out) : k.out[i] = k.pending[Len(k.back) + i]
      <4> SUFFICES ASSUME ~k.shut
                   PROVE  /\ Len(k.pending) = Len(k.back) + Len(k.out)
                          /\ \A i \in 1 .. Len(k.out) : k.out[i] = k.pending[Len(k.back) + i]
          OBVIOUS
      <4>1. Len(k.out) = Len(j.out) - 1
            BY <3>b
      <4>a. /\ Len(k.back) = Len(j.back) + 1 /\ Len(k.pending) = Len(j.back) + Len(j.out)
            /\ Len(j.back) \in Nat /\ Len(j.out) \in Nat
            BY <3>a, <3>3, <3>4, <3>5
      <4>2. Len(k.pending) = Len(k.back) + Len(k.out)
        <5>1. PICK b \in Nat : b = Len(j.back)
              BY <4>a
        <5>2. PICK o \in Nat : o = Len(j.out)
              BY <4>a
        <5>3. Len(k.back) = b + 1 /\ Len(k.out) = o - 1 /\ Len(k.pending) = b + o
              BY <4>a, <4>1, <5>1, <5>2
        <5>4. (b + 1) + (o - 1) = b + o
              OBVIOUS
        <5> QED BY <5>3, <5>4
      <4>3. ASSUME NEW i \in 1 .. Len(k.out) PROVE k.out[i] = k.pending[Len(k.back) + i]
        <5>a. PICK b \in Nat : b = Len(j.back)
              BY <4>a
        <5>b. PICK o \in Nat : o = Len(j.out)
              BY <4>a
        <5>c. Len(k.back) = b + 1 /\ i \in 1 .. o - 1
              BY <4>a, <4>1, <5>a, <5>b
        <5>d. i + 1 \in 1 .. o /\ b + (i + 1) = (b + 1) + i
              BY <5>c
        <5>1. i + 1 \in 1 .. Len(j.out) /\ Len(j.back) + (i + 1) = Len(k.back) + i
              BY <5>a, <5>b, <5>c, <5>d
        <5>2. j.out[i + 1] = j.pending[Len(j.back) + (i + 1)]
              BY <3>5, <5>1
        <5> QED BY <3>a, <3>4, <5>1, <5>2
      <4> QED BY <4>2, <4>3
    <3>10. Matches(k)
           BY <3>6, <3>8, <3>9 DEF Matches
    <3> QED BY <2>2, <3>10 DEF k
  <2> QED BY <2>1, <2>2
<1>5. RunInv'
  <2> SUFFICES ASSUME NEW r \in Requests
               PROVE  Len(ran'[r]) + Cardinality(Out(r)') <= Limit(r)
      BY <1>a DEF SocketsInv, RunInv, Limit
  <2>1. Len(ran[r]) + Cardinality(Out(r)) <= Limit(r)
        BY DEF SocketsInv, RunInv
  <2>2. /\ Cardinality(Out(r)) \in Nat /\ Len(ran[r]) \in Nat /\ Limit(r) \in Nat
        /\ IsFiniteSet(Out(r)) /\ ran[r] \in Seq(Hosts \cup {V!NoHost})
        BY RunCounts
  <2>3. CASE r = q
    <3>1. s \in Out(r) /\ s \notin Out(r)' /\ Out(r)' \in SUBSET (Out(r) \ {s})
      <4>1. s \in Out(r)
            BY <1>b, <2>3 DEF Out
      <4>2. \A i \in 1 .. Len(socks'[s].out) : socks'[s].out[i] # q
            BY <1>b, <1>c, <1>e DEF NotTwice
      <4>3. s \notin Out(r)'
            BY <2>3, <4>2 DEF Out
      <4>4. \A z \in V!Sockets : z # s => socks'[z].out = socks[z].out
            BY <1>0
      <4> QED BY <4>1, <4>3, <4>4 DEF Out
    <3>2. IsFiniteSet(Out(r) \ {s}) /\ Cardinality(Out(r) \ {s}) = Cardinality(Out(r)) - 1
          BY <2>2, <3>1, FS_RemoveElement
    <3>3. Cardinality(Out(r)') <= Cardinality(Out(r)) - 1 /\ Cardinality(Out(r)') \in Nat
          BY <3>1, <3>2, FS_Subset, FS_CardinalityType
    <3>4. Len(ran'[r]) \in Nat /\ Len(ran'[r]) <= Len(ran[r]) + 1
      <4>1. CASE ran' = ran
            BY <2>2, <4>1
      <4>2. CASE ran' = [ran EXCEPT ![q] = Append(@, socks[s].host)]
        <5>1. ran'[r] = Append(ran[r], socks[s].host)
              BY <2>3, <4>2 DEF SessionTypes
        <5>2. ran[r] \in Seq((Hosts \cup {V!NoHost}) \cup {socks[s].host})
              BY <2>2
        <5>3. Len(ran'[r]) = Len(ran[r]) + 1
              BY <5>1, <5>2
        <5> QED BY <2>2, <5>3
      <4> QED BY <1>0, <4>1, <4>2
    <3> QED BY <2>1, <2>2, <3>3, <3>4
  <2>4. CASE r # q
    <3>1. ran'[r] = ran[r]
          BY <1>0, <2>4 DEF SessionTypes
    <3>2. Out(r)' \in SUBSET Out(r)
      <4>1. \A z \in V!Sockets : z # s => socks'[z].out = socks[z].out
            BY <1>0
      <4>2. \A i \in 1 .. Len(socks'[s].out) : i + 1 \in 1 .. Len(socks[s].out)
            BY <1>b, <1>e
      <4> QED BY <1>e, <4>1, <4>2 DEF Out
    <3>3. Cardinality(Out(r)') <= Cardinality(Out(r)) /\ Cardinality(Out(r)') \in Nat
          BY <2>2, <3>2, FS_Subset, FS_CardinalityType
    <3> QED BY <2>1, <2>2, <3>1, <3>3
  <2> QED BY <2>3, <2>4
<1>6. V!RunsOnItsHost'
  <2> SUFFICES ASSUME NEW r \in Requests, NEW i \in DOMAIN ran'[r] PROVE ran'[r][i] = reqs[r].host
      BY <1>a DEF V!RunsOnItsHost
  <2>1. ran[r] \in Seq(Hosts \cup {V!NoHost})
        BY RunCounts
  <2>2. \A m \in DOMAIN ran[r] : ran[r][m] = reqs[r].host
        BY DEF SocketsInv, V!RunsOnItsHost
  <2>3. CASE ran'[r] = ran[r]
        BY <2>2, <2>3
  <2>4. CASE r = q /\ ran'[r] = Append(ran[r], socks[s].host)
    <3>1. ran[r] \in Seq((Hosts \cup {V!NoHost}) \cup {socks[s].host})
          BY <2>1
    <3>2. i \in 1 .. Len(ran[r]) + 1
          BY <2>4, <3>1
    <3>3. CASE i = Len(ran[r]) + 1
      <4>1. ran'[r][i] = socks[s].host
            BY <2>4, <3>1, <3>3
      <4> QED BY <1>c, <2>4, <4>1
    <3>4. CASE i \in 1 .. Len(ran[r])
      <4>1. ran'[r][i] = ran[r][i] /\ i \in DOMAIN ran[r]
            BY <2>4, <3>1, <3>4
      <4> QED BY <2>2, <4>1
    <3>5. Len(ran[r]) \in Nat
          BY <2>1
    <3> QED BY <3>2, <3>3, <3>4, <3>5
  <2>5. ran'[r] = ran[r] \/ (r = q /\ ran'[r] = Append(ran[r], socks[s].host))
        BY <1>0 DEF SessionTypes
  <2> QED BY <2>3, <2>4, <2>5
<1>7. V!AnswersItsOwn'
      BY <1>a DEF SocketsInv, V!AnswersItsOwn
<1> QED BY <1>1, <1>2, <1>3, <1>4, <1>5, <1>6, <1>7 DEF SocketsInv

(* Places in a sequence that lost its first element. *)
LEMMA Shifted ==
  ASSUME NEW b \in Nat, NEW o \in Nat, b > 0, NEW n \in 1 .. o
  PROVE  (b - 1) + n \in 1 .. (b + o) - 1 /\ ((b - 1) + n) + 1 = b + n
OBVIOUS

(* A response goes to the oldest request of its socket. *)
LEMMA DeliverStep ==
  ASSUME SessionTypes, SessionTypes', SocketsInv, NEW s \in V!Sockets, V!Deliver(s)
  PROVE  SocketsInv'
<1> DEFINE j == socks[s]
           k == socks'[s]
           q == Head(socks[s].pending)
           a == Head(socks[s].back)
<1>0. /\ j.st = "open" /\ j.back # <<>>
      /\ \A z \in V!Sockets : z # s => socks'[z] = socks[z]
      /\ k.st = j.st /\ k.host = j.host /\ k.out = j.out /\ k.shut = j.shut
      /\ k.back = Tail(j.back)
      /\ k.pending = IF j.pending = <<>> THEN <<>> ELSE Tail(j.pending)
      BY DeliverSocks
<1>a. ran' = ran
      BY DEF V!Deliver
<1>b. Matches(j)
      BY <1>0 DEF SocketsInv, MatchInv
<1>c. /\ j.pending \in Seq(Requests) /\ j.back \in Seq(Answers)
      /\ Len(j.pending) \in Nat /\ Len(j.back) \in Nat /\ Len(j.out) \in Nat
      BY SocketDomains
<1>d. /\ Len(j.back) > 0 /\ Len(j.pending) > 0 /\ j.pending # <<>>
      /\ q = j.pending[1] /\ a = j.back[1] /\ a.of = q /\ q \in Requests
  <2>1. Len(j.back) > 0
        BY <1>0, <1>c
  <2>2. Len(j.back) <= Len(j.pending) /\ \A i \in 1 .. Len(j.back) : j.back[i].of = j.pending[i]
        BY <1>b DEF Matches
  <2>3. Len(j.pending) > 0
        BY <1>c, <2>1, <2>2
  <2>4. j.pending # <<>>
        BY <2>3
  <2>5. q = j.pending[1] /\ a = j.back[1] /\ q \in Requests
        BY <1>c, <2>1, <2>3, <2>4
  <2>6. 1 \in 1 .. Len(j.back)
        BY <1>c, <2>1
  <2> QED BY <2>1, <2>2, <2>3, <2>4, <2>5, <2>6
<1>e. /\ reqs' = [reqs EXCEPT ![q].st = IF a.ok THEN "done" ELSE "unauthorized", ![q].got = {a.of}]
      BY <1>d DEF V!Deliver
<1>f. /\ Len(k.pending) = Len(j.pending) - 1
      /\ \A i \in 1 .. Len(k.pending) : i + 1 \in 1 .. Len(j.pending) /\ k.pending[i] = j.pending[i + 1]
  <2>1. k.pending = Tail(j.pending)
        BY <1>0, <1>d
  <2> QED BY <1>c, <1>d, <2>1
<1>g. /\ Len(k.back) = Len(j.back) - 1
      /\ \A i \in 1 .. Len(k.back) : i + 1 \in 1 .. Len(j.back) /\ k.back[i] = j.back[i + 1]
      BY <1>0, <1>c, <1>d
<1>h. /\ reqs[q].st \in {"waiting", "again"} /\ NotTwice(j.pending)
      /\ \E c \in Contexts : reqs[q].origin = {c} /\ c.sock = s
  <2>1. 1 \in 1 .. Len(j.pending)
        BY <1>c, <1>d
  <2> QED BY <1>d, <2>1 DEF SocketsInv, PendingInv
<1> HIDE DEF j, k, q, a
<1>i. /\ reqs'[q].st \in {"done", "unauthorized"} /\ reqs'[q].got = {q}
      /\ reqs'[q].host = reqs[q].host /\ reqs'[q].gen = reqs[q].gen /\ reqs'[q].origin = reqs[q].origin
      /\ \A r \in Requests : r # q => reqs'[r] = reqs[r]
  <2>1. reqs \in [Requests -> RequestStates]
        BY DEF SessionTypes
  <2>2. PICK p \in RequestStates : p = reqs[q]
        BY <1>d, <2>1
  <2>3. PICK x \in {"done", "unauthorized"} : x = IF a.ok THEN "done" ELSE "unauthorized"
        OBVIOUS
  <2>4. PICK g : g = {q}
        OBVIOUS
  <2>5. reqs' = [reqs EXCEPT ![q] = [p EXCEPT !.st = x, !.got = g]]
        BY <1>d, <1>e, <2>2, <2>3, <2>4
  <2>6. /\ [p EXCEPT !.st = x, !.got = g].st = x /\ [p EXCEPT !.st = x, !.got = g].got = g
        /\ [p EXCEPT !.st = x, !.got = g].host = p.host /\ [p EXCEPT !.st = x, !.got = g].gen = p.gen
        /\ [p EXCEPT !.st = x, !.got = g].origin = p.origin
        BY DEF RequestStates
  <2>7. reqs'[q] = [p EXCEPT !.st = x, !.got = g] /\ \A r \in Requests : r # q => reqs'[r] = reqs[r]
        BY <1>d, <2>1, <2>5
  <2> QED BY <2>2, <2>3, <2>4, <2>6, <2>7
<1>j. \A z \in V!Sockets : socks'[z].out = socks[z].out /\ socks'[z].host = socks[z].host
      BY <1>0 DEF j, k
<1>1. OutInv'
  <2> SUFFICES ASSUME NEW z \in V!Sockets
               PROVE  /\ NotTwice(socks'[z].out)
                      /\ \A i \in 1 .. Len(socks'[z].out) :
                           /\ socks'[z].host = reqs'[socks'[z].out[i]].host
                           /\ reqs'[socks'[z].out[i]].st \notin {"idle", "bound"}
      BY DEF OutInv
  <2>0. socks'[z].out = socks[z].out /\ socks'[z].host = socks[z].host
        BY <1>j
  <2>1. NotTwice(socks[z].out)
        BY DEF SocketsInv, OutInv
  <2> SUFFICES ASSUME NEW i \in 1 .. Len(socks[z].out)
               PROVE  /\ socks[z].host = reqs'[socks[z].out[i]].host
                      /\ reqs'[socks[z].out[i]].st \notin {"idle", "bound"}
      BY <2>0, <2>1
  <2> DEFINE r == socks[z].out[i]
  <2>2. r \in Requests
        BY SocketDomains
  <2>3. socks[z].host = reqs[r].host /\ reqs[r].st \notin {"idle", "bound"}
        BY DEF SocketsInv, OutInv
  <2> QED BY <1>i, <2>2, <2>3
<1>2. PendingInv'
  <2> SUFFICES ASSUME NEW z \in V!Sockets
               PROVE  /\ NotTwice(socks'[z].pending)
                      /\ \A i \in 1 .. Len(socks'[z].pending) :
                           /\ reqs'[socks'[z].pending[i]].st \in {"waiting", "again"}
                           /\ \E c \in Contexts : /\ reqs'[socks'[z].pending[i]].origin = {c} /\ c.sock = z
                                                  /\ c.gen = reqs'[socks'[z].pending[i]].gen
      BY DEF PendingInv
  <2>1. /\ NotTwice(socks[z].pending)
        /\ \A i \in 1 .. Len(socks[z].pending) :
             /\ socks[z].pending[i] \in Requests
             /\ reqs[socks[z].pending[i]].st \in {"waiting", "again"}
             /\ \E c \in Contexts : /\ reqs[socks[z].pending[i]].origin = {c} /\ c.sock = z
                                    /\ c.gen = reqs[socks[z].pending[i]].gen
    <3>1. \A i \in 1 .. Len(socks[z].pending) : socks[z].pending[i] \in Requests
          BY SocketDomains
    <3> QED BY <3>1 DEF SocketsInv, PendingInv
  <2>2. CASE z # s
    <3>1. socks'[z].pending = socks[z].pending
          BY <1>0, <2>2
    <3>2. \A i \in 1 .. Len(socks[z].pending) : socks[z].pending[i] # q
          BY <1>h, <2>1, <2>2
    <3>3. ASSUME NEW i \in 1 .. Len(socks[z].pending)
          PROVE  reqs'[socks[z].pending[i]] = reqs[socks[z].pending[i]]
      <4>1. socks[z].pending[i] \in Requests /\ socks[z].pending[i] # q
            BY <2>1, <3>2
      <4> QED BY <1>i, <4>1
    <3>4. ASSUME NEW i \in 1 .. Len(socks[z].pending)
          PROVE  /\ reqs'[socks[z].pending[i]].st \in {"waiting", "again"}
                 /\ \E c \in Contexts : /\ reqs'[socks[z].pending[i]].origin = {c} /\ c.sock = z
                                        /\ c.gen = reqs'[socks[z].pending[i]].gen
          BY <2>1, <3>3
    <3> QED BY <2>1, <3>1, <3>4
  <2>3. CASE z = s
    <3>1. NotTwice(k.pending)
      <4> SUFFICES ASSUME NEW i \in 1 .. Len(k.pending), NEW m \in 1 .. Len(k.pending),
                          k.pending[i] = k.pending[m]
                   PROVE  i = m
          BY DEF NotTwice
      <4>1. j.pending[i + 1] = j.pending[m + 1]
            /\ i + 1 \in 1 .. Len(j.pending) /\ m + 1 \in 1 .. Len(j.pending)
            BY <1>f
      <4>2. i + 1 = m + 1
            BY <1>h, <4>1 DEF NotTwice
      <4> QED BY <4>2
    <3>2. ASSUME NEW i \in 1 .. Len(k.pending)
          PROVE  /\ reqs'[k.pending[i]].st \in {"waiting", "again"}
                 /\ \E c \in Contexts : /\ reqs'[k.pending[i]].origin = {c} /\ c.sock = z
                                        /\ c.gen = reqs'[k.pending[i]].gen
      <4>1. i + 1 \in 1 .. Len(j.pending) /\ k.pending[i] = j.pending[i + 1]
            BY <1>f
      <4>2. j.pending[i + 1] # q
        <5>1. i + 1 # 1 /\ 1 \in 1 .. Len(j.pending)
              BY <1>c, <1>d
        <5> QED BY <1>d, <1>h, <4>1, <5>1 DEF NotTwice
      <4>3. /\ j.pending[i + 1] \in Requests
            /\ reqs[j.pending[i + 1]].st \in {"waiting", "again"}
            /\ \E c \in Contexts : /\ reqs[j.pending[i + 1]].origin = {c} /\ c.sock = z
                                   /\ c.gen = reqs[j.pending[i + 1]].gen
            BY <2>1, <2>3, <4>1 DEF j
      <4>4. reqs'[k.pending[i]] = reqs[j.pending[i + 1]]
            BY <1>i, <4>1, <4>2, <4>3
      <4> QED BY <4>3, <4>4
    <3> QED BY <2>3, <3>1, <3>2 DEF k
  <2> QED BY <2>2, <2>3
<1>3. UnusedInv'
  <2>1. socks[s].st # "none" /\ socks'[s].st # "none"
        BY <1>0 DEF j, k
  <2> QED BY <1>0, <2>1 DEF SocketsInv, UnusedInv
<1>4. MatchInv'
  <2>1. Matches(k)
    <3>1. Len(k.back) <= Len(k.pending)
      <4>1. Len(j.back) <= Len(j.pending)
            BY <1>b DEF Matches
      <4> QED BY <1>c, <1>f, <1>g, <4>1
    <3>2. ASSUME NEW i \in 1 .. Len(k.back) PROVE k.back[i].of = k.pending[i]
      <4>1. i + 1 \in 1 .. Len(j.back) /\ k.back[i] = j.back[i + 1]
            BY <1>g
      <4>2. j.back[i + 1].of = j.pending[i + 1]
            BY <1>b, <4>1 DEF Matches
      <4>3. i \in 1 .. Len(k.pending)
            BY <1>c, <1>f, <1>g, <3>1
      <4> QED BY <1>f, <4>1, <4>2, <4>3
    <3>3. ASSUME ~k.shut
          PROVE  /\ Len(k.pending) = Len(k.back) + Len(k.out)
                 /\ \A i \in 1 .. Len(k.out) : k.out[i] = k.pending[Len(k.back) + i]
      <4>1. /\ Len(j.pending) = Len(j.back) + Len(j.out)
            /\ \A i \in 1 .. Len(j.out) : j.out[i] = j.pending[Len(j.back) + i]
            BY <1>0, <1>b, <3>3 DEF Matches
      <4>2. PICK b \in Nat, o \in Nat : b = Len(j.back) /\ o = Len(j.out) /\ b > 0
            BY <1>c, <1>d
      <4>3. Len(j.pending) = b + o /\ Len(k.pending) = (b + o) - 1 /\ Len(k.back) = b - 1 /\ Len(k.out) = o
            BY <1>0, <1>f, <1>g, <4>1, <4>2
      <4>4. (b + o) - 1 = (b - 1) + o
            OBVIOUS
      <4>5. ASSUME NEW i \in 1 .. Len(k.out) PROVE k.out[i] = k.pending[Len(k.back) + i]
        <5>1. i \in 1 .. o /\ (b - 1) + i \in 1 .. (b + o) - 1 /\ ((b - 1) + i) + 1 = b + i
          <6>1. i \in 1 .. o
                BY <4>3
          <6>2. \A n \in 1 .. o : (b - 1) + n \in 1 .. (b + o) - 1 /\ ((b - 1) + n) + 1 = b + n
                BY <4>2, Shifted
          <6> QED BY <6>1, <6>2
        <5>2. k.pending[(b - 1) + i] = j.pending[b + i]
              BY <1>f, <4>3, <5>1
        <5>3. j.out[i] = j.pending[b + i]
              BY <4>1, <4>2, <5>1
        <5> QED BY <1>0, <4>3, <5>2, <5>3
      <4> QED BY <4>3, <4>4, <4>5
    <3> QED BY <3>1, <3>2, <3>3 DEF Matches
  <2> QED BY <1>0, <2>1 DEF SocketsInv, MatchInv, k
<1>5. RunInv'
  <2> SUFFICES ASSUME NEW r \in Requests
               PROVE  /\ Len(ran'[r]) + Cardinality(Out(r)') <= Limit(r)'
                      /\ reqs'[r].st \in {"again", "rejoining"} => r \in Reads
      BY DEF RunInv
  <2>1. Out(r)' = Out(r)
        BY <1>j DEF Out
  <2>2. /\ Len(ran[r]) + Cardinality(Out(r)) <= Limit(r)
        /\ reqs[r].st \in {"again", "rejoining"} => r \in Reads
        BY DEF SocketsInv, RunInv
  <2>3. Limit(r) <= Limit(r)' /\ Limit(r)' \in Nat
    <3>1. CASE r # q
      <4>1. Limit(r)' = Limit(r)
            BY <1>i, <3>1 DEF Limit
      <4> QED BY <4>1, RunCounts
    <3>2. CASE r = q /\ reqs[r].st = "waiting"
          BY <1>i, <3>2 DEF Limit
    <3>3. CASE r = q /\ reqs[r].st = "again"
      <4>1. r \in Reads
            BY <2>2, <3>3
      <4> QED BY <1>i, <3>3, <4>1 DEF Limit
    <3> QED BY <1>h, <3>1, <3>2, <3>3
  <2>4. Cardinality(Out(r)') = Cardinality(Out(r)) /\ ran'[r] = ran[r]
        BY <1>a, <2>1
  <2>5. reqs'[r].st \in {"again", "rejoining"} => r \in Reads
        BY <1>i, <2>2
  <2> HIDE DEF Limit
  <2>6. Cardinality(Out(r)) \in Nat /\ Len(ran[r]) \in Nat /\ Limit(r) \in Nat
        BY RunCounts
  <2> QED BY <2>2, <2>3, <2>4, <2>5, <2>6
<1>6. V!RunsOnItsHost'
  <2>1. \A r \in Requests : reqs'[r].host = reqs[r].host
        BY <1>i
  <2> QED BY <1>a, <2>1 DEF SocketsInv, V!RunsOnItsHost
<1>7. V!AnswersItsOwn'
  <2>1. \A r \in Requests : reqs'[r].got \subseteq {r}
        BY <1>i DEF SocketsInv, V!AnswersItsOwn
  <2> QED BY <2>1 DEF V!AnswersItsOwn
<1> QED BY <1>1, <1>2, <1>3, <1>4, <1>5, <1>6, <1>7 DEF SocketsInv

(* A request that was not written is on no socket and has not been run. *)
LEMMA Unwritten ==
  ASSUME SessionTypes, SocketsInv, NEW r \in Requests, reqs[r].st \in {"idle", "bound"}
  PROVE  /\ Out(r) = {} /\ Len(ran[r]) = 0
         /\ \A s \in V!Sockets : /\ \A i \in 1 .. Len(socks[s].out) : socks[s].out[i] # r
                               /\ \A i \in 1 .. Len(socks[s].pending) : socks[s].pending[i] # r
<1>1. \A s \in V!Sockets : \A i \in 1 .. Len(socks[s].out) : socks[s].out[i] # r
      BY DEF SocketsInv, OutInv
<1>2. \A s \in V!Sockets : \A i \in 1 .. Len(socks[s].pending) : socks[s].pending[i] # r
  <2>1. \A s \in V!Sockets : \A i \in 1 .. Len(socks[s].pending) :
           reqs[socks[s].pending[i]].st \in {"waiting", "again"}
        BY DEF SocketsInv, PendingInv
  <2> QED BY <2>1
<1>3. Out(r) = {}
      BY <1>1 DEF Out
<1>4. Len(ran[r]) + Cardinality(Out(r)) <= Limit(r) /\ Limit(r) = 0
      BY DEF SocketsInv, RunInv, Limit
<1>5. Len(ran[r]) \in Nat /\ Cardinality(Out(r)) \in Nat
      BY RunCounts
<1> HIDE DEF Limit
<1>6. Len(ran[r]) = 0
      BY <1>4, <1>5
<1> QED BY <1>1, <1>2, <1>3, <1>6

(* A request is bound to a host, or has to wait for a connection, or is refused. *)
LEMMA UnwrittenStep ==
  ASSUME SessionTypes, SessionTypes', SocketsInv, NEW r \in Requests, reqs[r].st \in {"idle", "bound"},
         socks' = socks, ran' = ran, \A o \in Requests : o # r => reqs'[o] = reqs[o],
         reqs'[r].st \in {"bound", "rejoining", "ambiguous"}, reqs'[r].got = reqs[r].got,
         reqs'[r].st = "rejoining" => r \in Reads
  PROVE  SocketsInv'
<1>0. \A s \in V!Sockets : /\ \A i \in 1 .. Len(socks[s].out) : /\ socks[s].out[i] \in Requests
                                                             /\ socks[s].out[i] # r
                        /\ \A i \in 1 .. Len(socks[s].pending) : /\ socks[s].pending[i] \in Requests
                                                                 /\ socks[s].pending[i] # r
      BY Unwritten, SocketDomains
<1>1. OutInv'
  <2> SUFFICES ASSUME NEW s \in V!Sockets
               PROVE  /\ NotTwice(socks[s].out)
                      /\ \A i \in 1 .. Len(socks[s].out) :
                           /\ socks[s].host = reqs'[socks[s].out[i]].host
                           /\ reqs'[socks[s].out[i]].st \notin {"idle", "bound"}
      BY DEF OutInv
  <2>1. /\ NotTwice(socks[s].out)
        /\ \A i \in 1 .. Len(socks[s].out) : /\ socks[s].host = reqs[socks[s].out[i]].host
                                            /\ reqs[socks[s].out[i]].st \notin {"idle", "bound"}
        BY DEF SocketsInv, OutInv
  <2>2. \A i \in 1 .. Len(socks[s].out) : reqs'[socks[s].out[i]] = reqs[socks[s].out[i]]
        BY <1>0
  <2> QED BY <2>1, <2>2
<1>2. PendingInv'
  <2> SUFFICES ASSUME NEW s \in V!Sockets
               PROVE  /\ NotTwice(socks[s].pending)
                      /\ \A i \in 1 .. Len(socks[s].pending) :
                           /\ reqs'[socks[s].pending[i]].st \in {"waiting", "again"}
                           /\ \E c \in Contexts : /\ reqs'[socks[s].pending[i]].origin = {c} /\ c.sock = s
                                                  /\ c.gen = reqs'[socks[s].pending[i]].gen
      BY DEF PendingInv
  <2>1. /\ NotTwice(socks[s].pending)
        /\ \A i \in 1 .. Len(socks[s].pending) :
             /\ reqs[socks[s].pending[i]].st \in {"waiting", "again"}
             /\ \E c \in Contexts : /\ reqs[socks[s].pending[i]].origin = {c} /\ c.sock = s
                                    /\ c.gen = reqs[socks[s].pending[i]].gen
        BY DEF SocketsInv, PendingInv
  <2>2. \A i \in 1 .. Len(socks[s].pending) : reqs'[socks[s].pending[i]] = reqs[socks[s].pending[i]]
        BY <1>0
  <2>3. ASSUME NEW i \in 1 .. Len(socks[s].pending)
        PROVE  /\ reqs'[socks[s].pending[i]].st \in {"waiting", "again"}
               /\ \E c \in Contexts : /\ reqs'[socks[s].pending[i]].origin = {c} /\ c.sock = s
                                      /\ c.gen = reqs'[socks[s].pending[i]].gen
    <3>1. reqs'[socks[s].pending[i]] = reqs[socks[s].pending[i]]
          BY <2>2
    <3> QED BY <2>1, <3>1
  <2> QED BY <2>1, <2>3
<1>3. UnusedInv' /\ MatchInv'
      BY DEF SocketsInv, UnusedInv, MatchInv
<1>4. RunInv'
  <2> SUFFICES ASSUME NEW o \in Requests
               PROVE  /\ Len(ran[o]) + Cardinality(Out(o)') <= Limit(o)'
                      /\ reqs'[o].st \in {"again", "rejoining"} => o \in Reads
      BY DEF RunInv
  <2>1. Cardinality(Out(o)') = Cardinality(Out(o))
    <3>1. Out(o)' = Out(o)
          BY DEF Out
    <3> QED BY <3>1
  <2>2. CASE o # r
    <3>1. reqs'[o] = reqs[o]
          BY <2>2
    <3>2. Limit(o)' = Limit(o)
          BY <3>1 DEF Limit
    <3> QED BY <2>1, <3>1, <3>2 DEF SocketsInv, RunInv
  <2>3. CASE o = r
    <3>1. Len(ran[o]) = 0 /\ Cardinality(Out(o)) = 0
          BY <2>3, Unwritten, FS_EmptySet
    <3>2. Limit(o)' \in Nat
          BY <2>3 DEF Limit
    <3>3. reqs'[o].st \in {"again", "rejoining"} => o \in Reads
          BY <2>3
    <3> HIDE DEF Limit
    <3>4. Len(ran[o]) + Cardinality(Out(o)') <= Limit(o)'
          BY <2>1, <3>1, <3>2
    <3> QED BY <3>3, <3>4
  <2> QED BY <2>2, <2>3
<1>5. V!RunsOnItsHost'
  <2> SUFFICES ASSUME NEW o \in Requests, NEW i \in DOMAIN ran[o] PROVE ran[o][i] = reqs'[o].host
      BY DEF V!RunsOnItsHost
  <2>1. ran[o] \in Seq(Hosts \cup {V!NoHost})
        BY RunCounts
  <2>2. o # r
    <3>1. Len(ran[r]) = 0
          BY Unwritten
    <3> QED BY <2>1, <3>1
  <2> QED BY <2>2 DEF SocketsInv, V!RunsOnItsHost
<1>6. V!AnswersItsOwn'
  <2>1. \A o \in Requests : reqs'[o].got = reqs[o].got
        OBVIOUS
  <2> QED BY <2>1 DEF SocketsInv, V!AnswersItsOwn
<1> QED BY <1>1, <1>2, <1>3, <1>4, <1>5, <1>6 DEF SocketsInv

(* One more element at the end of a sequence. *)
LEMMA Appended ==
  ASSUME NEW q \in Seq(Requests), NEW x \in Requests
  PROVE  /\ Len(q) \in Nat /\ Len(Append(q, x)) = Len(q) + 1 /\ Append(q, x)[Len(q) + 1] = x
         /\ \A i \in 1 .. Len(q) : Append(q, x)[i] = q[i]
         /\ \A i \in 1 .. Len(q) + 1 : i \in 1 .. Len(q) \/ i = Len(q) + 1
         /\ (NotTwice(q) /\ \A i \in 1 .. Len(q) : q[i] # x) => NotTwice(Append(q, x))
<1> DEFINE p == Append(q, x)
<1>1. p \in Seq(Requests) /\ Len(q) \in Nat /\ Len(p) = Len(q) + 1 /\ p[Len(q) + 1] = x
      OBVIOUS
<1>2. \A i \in 1 .. Len(q) : p[i] = q[i]
      OBVIOUS
<1>3. \A i \in 1 .. Len(q) + 1 : i \in 1 .. Len(q) \/ i = Len(q) + 1
      BY <1>1
<1> HIDE DEF p
<1>4. ASSUME NotTwice(q), \A i \in 1 .. Len(q) : q[i] # x
      PROVE  NotTwice(p)
  <2> SUFFICES ASSUME NEW i \in 1 .. Len(p), NEW j \in 1 .. Len(p), p[i] = p[j] PROVE i = j
      BY DEF NotTwice
  <2>1. CASE i \in 1 .. Len(q) /\ j \in 1 .. Len(q)
        BY <1>2, <1>4, <2>1 DEF NotTwice
  <2>2. CASE i = Len(q) + 1 /\ j \in 1 .. Len(q)
        BY <1>1, <1>2, <1>4, <2>2
  <2>3. CASE i \in 1 .. Len(q) /\ j = Len(q) + 1
        BY <1>1, <1>2, <1>4, <2>3
  <2> QED BY <1>1, <1>3, <2>1, <2>2, <2>3
<1> QED BY <1>1, <1>2, <1>3, <1>4 DEF p

(* A request is written to a socket of its host. *)
WrittenTo(s, r) ==
  /\ reqs[r].st \in {"idle", "bound"} /\ socks[s].host = reqs[r].host /\ socks[s].st # "none"
  /\ \A o \in Requests : o # r => reqs'[o] = reqs[o]
  /\ reqs'[r].st = "waiting" /\ reqs'[r].host = reqs[r].host /\ reqs'[r].gen = reqs[r].gen
  /\ reqs'[r].got = reqs[r].got
  /\ \E c \in Contexts : reqs'[r].origin = {c} /\ c.sock = s /\ c.gen = reqs[r].gen
  /\ \A z \in V!Sockets : z # s => socks'[z] = socks[z]
  /\ socks'[s].st = socks[s].st /\ socks'[s].host = socks[s].host
  /\ socks'[s].back = socks[s].back /\ socks'[s].shut = socks[s].shut
  /\ socks'[s].pending = Append(socks[s].pending, r) /\ socks'[s].out = Append(socks[s].out, r)

(* A request that is written keeps what holds of the sockets. *)
LEMMA WriteStep ==
  ASSUME SessionTypes, SessionTypes', SocketsInv, NEW r \in Requests, NEW s \in V!Sockets,
         WrittenTo(s, r), ran' = ran
  PROVE  SocketsInv'
<1>a. /\ reqs[r].st \in {"idle", "bound"} /\ socks[s].host = reqs[r].host /\ socks[s].st # "none"
      BY DEF WrittenTo
<1>b. PICK c \in Contexts : reqs'[r].origin = {c} /\ c.sock = s /\ c.gen = reqs[r].gen
      BY DEF WrittenTo
<1>0. /\ \A z \in V!Sockets : z # s => socks'[z] = socks[z]
      /\ socks'[s].st = socks[s].st /\ socks'[s].host = socks[s].host
      /\ socks'[s].back = socks[s].back /\ socks'[s].shut = socks[s].shut
      /\ socks'[s].pending = Append(socks[s].pending, r) /\ socks'[s].out = Append(socks[s].out, r)
      BY DEF WrittenTo
<1>1. /\ socks[s].pending \in Seq(Requests) /\ socks[s].out \in Seq(Requests)
      /\ socks[s].back \in Seq(Answers)
      BY SocketDomains
<1>2. /\ Out(r) = {} /\ Len(ran[r]) = 0
      /\ \A z \in V!Sockets : /\ \A i \in 1 .. Len(socks[z].out) : socks[z].out[i] # r
                            /\ \A i \in 1 .. Len(socks[z].pending) : socks[z].pending[i] # r
      BY <1>a, Unwritten
<1>3. /\ \A o \in Requests : /\ o # r => reqs'[o] = reqs[o]
                             /\ reqs'[o].host = reqs[o].host /\ reqs'[o].gen = reqs[o].gen
                             /\ reqs'[o].got = reqs[o].got
      /\ reqs'[r].st = "waiting" /\ reqs'[r].origin = {c}
      BY <1>b DEF WrittenTo
<1>4. \A z \in V!Sockets : socks'[z].host = socks[z].host
      BY <1>0
<1>5. /\ NotTwice(socks[s].out) /\ NotTwice(socks[s].pending)
      BY DEF SocketsInv, OutInv, PendingInv
<1>6. /\ Len(socks[s].out) \in Nat /\ Len(socks'[s].out) = Len(socks[s].out) + 1
      /\ socks'[s].out[Len(socks[s].out) + 1] = r
      /\ \A i \in 1 .. Len(socks[s].out) : socks'[s].out[i] = socks[s].out[i]
      /\ \A i \in 1 .. Len(socks'[s].out) : i \in 1 .. Len(socks[s].out) \/ i = Len(socks[s].out) + 1
      /\ NotTwice(socks'[s].out)
  <2> DEFINE q == socks[s].out
             p == socks'[s].out
  <2>1. /\ q \in Seq(Requests) /\ p = Append(q, r) /\ NotTwice(q)
        /\ \A i \in 1 .. Len(q) : q[i] # r
        BY <1>0, <1>1, <1>2, <1>5
  <2> HIDE DEF p, q
  <2>2. /\ Len(q) \in Nat /\ Len(p) = Len(q) + 1 /\ p[Len(q) + 1] = r
        /\ \A i \in 1 .. Len(q) : p[i] = q[i]
        /\ \A i \in 1 .. Len(p) : i \in 1 .. Len(q) \/ i = Len(q) + 1
        /\ NotTwice(p)
    <3>1. q \in Seq(Requests) /\ NotTwice(q) /\ \A i \in 1 .. Len(q) : q[i] # r
          BY <2>1
    <3>2. /\ Len(q) \in Nat /\ Len(Append(q, r)) = Len(q) + 1 /\ Append(q, r)[Len(q) + 1] = r
          /\ \A i \in 1 .. Len(q) : Append(q, r)[i] = q[i]
          /\ \A i \in 1 .. Len(q) + 1 : i \in 1 .. Len(q) \/ i = Len(q) + 1
          /\ NotTwice(Append(q, r))
          BY <3>1, Appended
    <3> QED BY <2>1, <3>2
  <2> QED BY <2>2 DEF p, q
<1>7. /\ Len(socks[s].pending) \in Nat /\ Len(socks'[s].pending) = Len(socks[s].pending) + 1
      /\ socks'[s].pending[Len(socks[s].pending) + 1] = r
      /\ \A i \in 1 .. Len(socks[s].pending) : socks'[s].pending[i] = socks[s].pending[i]
      /\ \A i \in 1 .. Len(socks'[s].pending) :
            i \in 1 .. Len(socks[s].pending) \/ i = Len(socks[s].pending) + 1
      /\ NotTwice(socks'[s].pending)
  <2> DEFINE q == socks[s].pending
             p == socks'[s].pending
  <2>1. /\ q \in Seq(Requests) /\ p = Append(q, r) /\ NotTwice(q)
        /\ \A i \in 1 .. Len(q) : q[i] # r
        BY <1>0, <1>1, <1>2, <1>5
  <2> HIDE DEF p, q
  <2>2. /\ Len(q) \in Nat /\ Len(p) = Len(q) + 1 /\ p[Len(q) + 1] = r
        /\ \A i \in 1 .. Len(q) : p[i] = q[i]
        /\ \A i \in 1 .. Len(p) : i \in 1 .. Len(q) \/ i = Len(q) + 1
        /\ NotTwice(p)
    <3>1. q \in Seq(Requests) /\ NotTwice(q) /\ \A i \in 1 .. Len(q) : q[i] # r
          BY <2>1
    <3>2. /\ Len(q) \in Nat /\ Len(Append(q, r)) = Len(q) + 1 /\ Append(q, r)[Len(q) + 1] = r
          /\ \A i \in 1 .. Len(q) : Append(q, r)[i] = q[i]
          /\ \A i \in 1 .. Len(q) + 1 : i \in 1 .. Len(q) \/ i = Len(q) + 1
          /\ NotTwice(Append(q, r))
          BY <3>1, Appended
    <3> QED BY <2>1, <3>2
  <2> QED BY <2>2 DEF p, q
<1>8. OutInv'
  <2> SUFFICES ASSUME NEW z \in V!Sockets
               PROVE  /\ NotTwice(socks'[z].out)
                      /\ \A i \in 1 .. Len(socks'[z].out) :
                           /\ socks'[z].host = reqs'[socks'[z].out[i]].host
                           /\ reqs'[socks'[z].out[i]].st \notin {"idle", "bound"}
      BY DEF OutInv
  <2>1. /\ NotTwice(socks[z].out)
        /\ \A i \in 1 .. Len(socks[z].out) : /\ socks[z].host = reqs[socks[z].out[i]].host
                                            /\ reqs[socks[z].out[i]].st \notin {"idle", "bound"}
        BY DEF SocketsInv, OutInv
  <2>2. \A i \in 1 .. Len(socks[z].out) : /\ socks[z].out[i] \in Requests
                                         /\ reqs'[socks[z].out[i]] = reqs[socks[z].out[i]]
        BY <1>2, <1>3, SocketDomains
  <2>3. NotTwice(socks'[z].out)
        BY <1>0, <1>6, <2>1
  <2>4. ASSUME NEW i \in 1 .. Len(socks'[z].out)
        PROVE  /\ socks'[z].host = reqs'[socks'[z].out[i]].host
               /\ reqs'[socks'[z].out[i]].st \notin {"idle", "bound"}
    <3>1. CASE z # s
      <4>1. socks'[z] = socks[z]
            BY <1>0, <3>1
      <4>2. i \in 1 .. Len(socks[z].out)
            BY <4>1
      <4>3. reqs'[socks[z].out[i]] = reqs[socks[z].out[i]]
            BY <2>2, <4>2
      <4> QED BY <2>1, <4>1, <4>2, <4>3
    <3>2. CASE z = s /\ i \in 1 .. Len(socks[s].out)
      <4>1. socks'[z].out[i] = socks[z].out[i]
            BY <1>6, <3>2
      <4>2. reqs'[socks'[z].out[i]] = reqs[socks[z].out[i]]
            BY <2>2, <3>2, <4>1
      <4>3. /\ socks[z].host = reqs[socks[z].out[i]].host
            /\ reqs[socks[z].out[i]].st \notin {"idle", "bound"}
            BY <2>1, <3>2
      <4>4. socks'[z].host = socks[z].host
            BY <1>4
      <4> QED BY <4>2, <4>3, <4>4
    <3>3. CASE z = s /\ i = Len(socks[s].out) + 1
      <4>1. socks'[z].out[i] = r
            BY <1>6, <3>3
      <4> QED BY <1>a, <1>3, <1>4, <3>3, <4>1
    <3> QED BY <1>6, <3>1, <3>2, <3>3
  <2> QED BY <2>3, <2>4
<1>9. PendingInv'
  <2> SUFFICES ASSUME NEW z \in V!Sockets
               PROVE  /\ NotTwice(socks'[z].pending)
                      /\ \A i \in 1 .. Len(socks'[z].pending) :
                           /\ reqs'[socks'[z].pending[i]].st \in {"waiting", "again"}
                           /\ \E d \in Contexts : /\ reqs'[socks'[z].pending[i]].origin = {d} /\ d.sock = z
                                                  /\ d.gen = reqs'[socks'[z].pending[i]].gen
      BY DEF PendingInv
  <2>1. /\ NotTwice(socks[z].pending)
        /\ \A i \in 1 .. Len(socks[z].pending) :
             /\ reqs[socks[z].pending[i]].st \in {"waiting", "again"}
             /\ \E d \in Contexts : /\ reqs[socks[z].pending[i]].origin = {d} /\ d.sock = z
                                    /\ d.gen = reqs[socks[z].pending[i]].gen
        BY DEF SocketsInv, PendingInv
  <2>2. \A i \in 1 .. Len(socks[z].pending) : /\ socks[z].pending[i] \in Requests
                                             /\ reqs'[socks[z].pending[i]] = reqs[socks[z].pending[i]]
        BY <1>2, <1>3, SocketDomains
  <2>3. NotTwice(socks'[z].pending)
        BY <1>0, <1>7, <2>1
  <2>4. ASSUME NEW i \in 1 .. Len(socks'[z].pending)
        PROVE  /\ reqs'[socks'[z].pending[i]].st \in {"waiting", "again"}
               /\ \E d \in Contexts : /\ reqs'[socks'[z].pending[i]].origin = {d} /\ d.sock = z
                                      /\ d.gen = reqs'[socks'[z].pending[i]].gen
    <3>1. CASE z # s
      <4>1. socks'[z] = socks[z]
            BY <1>0, <3>1
      <4>2. i \in 1 .. Len(socks[z].pending)
            BY <4>1
      <4>3. reqs'[socks'[z].pending[i]] = reqs[socks[z].pending[i]]
            BY <2>2, <4>1, <4>2
      <4>4. /\ reqs[socks[z].pending[i]].st \in {"waiting", "again"}
            /\ \E d \in Contexts : /\ reqs[socks[z].pending[i]].origin = {d} /\ d.sock = z
                                   /\ d.gen = reqs[socks[z].pending[i]].gen
            BY <2>1, <4>2
      <4> QED BY <4>3, <4>4
    <3>2. CASE z = s /\ i \in 1 .. Len(socks[s].pending)
      <4>1. socks'[z].pending[i] = socks[z].pending[i]
            BY <1>7, <3>2
      <4>3. reqs'[socks'[z].pending[i]] = reqs[socks[z].pending[i]]
            BY <2>2, <3>2, <4>1
      <4>4. /\ reqs[socks[z].pending[i]].st \in {"waiting", "again"}
            /\ \E d \in Contexts : /\ reqs[socks[z].pending[i]].origin = {d} /\ d.sock = z
                                   /\ d.gen = reqs[socks[z].pending[i]].gen
            BY <2>1, <3>2
      <4> QED BY <4>3, <4>4
    <3>3. CASE z = s /\ i = Len(socks[s].pending) + 1
      <4>1. socks'[z].pending[i] = r
            BY <1>7, <3>3
      <4>2. /\ reqs'[r].st = "waiting" /\ reqs'[r].origin = {c} /\ c.sock = z /\ c.gen = reqs'[r].gen
            BY <1>b, <1>3, <3>3
      <4> QED BY <4>1, <4>2
    <3> QED BY <1>7, <3>1, <3>2, <3>3
  <2> QED BY <2>3, <2>4
<1>10. UnusedInv'
  <2>1. socks'[s].st # "none"
        BY <1>0, <1>a
  <2> QED BY <1>0, <2>1 DEF SocketsInv, UnusedInv
<1>11. MatchInv'
  <2> SUFFICES ASSUME NEW z \in V!Sockets, socks'[z].st = "open" PROVE Matches(socks'[z])
      BY DEF MatchInv
  <2>1. CASE z # s
    <3>1. socks'[z] = socks[z]
          BY <1>0, <2>1
    <3> QED BY <3>1 DEF SocketsInv, MatchInv
  <2>2. CASE z = s
    <3> DEFINE j == socks[s]
               k == socks'[s]
    <3>1. Matches(j)
          BY <1>0, <2>2 DEF SocketsInv, MatchInv
    <3>2. PICK b \in Nat, o \in Nat, p \in Nat : b = Len(j.back) /\ o = Len(j.out) /\ p = Len(j.pending)
          BY SocketDomains
    <3>3. k.back = j.back /\ k.shut = j.shut /\ Len(k.pending) = p + 1 /\ Len(k.out) = o + 1
          BY <1>0, <1>6, <1>7, <3>2
    <3>4. b <= p /\ \A i \in 1 .. b : j.back[i].of = j.pending[i]
          BY <3>1, <3>2 DEF Matches
    <3>5. \A i \in 1 .. b : k.back[i].of = k.pending[i]
      <4> SUFFICES ASSUME NEW i \in 1 .. b PROVE k.back[i].of = k.pending[i]
          OBVIOUS
      <4>1. i \in 1 .. p
            BY <3>4
      <4>2. k.pending[i] = j.pending[i]
            BY <1>7, <3>2, <4>1
      <4> QED BY <3>3, <3>4, <4>2
    <3>6. ASSUME ~k.shut
          PROVE  /\ p + 1 = b + (o + 1)
                 /\ \A i \in 1 .. o + 1 : k.out[i] = k.pending[b + i]
      <4>1. p = b + o /\ \A i \in 1 .. o : j.out[i] = j.pending[b + i]
            BY <3>1, <3>2, <3>3, <3>6 DEF Matches
      <4>2. ASSUME NEW i \in 1 .. o + 1 PROVE k.out[i] = k.pending[b + i]
        <5>1. CASE i \in 1 .. o
          <6>1. b + i \in 1 .. p
                BY <4>1, <5>1
          <6>2. k.pending[b + i] = j.pending[b + i] /\ k.out[i] = j.out[i]
                BY <1>6, <1>7, <3>2, <5>1, <6>1
          <6> QED BY <4>1, <5>1, <6>2
        <5>2. CASE i = o + 1
          <6>1. b + i = p + 1
                BY <4>1, <5>2
          <6> QED BY <1>6, <1>7, <3>2, <5>2, <6>1
        <5>3. i \in 1 .. o \/ i = o + 1
              OBVIOUS
        <5> QED BY <5>1, <5>2, <5>3
      <4>3. p + 1 = b + (o + 1)
            BY <4>1
      <4> QED BY <4>2, <4>3
    <3>7. Len(k.back) = b /\ b <= p + 1
          BY <3>2, <3>3, <3>4
    <3> HIDE DEF j, k
    <3>8. Matches(k)
          BY <3>3, <3>5, <3>6, <3>7 DEF Matches
    <3> QED BY <2>2, <3>8 DEF k
  <2> QED BY <2>1, <2>2
<1>12. RunInv'
  <2> SUFFICES ASSUME NEW o \in Requests
               PROVE  /\ Len(ran'[o]) + Cardinality(Out(o)') <= Limit(o)'
                      /\ reqs'[o].st \in {"again", "rejoining"} => o \in Reads
      BY DEF RunInv
  <2>1. CASE o # r
    <3>1. Out(o)' = Out(o)
      <4>1. \A z \in V!Sockets : (\E i \in 1 .. Len(socks'[z].out) : socks'[z].out[i] = o)
                               <=> \E i \in 1 .. Len(socks[z].out) : socks[z].out[i] = o
        <5> SUFFICES ASSUME NEW z \in V!Sockets
                     PROVE  (\E i \in 1 .. Len(socks'[z].out) : socks'[z].out[i] = o)
                               <=> \E i \in 1 .. Len(socks[z].out) : socks[z].out[i] = o
            OBVIOUS
        <5>1. CASE z # s
              BY <1>0, <5>1
        <5>2. CASE z = s
          <6>1. ASSUME NEW i \in 1 .. Len(socks'[s].out), socks'[s].out[i] = o
                PROVE  \E m \in 1 .. Len(socks[s].out) : socks[s].out[m] = o
            <7>1. i \in 1 .. Len(socks[s].out)
                  BY <1>6, <2>1, <6>1
            <7> QED BY <1>6, <6>1, <7>1
          <6>2. ASSUME NEW i \in 1 .. Len(socks[s].out), socks[s].out[i] = o
                PROVE  \E m \in 1 .. Len(socks'[s].out) : socks'[s].out[m] = o
            <7>1. i \in 1 .. Len(socks'[s].out)
                  BY <1>6
            <7> QED BY <1>6, <6>2, <7>1
          <6> QED BY <5>2, <6>1, <6>2
        <5> QED BY <5>1, <5>2
      <4> QED BY <4>1 DEF Out
    <3>2. reqs'[o] = reqs[o]
          BY <1>3, <2>1
    <3>3. Limit(o)' = Limit(o)
          BY <3>2 DEF Limit
    <3>4. Cardinality(Out(o)') = Cardinality(Out(o))
          BY <3>1
    <3> QED BY <3>2, <3>3, <3>4 DEF SocketsInv, RunInv
  <2>2. CASE o = r
    <3>1. Out(r)' = {s}
      <4>1. ASSUME NEW z \in V!Sockets, z # s PROVE ~\E i \in 1 .. Len(socks'[z].out) : socks'[z].out[i] = r
        <5>1. socks'[z] = socks[z]
              BY <1>0, <4>1
        <5> QED BY <1>2, <5>1
      <4>2. Len(socks[s].out) + 1 \in 1 .. Len(socks'[s].out)
            BY <1>6
      <4>3. \E i \in 1 .. Len(socks'[s].out) : socks'[s].out[i] = r
            BY <1>6, <4>2
      <4> QED BY <4>1, <4>3 DEF Out
    <3>2. Cardinality(Out(r)') = 1
      <4>1. Cardinality({s}) = 1
            BY FS_Singleton
      <4> QED BY <3>1, <4>1
    <3>3. Limit(r)' = 1 /\ reqs'[r].st \notin {"again", "rejoining"}
          BY <1>3 DEF Limit
    <3>4. Len(ran'[r]) = 0
          BY <1>2
    <3> HIDE DEF Limit
    <3> QED BY <2>2, <3>2, <3>3, <3>4
  <2> QED BY <2>1, <2>2
<1>13. V!RunsOnItsHost'
  <2>1. \A o \in Requests : reqs'[o].host = reqs[o].host
        BY <1>3
  <2> QED BY <2>1 DEF SocketsInv, V!RunsOnItsHost
<1>14. V!AnswersItsOwn'
  <2>1. \A o \in Requests : reqs'[o].got = reqs[o].got
        BY <1>3
  <2> QED BY <2>1 DEF SocketsInv, V!AnswersItsOwn
<1> QED BY <1>8, <1>9, <1>10, <1>11, <1>12, <1>13, <1>14 DEF SocketsInv

(* What is bound to one selection is bound to one host. *)
LEMMA SameSelection ==
  ASSUME BoundInv
  PROVE  /\ \A c \in context : \A r \in Requests :
              reqs[r].st # "idle" /\ reqs[r].gen = c.gen => reqs[r].host = c.host
         /\ \A t \in tries : \A r \in Requests :
              reqs[r].st # "idle" /\ reqs[r].gen = t.gen => reqs[r].host = t.host
         /\ \A t \in tries : \A c \in context : t.gen = c.gen => t.host = c.host
         /\ \A c \in context : c.gen <= gen
         /\ \A t \in tries : t.gen <= gen
         /\ \A r \in Requests : reqs[r].st # "idle" => reqs[r].gen <= gen
<1>1. /\ \A c \in context : [gen |-> c.gen, host |-> c.host] \in Bound
      /\ \A t \in tries : [gen |-> t.gen, host |-> t.host] \in Bound
      /\ \A r \in Requests : reqs[r].st # "idle" => [gen |-> reqs[r].gen, host |-> reqs[r].host] \in Bound
      BY DEF Bound
<1>2. \A g, h, i, j : [gen |-> g, host |-> h] \in Bound /\ [gen |-> i, host |-> j] \in Bound
                      => g <= gen /\ (g = i => h = j)
  <2> SUFFICES ASSUME NEW g, NEW h, NEW i, NEW j,
                      [gen |-> g, host |-> h] \in Bound, [gen |-> i, host |-> j] \in Bound
               PROVE  g <= gen /\ (g = i => h = j)
      OBVIOUS
  <2> DEFINE b == [gen |-> g, host |-> h]
             d == [gen |-> i, host |-> j]
  <2>1. b \in Bound /\ d \in Bound /\ b.gen = g /\ b.host = h /\ d.gen = i /\ d.host = j
        OBVIOUS
  <2> HIDE DEF b, d
  <2>2. b.gen <= gen /\ (b.gen = d.gen => b.host = d.host)
        BY <2>1 DEF BoundInv
  <2> QED BY <2>1, <2>2
<1> QED BY <1>1, <1>2

(* Binding a request to a selection, and asking. *)
LEMMA AskStep ==
  ASSUME SessionTypes, SessionTypes', SocketsInv, ClientInv, BoundInv, NEW r \in Requests,
         V!Bind(r) \/ V!Ask(r)
  PROVE  SocketsInv'
<1>1. PICK k \in RequestStates : k = reqs[r]
      BY DEF SessionTypes
<1>2. CASE V!Bind(r)
  <2>1. PICK c \in context : reqs' = [reqs EXCEPT ![r].st = "bound", ![r].host = c.host, ![r].gen = c.gen]
        BY Zenon, <1>2 DEF V!Bind
  <2> DEFINE n == [k EXCEPT !.st = "bound", !.host = c.host, !.gen = c.gen]
  <2>2. reqs' = [reqs EXCEPT ![r] = n] /\ reqs \in [Requests -> RequestStates]
        BY <1>1, <2>1 DEF SessionTypes
  <2>3. n.st = "bound" /\ n.got = k.got
        BY DEF RequestStates
  <2>4. reqs[r].st = "idle" /\ socks' = socks /\ ran' = ran
        BY Zenon, <1>2 DEF V!Bind
  <2> HIDE DEF n
  <2>5. reqs'[r].st = "bound" /\ reqs'[r].got = reqs[r].got /\ \A o \in Requests : o # r => reqs'[o] = reqs[o]
        BY <1>1, <2>2, <2>3
  <2> QED BY <2>4, <2>5, UnwrittenStep
<1>3. CASE V!Ask(r)
  <2>1. PICK c \in context :
          /\ V!MayAsk(r, c)
          /\ \/ /\ socks[c.sock].st = "open"
                /\ reqs' = [reqs EXCEPT ![r].st = "waiting", ![r].origin = {c}]
                /\ socks' = [socks EXCEPT ![c.sock].pending = Append(@, r), ![c.sock].out = Append(@, r),
                                          ![c.sock].armed = TRUE]
             \/ /\ socks' = socks
                /\ \/ r \in Reads /\ reqs' = [reqs EXCEPT ![r].st = "rejoining", ![r].origin = {c}]
                   \/ reqs' = [reqs EXCEPT ![r].st = "ambiguous", ![r].origin = {c}]
        BY Zenon, <1>3 DEF V!Ask
  <2>2. c \in Contexts /\ c.sock \in V!Sockets
        BY DEF SessionTypes, Contexts
  <2>3. reqs[r].st = "bound" /\ ran' = ran
        BY Zenon, <1>3 DEF V!Ask
  <2>4. reqs[r].gen = c.gen
        BY <2>1 DEF V!MayAsk
  <2>5. reqs[r].host = c.host /\ socks[c.sock].host = c.host /\ socks[c.sock].st # "none"
    <3>1. reqs[r].host = c.host
          BY <2>3, <2>4, SameSelection
    <3> QED BY <3>1 DEF ClientInv
  <2>6. CASE /\ reqs' = [reqs EXCEPT ![r].st = "waiting", ![r].origin = {c}]
             /\ socks' = [socks EXCEPT ![c.sock].pending = Append(@, r), ![c.sock].out = Append(@, r),
                                       ![c.sock].armed = TRUE]
    <3>1. PICK s \in V!Sockets : s = c.sock
          BY <2>2
    <3>2. socks' = [socks EXCEPT ![s].pending = Append(@, r), ![s].out = Append(@, r), ![s].armed = TRUE]
          BY <2>6, <3>1
    <3>3. /\ \A z \in V!Sockets : z # s => socks'[z] = socks[z]
          /\ socks'[s].st = socks[s].st /\ socks'[s].host = socks[s].host
          /\ socks'[s].back = socks[s].back /\ socks'[s].shut = socks[s].shut
          /\ socks'[s].pending = Append(socks[s].pending, r) /\ socks'[s].out = Append(socks[s].out, r)
          BY Zenon, <3>2, AskSocks
    <3> DEFINE n == [k EXCEPT !.st = "waiting", !.origin = {c}]
    <3>5. reqs' = [reqs EXCEPT ![r] = n] /\ reqs \in [Requests -> RequestStates]
          BY <1>1, <2>6 DEF SessionTypes
    <3>6. n.st = "waiting" /\ n.origin = {c} /\ n.host = k.host /\ n.gen = k.gen /\ n.got = k.got
          BY DEF RequestStates
    <3> HIDE DEF n
    <3>7. /\ \A o \in Requests : o # r => reqs'[o] = reqs[o]
          /\ reqs'[r].st = "waiting" /\ reqs'[r].origin = {c} /\ reqs'[r].host = reqs[r].host
          /\ reqs'[r].gen = reqs[r].gen /\ reqs'[r].got = reqs[r].got
          BY <1>1, <3>5, <3>6
    <3>8. WrittenTo(s, r)
          BY <2>2, <2>3, <2>4, <2>5, <3>1, <3>3, <3>7 DEF WrittenTo
    <3> QED BY <2>3, <3>8, WriteStep
  <2>7. CASE socks' = socks
    <3>1. PICK x \in {"rejoining", "ambiguous"} :
             reqs' = [reqs EXCEPT ![r].st = x, ![r].origin = {c}] /\ (x = "rejoining" => r \in Reads)
      <4>1. CASE r \in Reads /\ reqs' = [reqs EXCEPT ![r].st = "rejoining", ![r].origin = {c}]
            BY <4>1
      <4>2. CASE reqs' = [reqs EXCEPT ![r].st = "ambiguous", ![r].origin = {c}]
            BY <4>2
      <4>3. CASE socks[c.sock].st = "open"
                /\ socks' = [socks EXCEPT ![c.sock].pending = Append(@, r), ![c.sock].out = Append(@, r),
                                          ![c.sock].armed = TRUE]
        <5>1. PICK s \in V!Sockets : s = c.sock
              BY <2>2
        <5>2. socks' = [socks EXCEPT ![s].pending = Append(@, r), ![s].out = Append(@, r), ![s].armed = TRUE]
              BY <4>3, <5>1
        <5>3. socks'[s].pending = Append(socks[s].pending, r)
              BY Zenon, <5>2, AskSocks
        <5>4. Append(socks[s].pending, r) # socks[s].pending
          <6>1. PICK q \in Seq(Requests) : q = socks[s].pending
                BY SocketDomains
          <6>2. Len(Append(q, r)) # Len(q)
                OBVIOUS
          <6> QED BY <6>1, <6>2
        <5> QED BY <2>7, <5>3, <5>4
      <4> QED BY <2>1, <4>1, <4>2, <4>3
    <3> DEFINE n == [k EXCEPT !.st = x, !.origin = {c}]
    <3>2. reqs' = [reqs EXCEPT ![r] = n] /\ reqs \in [Requests -> RequestStates]
          BY <1>1, <3>1 DEF SessionTypes
    <3>3. n.st = x /\ n.got = k.got
          BY DEF RequestStates
    <3> HIDE DEF n
    <3>4. reqs'[r].st = x /\ reqs'[r].got = reqs[r].got /\ \A o \in Requests : o # r => reqs'[o] = reqs[o]
          BY <1>1, <3>2, <3>3
    <3> QED BY <2>3, <2>7, <3>1, <3>4, UnwrittenStep
  <2> QED BY <2>1, <2>6, <2>7
<1> QED BY <1>2, <1>3

(* The requests that waited for a connection are written to its socket, or fail. *)
Rejoined(s, q) ==
  /\ q \in Seq(Requests) /\ NotTwice(q) /\ socks[s].st # "none" /\ Untouched(socks[s])
  /\ \E c \in Contexts : c.sock = s /\ \A i \in 1 .. Len(q) :
       /\ reqs[q[i]].st = "rejoining" /\ reqs[q[i]].host = socks[s].host
       /\ reqs'[q[i]].st = "again" /\ reqs'[q[i]].origin = {c} /\ reqs[q[i]].gen = c.gen
  /\ \A r \in Requests :
       /\ reqs'[r].host = reqs[r].host /\ reqs'[r].gen = reqs[r].gen /\ reqs'[r].got = reqs[r].got
       /\ \/ reqs'[r] = reqs[r] /\ \A i \in 1 .. Len(q) : q[i] # r
          \/ reqs[r].st = "rejoining" /\ reqs'[r].st = "failed" /\ \A i \in 1 .. Len(q) : q[i] # r
          \/ reqs[r].st = "rejoining" /\ reqs'[r].st = "again"
  /\ socks'[s].st = socks[s].st /\ socks'[s].host = socks[s].host
  /\ socks'[s].back = socks[s].back /\ socks'[s].shut = socks[s].shut
  /\ socks'[s].pending = q /\ socks'[s].out = q
  /\ \A z \in V!Sockets : z # s =>
       /\ socks'[z].pending = socks[z].pending /\ socks'[z].out = socks[z].out
       /\ socks'[z].back = socks[z].back /\ socks'[z].shut = socks[z].shut
       /\ socks'[z].host = socks[z].host
       /\ socks[z].st # "none" => socks'[z].st # "none"
       /\ socks'[z].st = "open" => socks[z].st = "open"
       /\ socks'[z].st = "none" => socks'[z] = socks[z]

(* A new connection keeps what holds of the sockets. *)
LEMMA RejoinStep ==
  ASSUME SessionTypes, SessionTypes', SocketsInv, NEW s \in V!Sockets, NEW q, Rejoined(s, q), ran' = ran
  PROVE  SocketsInv'
<1>1. /\ q \in Seq(Requests) /\ NotTwice(q) /\ socks[s].st # "none" /\ Untouched(socks[s])
      /\ Len(q) \in Nat /\ \A i \in 1 .. Len(q) : q[i] \in Requests
  <2>1. /\ q \in Seq(Requests) /\ NotTwice(q) /\ socks[s].st # "none" /\ Untouched(socks[s])
        BY DEF Rejoined
  <2> QED BY <2>1
<1>2. PICK c \in Contexts : c.sock = s /\ \A i \in 1 .. Len(q) :
       /\ reqs[q[i]].st = "rejoining" /\ reqs[q[i]].host = socks[s].host
       /\ reqs'[q[i]].st = "again" /\ reqs'[q[i]].origin = {c} /\ reqs[q[i]].gen = c.gen
      BY DEF Rejoined
<1>3. \A r \in Requests :
       /\ reqs'[r].host = reqs[r].host /\ reqs'[r].gen = reqs[r].gen /\ reqs'[r].got = reqs[r].got
       /\ \/ reqs'[r] = reqs[r] /\ \A i \in 1 .. Len(q) : q[i] # r
          \/ reqs[r].st = "rejoining" /\ reqs'[r].st = "failed" /\ \A i \in 1 .. Len(q) : q[i] # r
          \/ reqs[r].st = "rejoining" /\ reqs'[r].st = "again"
      BY DEF Rejoined
<1>4. /\ socks'[s].st = socks[s].st /\ socks'[s].host = socks[s].host
      /\ socks'[s].back = socks[s].back /\ socks'[s].shut = socks[s].shut
      /\ socks'[s].pending = q /\ socks'[s].out = q
      BY DEF Rejoined
<1>5. \A z \in V!Sockets : z # s =>
       /\ socks'[z].pending = socks[z].pending /\ socks'[z].out = socks[z].out
       /\ socks'[z].back = socks[z].back /\ socks'[z].shut = socks[z].shut
       /\ socks'[z].host = socks[z].host
       /\ socks[z].st # "none" => socks'[z].st # "none"
       /\ socks'[z].st = "open" => socks[z].st = "open"
       /\ socks'[z].st = "none" => socks'[z] = socks[z]
      BY DEF Rejoined
<1>6. OutInv'
  <2> SUFFICES ASSUME NEW z \in V!Sockets
               PROVE  /\ NotTwice(socks'[z].out)
                      /\ \A i \in 1 .. Len(socks'[z].out) :
                           /\ socks'[z].host = reqs'[socks'[z].out[i]].host
                           /\ reqs'[socks'[z].out[i]].st \notin {"idle", "bound"}
      BY DEF OutInv
  <2>1. CASE z = s
    <3>1. ASSUME NEW i \in 1 .. Len(q)
          PROVE  socks[s].host = reqs'[q[i]].host /\ reqs'[q[i]].st = "again"
          BY <1>1, <1>2, <1>3
    <3>2. socks'[z].out = q /\ socks'[z].host = socks[s].host
          BY <1>4, <2>1
    <3>3. ASSUME NEW i \in 1 .. Len(socks'[z].out)
          PROVE  /\ socks'[z].host = reqs'[socks'[z].out[i]].host
                 /\ reqs'[socks'[z].out[i]].st \notin {"idle", "bound"}
      <4>1. i \in 1 .. Len(q)
            BY <3>2
      <4> QED BY <3>1, <3>2, <4>1
    <3>4. NotTwice(socks'[z].out)
          BY <1>1, <3>2
    <3> QED BY <3>3, <3>4
  <2>2. CASE z # s
    <3>1. socks'[z].out = socks[z].out /\ socks'[z].host = socks[z].host
          BY <1>5, <2>2
    <3>2. NotTwice(socks'[z].out)
          BY <3>1 DEF SocketsInv, OutInv
    <3>3. ASSUME NEW i \in 1 .. Len(socks'[z].out)
          PROVE  /\ socks'[z].host = reqs'[socks'[z].out[i]].host
                 /\ reqs'[socks'[z].out[i]].st \notin {"idle", "bound"}
      <4>1. i \in 1 .. Len(socks[z].out)
            BY <3>1
      <4> DEFINE r == socks[z].out[i]
      <4>2. r \in Requests
            BY <4>1, SocketDomains
      <4>3. socks[z].host = reqs[r].host /\ reqs[r].st \notin {"idle", "bound"}
            BY <4>1 DEF SocketsInv, OutInv
      <4>4. socks'[z].out[i] = r
            BY <3>1
      <4> HIDE DEF r
      <4>5. reqs'[r].host = reqs[r].host /\ reqs'[r].st \in {reqs[r].st, "failed", "again"}
            BY <1>3, <4>2
      <4>6. socks'[z].host = reqs'[r].host /\ reqs'[r].st \notin {"idle", "bound"}
            BY <3>1, <4>3, <4>5
      <4> QED BY <4>4, <4>6
    <3> QED BY <3>2, <3>3
  <2> QED BY <2>1, <2>2
<1>7. PendingInv'
  <2> SUFFICES ASSUME NEW z \in V!Sockets
               PROVE  /\ NotTwice(socks'[z].pending)
                      /\ \A i \in 1 .. Len(socks'[z].pending) :
                           /\ reqs'[socks'[z].pending[i]].st \in {"waiting", "again"}
                           /\ \E d \in Contexts : /\ reqs'[socks'[z].pending[i]].origin = {d} /\ d.sock = z
                                                  /\ d.gen = reqs'[socks'[z].pending[i]].gen
      BY DEF PendingInv
  <2>1. CASE z = s
    <3>1. ASSUME NEW i \in 1 .. Len(q)
          PROVE  /\ reqs'[q[i]].st = "again" /\ reqs'[q[i]].origin = {c} /\ c.sock = z
                 /\ c.gen = reqs'[q[i]].gen
          BY <1>1, <1>2, <1>3, <2>1
    <3>2. socks'[z].pending = q
          BY <1>4, <2>1
    <3>3. ASSUME NEW i \in 1 .. Len(socks'[z].pending)
          PROVE  /\ reqs'[socks'[z].pending[i]].st \in {"waiting", "again"}
                 /\ \E d \in Contexts : /\ reqs'[socks'[z].pending[i]].origin = {d} /\ d.sock = z
                                        /\ d.gen = reqs'[socks'[z].pending[i]].gen
      <4>1. i \in 1 .. Len(q)
            BY <3>2
      <4> QED BY <3>1, <3>2, <4>1
    <3>4. NotTwice(socks'[z].pending)
          BY <1>1, <3>2
    <3> QED BY <3>3, <3>4
  <2>2. CASE z # s
    <3>1. socks'[z].pending = socks[z].pending
          BY <1>5, <2>2
    <3>2. NotTwice(socks'[z].pending)
          BY <3>1 DEF SocketsInv, PendingInv
    <3>3. ASSUME NEW i \in 1 .. Len(socks'[z].pending)
          PROVE  /\ reqs'[socks'[z].pending[i]].st \in {"waiting", "again"}
                 /\ \E d \in Contexts : /\ reqs'[socks'[z].pending[i]].origin = {d} /\ d.sock = z
                                        /\ d.gen = reqs'[socks'[z].pending[i]].gen
      <4>1. i \in 1 .. Len(socks[z].pending)
            BY <3>1
      <4> DEFINE r == socks[z].pending[i]
      <4>2. r \in Requests
            BY <4>1, SocketDomains
      <4>3. /\ reqs[r].st \in {"waiting", "again"}
            /\ \E d \in Contexts : reqs[r].origin = {d} /\ d.sock = z /\ d.gen = reqs[r].gen
            BY <4>1 DEF SocketsInv, PendingInv
      <4>4. socks'[z].pending[i] = r
            BY <3>1
      <4> HIDE DEF r
      <4>5. reqs'[r] = reqs[r]
            BY <1>3, <4>2, <4>3
      <4> QED BY <4>3, <4>4, <4>5
    <3> QED BY <3>2, <3>3
  <2> QED BY <2>1, <2>2
<1>8. UnusedInv'
  <2>1. socks'[s].st # "none"
        BY <1>1, <1>4
  <2> SUFFICES ASSUME NEW z \in V!Sockets, socks'[z].st = "none" PROVE socks'[z] = V!Unused
      BY DEF UnusedInv
  <2>2. z # s
        BY <2>1
  <2>3. socks'[z] = socks[z]
        BY <1>5, <2>2
  <2> QED BY <2>3 DEF SocketsInv, UnusedInv
<1>9. MatchInv'
  <2> SUFFICES ASSUME NEW z \in V!Sockets, socks'[z].st = "open" PROVE Matches(socks'[z])
      BY DEF MatchInv
  <2>1. CASE z = s
    <3>1. socks'[z].back = <<>> /\ socks'[z].pending = q /\ socks'[z].out = q /\ Len(q) \in Nat
          BY <1>1, <1>4, <2>1 DEF Untouched
    <3>2. Len(<<>>) = 0
          OBVIOUS
    <3> QED BY <3>1, <3>2 DEF Matches
  <2>2. CASE z # s
    <3>1. /\ socks'[z].pending = socks[z].pending /\ socks'[z].out = socks[z].out
          /\ socks'[z].back = socks[z].back /\ socks'[z].shut = socks[z].shut
          /\ socks[z].st = "open"
          BY <1>5, <2>2
    <3>2. Matches(socks[z])
          BY <3>1 DEF SocketsInv, MatchInv
    <3> QED BY <3>1, <3>2 DEF Matches
  <2> QED BY <2>1, <2>2
<1>10. RunInv'
  <2> SUFFICES ASSUME NEW r \in Requests
               PROVE  /\ Len(ran'[r]) + Cardinality(Out(r)') <= Limit(r)'
                      /\ reqs'[r].st \in {"again", "rejoining"} => r \in Reads
      BY DEF RunInv
  <2>1. /\ Len(ran[r]) + Cardinality(Out(r)) <= Limit(r)
        /\ reqs[r].st \in {"again", "rejoining"} => r \in Reads
        BY DEF SocketsInv, RunInv
  <2>2. \A z \in V!Sockets : z # s =>
           ((\E i \in 1 .. Len(socks'[z].out) : socks'[z].out[i] = r)
             <=> \E i \in 1 .. Len(socks[z].out) : socks[z].out[i] = r)
    <3> SUFFICES ASSUME NEW z \in V!Sockets, z # s
                 PROVE  (\E i \in 1 .. Len(socks'[z].out) : socks'[z].out[i] = r)
                          <=> \E i \in 1 .. Len(socks[z].out) : socks[z].out[i] = r
        OBVIOUS
    <3>1. socks'[z].out = socks[z].out
          BY <1>5
    <3> QED BY <3>1
  <2>3. ~\E i \in 1 .. Len(socks[s].out) : socks[s].out[i] = r
    <3>1. Len(socks[s].out) = 0
          BY <1>1 DEF Untouched
    <3> QED BY <3>1
  <2>4. (\E i \in 1 .. Len(socks'[s].out) : socks'[s].out[i] = r) <=> \E i \in 1 .. Len(q) : q[i] = r
    <3>1. socks'[s].out = q
          BY <1>4
    <3> QED BY <3>1
  <2>5. /\ IsFiniteSet(Out(r)) /\ Cardinality(Out(r)) \in Nat /\ Len(ran[r]) \in Nat
        /\ Limit(r) \in 0 .. 2
        BY RunCounts
  <2>6. CASE reqs'[r] = reqs[r] /\ \A i \in 1 .. Len(q) : q[i] # r
    <3>1. Out(r)' = Out(r)
          BY <2>2, <2>3, <2>4, <2>6 DEF Out
    <3>2. Limit(r)' = Limit(r)
          BY <2>6 DEF Limit
    <3>3. Cardinality(Out(r)') = Cardinality(Out(r))
          BY <3>1
    <3> QED BY <2>1, <2>6, <3>2, <3>3
  <2>7. CASE reqs[r].st = "rejoining" /\ reqs'[r].st = "failed" /\ \A i \in 1 .. Len(q) : q[i] # r
    <3>1. Out(r)' = Out(r)
          BY <2>2, <2>3, <2>4, <2>7 DEF Out
    <3>2. Limit(r)' = 2 /\ Limit(r) = 1
          BY <2>1, <2>7 DEF Limit
    <3>3. Cardinality(Out(r)') = Cardinality(Out(r))
          BY <3>1
    <3> HIDE DEF Limit
    <3> QED BY <2>1, <2>5, <2>7, <3>2, <3>3
  <2>8. CASE reqs[r].st = "rejoining" /\ reqs'[r].st = "again"
    <3>1. Limit(r)' = 2 /\ Limit(r) = 1 /\ r \in Reads
          BY <2>1, <2>8 DEF Limit
    <3> HIDE DEF Limit
    <3>2. CASE \E i \in 1 .. Len(q) : q[i] = r
      <4>1. Out(r)' = Out(r) \cup {s}
            BY <2>2, <2>3, <2>4, <3>2 DEF Out
      <4>2. s \notin Out(r)
            BY <2>3 DEF Out
      <4>3. Cardinality(Out(r)') = Cardinality(Out(r)) + 1
        <5>1. Cardinality(Out(r) \cup {s}) = Cardinality(Out(r)) + 1
              BY <2>5, <4>2, FS_AddElement
        <5> QED BY <4>1, <5>1
      <4> QED BY <2>1, <2>5, <2>8, <3>1, <4>3
    <3>3. CASE \A i \in 1 .. Len(q) : q[i] # r
      <4>1. Out(r)' = Out(r)
            BY <2>2, <2>3, <2>4, <3>3 DEF Out
      <4>2. Cardinality(Out(r)') = Cardinality(Out(r))
            BY <4>1
      <4> QED BY <2>1, <2>5, <2>8, <3>1, <4>2
    <3> QED BY <3>2, <3>3
  <2> QED BY <1>3, <2>6, <2>7, <2>8
<1>11. V!RunsOnItsHost'
  <2>1. \A o \in Requests : reqs'[o].host = reqs[o].host
        BY <1>3
  <2> QED BY <2>1 DEF SocketsInv, V!RunsOnItsHost
<1>12. V!AnswersItsOwn'
  <2>1. \A o \in Requests : reqs'[o].got = reqs[o].got
        BY <1>3
  <2> QED BY <2>1 DEF SocketsInv, V!AnswersItsOwn
<1> QED BY <1>6, <1>7, <1>8, <1>9, <1>10, <1>11, <1>12 DEF SocketsInv

(* What an attempt to connect owns. *)
LEMMA OwnSocket ==
  ASSUME SessionTypes, AttemptsInv, NEW t \in tries, t.sock # V!NoSocket
  PROVE  /\ t.sock \in V!Sockets /\ t.host \in Hosts /\ t.gen \in Nat /\ t \in Tries
         /\ [sock |-> t.sock, host |-> t.host, gen |-> t.gen] \in Contexts
         /\ socks[t.sock].st # "none" /\ socks[t.sock].host = t.host /\ Untouched(socks[t.sock])
         /\ client # t.sock /\ \A c \in context : c.sock # t.sock
<1>1. t \in Tries
      BY DEF SessionTypes
<1>2. t.sock \in V!Sockets /\ t.host \in Hosts /\ t.gen \in Nat
      BY <1>1 DEF Tries
<1>3. [sock |-> t.sock, host |-> t.host, gen |-> t.gen] \in Contexts
      BY <1>2 DEF Contexts
<1>4. /\ socks[t.sock].st # "none" /\ socks[t.sock].host = t.host /\ Untouched(socks[t.sock])
      /\ client # t.sock /\ \A c \in context : c.sock # t.sock
      BY DEF AttemptsInv, TrySocks
<1> QED BY <1>1, <1>2, <1>3, <1>4

(* The connection becomes the session. *)
LEMMA InstallStep ==
  ASSUME SessionTypes, SessionTypes', SocketsInv, AttemptsInv, NEW t \in tries, t.sock # V!NoSocket,
         V!Install(t, [sock |-> t.sock, host |-> t.host, gen |-> t.gen])
  PROVE  SocketsInv'
<1> DEFINE c == [sock |-> t.sock, host |-> t.host, gen |-> t.gen]
           s == t.sock
           q == Asked(t)
           A == Again(t)
<1>1. /\ s \in V!Sockets /\ c \in Contexts /\ t \in Tries
      /\ socks[s].st # "none" /\ socks[s].host = t.host /\ Untouched(socks[s])
      BY OwnSocket
<1>2. c.sock = s /\ c.host = t.host /\ c.gen = t.gen /\ V!Install(t, c)
      OBVIOUS
<1> HIDE DEF c
<1>3. /\ \A z \in V!Sockets : z # s => socks'[z] = V!Closed(socks, Previous(t))[z]
      /\ socks'[s].st = socks[s].st /\ socks'[s].host = socks[s].host
      /\ socks'[s].back = socks[s].back /\ socks'[s].shut = socks[s].shut
      /\ socks'[s].pending = q /\ socks'[s].out = q
      BY <1>2, InstallSocks
<1>4. /\ reqs' = [r \in Requests |->
                   IF r \in A THEN [reqs[r] EXCEPT !.st = IF Alive(t) THEN "again" ELSE "failed", !.origin = {c}]
                   ELSE reqs[r]]
      /\ ran' = ran
      BY Zenon, <1>2 DEF V!Install, Again, Alive
<1>5. \A r \in A : r \in Requests /\ reqs[r].st = "rejoining" /\ reqs[r].gen = t.gen /\ reqs[r].host = t.host
  <2> SUFFICES ASSUME NEW r \in A
               PROVE  r \in Requests /\ reqs[r].st = "rejoining" /\ reqs[r].gen = t.gen /\ reqs[r].host = t.host
      OBVIOUS
  <2>1. r \in Requests /\ r \in t.waits
        BY DEF Again
  <2>2. reqs[r].st = "rejoining" /\ reqs[r].gen = t.gen
        BY <2>1 DEF AttemptsInv, WaitInv
  <2> QED BY <2>1, <2>2, SameSelection DEF AttemptsInv
<1>6. /\ q \in Seq(Requests) /\ NotTwice(q)
      /\ \A i \in 1 .. Len(q) : q[i] \in A /\ Alive(t)
  <2>1. CASE Alive(t)
    <3>1. A \in SUBSET Requests /\ IsFiniteSet(Requests) /\ q = V!SetToSeq(A)
          BY <2>1 DEF Again, Asked, SessionTypes
    <3>2. V!SetToSeq(A) \in Seq(A) /\ NotTwice(V!SetToSeq(A))
          BY <3>1, InOrder
    <3> HIDE DEF q, A
    <3>3. q \in Seq(A) /\ q \in Seq(Requests)
      <4>1. q \in Seq(A)
            BY <3>1, <3>2
      <4> QED BY <3>1, <4>1
    <3>4. \A i \in 1 .. Len(q) : q[i] \in A
          BY <3>3
    <3> QED BY <2>1, <3>1, <3>2, <3>3, <3>4
  <2>2. CASE ~Alive(t)
    <3>1. q = <<>>
          BY <2>2 DEF Asked
    <3> QED BY <2>2, <3>1 DEF NotTwice
  <2> QED BY <2>1, <2>2
<1> HIDE DEF q, A
<1>7. \A r \in Requests :
        /\ r \notin A => reqs'[r] = reqs[r]
        /\ r \in A => /\ reqs'[r].st = IF Alive(t) THEN "again" ELSE "failed"
                      /\ reqs'[r].origin = {c} /\ reqs'[r].host = reqs[r].host
                      /\ reqs'[r].gen = reqs[r].gen /\ reqs'[r].got = reqs[r].got
  <2> SUFFICES ASSUME NEW r \in Requests
               PROVE  /\ r \notin A => reqs'[r] = reqs[r]
                      /\ r \in A => /\ reqs'[r].st = IF Alive(t) THEN "again" ELSE "failed"
                                    /\ reqs'[r].origin = {c} /\ reqs'[r].host = reqs[r].host
                                    /\ reqs'[r].gen = reqs[r].gen /\ reqs'[r].got = reqs[r].got
      OBVIOUS
  <2>1. PICK k \in RequestStates : k = reqs[r]
        BY DEF SessionTypes
  <2> DEFINE n == [k EXCEPT !.st = IF Alive(t) THEN "again" ELSE "failed", !.origin = {c}]
  <2>2. /\ n.st = IF Alive(t) THEN "again" ELSE "failed"
        /\ n.origin = {c} /\ n.host = k.host /\ n.gen = k.gen /\ n.got = k.got
        BY DEF RequestStates
  <2>3. reqs'[r] = IF r \in A THEN n ELSE reqs[r]
        BY Zenon, <1>4, <2>1
  <2> HIDE DEF n
  <2> QED BY <2>1, <2>2, <2>3
<1>8. \E d \in Contexts : d.sock = s /\ \A i \in 1 .. Len(q) :
       /\ reqs[q[i]].st = "rejoining" /\ reqs[q[i]].host = socks[s].host
       /\ reqs'[q[i]].st = "again" /\ reqs'[q[i]].origin = {d} /\ reqs[q[i]].gen = d.gen
  <2>1. ASSUME NEW i \in 1 .. Len(q)
        PROVE  /\ reqs[q[i]].st = "rejoining" /\ reqs[q[i]].host = socks[s].host
               /\ reqs'[q[i]].st = "again" /\ reqs'[q[i]].origin = {c} /\ reqs[q[i]].gen = c.gen
    <3>1. PICK r \in Requests : r = q[i] /\ r \in A /\ Alive(t)
          BY <1>5, <1>6
    <3> QED BY <1>1, <1>2, <1>5, <1>7, <3>1
  <2> QED BY <1>1, <1>2, <2>1
<1>9. \A r \in Requests :
       /\ reqs'[r].host = reqs[r].host /\ reqs'[r].gen = reqs[r].gen /\ reqs'[r].got = reqs[r].got
       /\ \/ reqs'[r] = reqs[r] /\ \A i \in 1 .. Len(q) : q[i] # r
          \/ reqs[r].st = "rejoining" /\ reqs'[r].st = "failed" /\ \A i \in 1 .. Len(q) : q[i] # r
          \/ reqs[r].st = "rejoining" /\ reqs'[r].st = "again"
  <2> SUFFICES ASSUME NEW r \in Requests
               PROVE  /\ reqs'[r].host = reqs[r].host /\ reqs'[r].gen = reqs[r].gen /\ reqs'[r].got = reqs[r].got
                      /\ \/ reqs'[r] = reqs[r] /\ \A i \in 1 .. Len(q) : q[i] # r
                         \/ reqs[r].st = "rejoining" /\ reqs'[r].st = "failed" /\ \A i \in 1 .. Len(q) : q[i] # r
                         \/ reqs[r].st = "rejoining" /\ reqs'[r].st = "again"
      OBVIOUS
  <2>1. CASE r \notin A
    <3>1. reqs'[r] = reqs[r]
          BY <1>7, <2>1
    <3>2. \A i \in 1 .. Len(q) : q[i] # r
          BY <1>6, <2>1
    <3> QED BY <3>1, <3>2
  <2>2. CASE r \in A /\ Alive(t)
    <3>2. /\ reqs'[r].st = "again" /\ reqs'[r].host = reqs[r].host
          /\ reqs'[r].gen = reqs[r].gen /\ reqs'[r].got = reqs[r].got
          BY <1>7, <2>2
    <3>3. reqs[r].st = "rejoining"
          BY <1>5, <2>2
    <3> QED BY <3>2, <3>3
  <2>3. CASE r \in A /\ ~Alive(t)
    <3>1. \A i \in 1 .. Len(q) : q[i] # r
          BY <1>6, <2>3
    <3>2. /\ reqs'[r].st = "failed" /\ reqs'[r].host = reqs[r].host
          /\ reqs'[r].gen = reqs[r].gen /\ reqs'[r].got = reqs[r].got
          BY <1>7, <2>3
    <3>3. reqs[r].st = "rejoining"
          BY <1>5, <2>3
    <3> QED BY <3>1, <3>2, <3>3
  <2> QED BY <2>1, <2>2, <2>3
<1>10. \A z \in V!Sockets : z # s =>
       /\ socks'[z].pending = socks[z].pending /\ socks'[z].out = socks[z].out
       /\ socks'[z].back = socks[z].back /\ socks'[z].shut = socks[z].shut
       /\ socks'[z].host = socks[z].host
       /\ socks[z].st # "none" => socks'[z].st # "none"
       /\ socks'[z].st = "open" => socks[z].st = "open"
       /\ socks'[z].st = "none" => socks'[z] = socks[z]
  <2> DEFINE p == Previous(t)
  <2>1. socks \in [V!Sockets -> SocketStates]
        BY DEF SessionTypes
  <2> HIDE DEF p
  <2>2. \A z \in V!Sockets :
          /\ V!Closed(socks, p)[z].host = socks[z].host /\ V!Closed(socks, p)[z].pending = socks[z].pending
          /\ V!Closed(socks, p)[z].out = socks[z].out /\ V!Closed(socks, p)[z].back = socks[z].back
          /\ V!Closed(socks, p)[z].shut = socks[z].shut
          /\ \/ V!Closed(socks, p)[z].st = socks[z].st
             \/ socks[z].st = "open" /\ V!Closed(socks, p)[z].st = "closing" /\ z = p
          /\ V!Closed(socks, p)[z].st # "closing" => V!Closed(socks, p)[z] = socks[z]
        BY <2>1, ClosedSocks
  <2>3. \A z \in V!Sockets : z # s => socks'[z] = V!Closed(socks, p)[z]
        BY <1>3 DEF p
  <2> SUFFICES ASSUME NEW z \in V!Sockets, z # s
               PROVE  /\ socks'[z].pending = socks[z].pending /\ socks'[z].out = socks[z].out
                      /\ socks'[z].back = socks[z].back /\ socks'[z].shut = socks[z].shut
                      /\ socks'[z].host = socks[z].host
                      /\ socks[z].st # "none" => socks'[z].st # "none"
                      /\ socks'[z].st = "open" => socks[z].st = "open"
                      /\ socks'[z].st = "none" => socks'[z] = socks[z]
      OBVIOUS
  <2>4. socks'[z] = V!Closed(socks, p)[z]
        BY <2>3
  <2> QED BY <2>2, <2>4
<1> HIDE DEF s
<1>11. Rejoined(s, q)
       BY <1>1, <1>3, <1>6, <1>8, <1>9, <1>10 DEF Rejoined
<1> QED BY Zenon, <1>1, <1>4, <1>11, RejoinStep

(* A socket is opened for an attempt. *)
Opens(sk, s, t, x) == sk = [socks EXCEPT ![s].st = x, ![s].host = t.host]
(* Nothing was written to a new socket. *)
LEMMA NewSocket ==
  ASSUME SessionTypes, NEW t \in tries, NEW s \in V!Sockets, socks[s].st = "none",
         NEW x \in {"open", "closing"}, NEW sk, Opens(sk, s, t, x)
  PROVE  /\ sk \in [V!Sockets -> SocketStates] /\ Calm(sk, socks)
         /\ \A z \in V!Sockets : z # s => sk[z] = socks[z]
         /\ sk[s].st = x /\ sk[s].host = t.host
         /\ sk[s].pending = socks[s].pending /\ sk[s].out = socks[s].out
         /\ sk[s].back = socks[s].back /\ sk[s].shut = socks[s].shut
<1>1. PICK k \in SocketStates : k = socks[s]
      BY DEF SessionTypes
<1>2. t.host \in Hosts
      BY DEF SessionTypes, Tries
<1> DEFINE n == [k EXCEPT !.st = x, !.host = t.host]
<1>3. n \in SocketStates
      BY <1>2 DEF SocketStates
<1>4. /\ n.st = x /\ n.host = t.host /\ n.pending = k.pending /\ n.out = k.out
      /\ n.back = k.back /\ n.shut = k.shut
      BY DEF SocketStates
<1>5. sk = [socks EXCEPT ![s] = n] /\ socks \in [V!Sockets -> SocketStates]
      BY <1>1 DEF SessionTypes, Opens
<1> HIDE DEF n
<1>6. sk \in [V!Sockets -> SocketStates] /\ \A z \in V!Sockets : z # s => sk[z] = socks[z]
      BY <1>3, <1>5
<1>7. sk[s] = n
      BY <1>5
<1>8. Calm(sk, socks)
      BY <1>1, <1>4, <1>6, <1>7 DEF Calm
<1> QED BY <1>1, <1>4, <1>6, <1>7, <1>8

(* Those who waited for an attempt are told that it failed. *)
LEMMA SettledIsCalm ==
  ASSUME SessionTypes, AttemptsInv, NEW t \in tries, reqs' = V!Settled(t.waits, "failed")
  PROVE  CalmReqs
<1> SUFFICES ASSUME NEW r \in Requests
             PROVE  /\ reqs'[r].host = reqs[r].host /\ reqs'[r].gen = reqs[r].gen
                    /\ reqs'[r].origin = reqs[r].origin /\ reqs'[r].got = reqs[r].got
                    /\ \/ reqs'[r].st = reqs[r].st
                       \/ reqs[r].st = "rejoining" /\ reqs'[r].st = "failed"
    BY DEF CalmReqs
<1>1. PICK k \in RequestStates : k = reqs[r]
      BY DEF SessionTypes
<1> DEFINE n == [k EXCEPT !.st = "failed"]
<1>2. n.st = "failed" /\ n.host = k.host /\ n.gen = k.gen /\ n.origin = k.origin /\ n.got = k.got
      BY DEF RequestStates
<1>3. reqs'[r] = IF r \in t.waits THEN n ELSE reqs[r]
      BY <1>1 DEF V!Settled
<1>4. r \in t.waits => reqs[r].st = "rejoining"
      BY DEF AttemptsInv, WaitInv
<1> HIDE DEF n
<1> QED BY <1>1, <1>2, <1>3, <1>4

(* An attempt that is abandoned writes nothing. *)
LEMMA AbandonStep ==
  ASSUME SessionTypes, SessionTypes', SocketsInv, AttemptsInv, NEW t \in tries,
         NEW sk \in [V!Sockets -> SocketStates], Calm(sk, socks), V!Abandon(t, sk)
  PROVE  SocketsInv'
<1>1. reqs' = V!Settled(t.waits, "failed") /\ ran' = ran /\ (socks' = sk \/ socks' = V!Closed(sk, client))
      BY DEF V!Abandon, V!Disconnected
<1>2. CalmReqs
      BY <1>1, SettledIsCalm
<1>3. Calm(V!Closed(sk, client), socks)
  <2>1. socks \in [V!Sockets -> SocketStates]
        BY DEF SessionTypes
  <2> QED BY <2>1, ClosedIsCalm
<1>4. Calm(socks', socks)
      BY <1>1, <1>3
<1> QED BY <1>1, <1>2, <1>4, CalmStep

(* The steps that write to no socket and take nothing from one. *)
LEMMA QuietStep ==
  ASSUME SessionTypes, SessionTypes', SocketsInv, reqs' = reqs, ran' = ran,
         socks' = socks \/ V!Disconnected(socks)
  PROVE  SocketsInv'
<1>1. CalmReqs
      BY DEF CalmReqs
<1>2. Calm(socks, socks) /\ socks \in [V!Sockets -> SocketStates]
      BY CalmItself DEF SessionTypes
<1>3. Calm(socks', socks)
  <2>1. CASE socks' = socks
        BY <1>2, <2>1
  <2>2. CASE V!Disconnected(socks)
    <3>1. socks' = V!Closed(socks, client)
          BY <2>2 DEF V!Disconnected
    <3> QED BY <1>2, <3>1, ClosedIsCalm
  <2> QED BY <2>1, <2>2
<1> QED BY <1>1, <1>3, CalmStep

(* What an attempt to connect does to the sockets. *)
LEMMA AttemptStep ==
  ASSUME SessionTypes, SessionTypes', SocketsInv, AttemptsInv, NEW t \in tries,
         V!LeaveScreen(t) \/ V!ConnectFails(t) \/ V!Opened(t) \/ V!CredentialFails(t) \/ V!Connected(t)
  PROVE  SocketsInv'
<1>0. socks \in [V!Sockets -> SocketStates] /\ Calm(socks, socks)
      BY CalmItself DEF SessionTypes
<1>1. CASE V!LeaveScreen(t)
      BY <1>1, QuietStep DEF V!LeaveScreen
<1>2. CASE V!ConnectFails(t)
      BY <1>0, <1>2, AbandonStep DEF V!ConnectFails
<1>3. CASE V!Opened(t)
  <2>1. PICK s \in V!Sockets :
          /\ socks[s].st = "none"
          /\ IF V!Aborted(t) THEN V!Abandon(t, [socks EXCEPT ![s].st = "closing", ![s].host = t.host])
             ELSE /\ socks' = [socks EXCEPT ![s].st = "open", ![s].host = t.host]
                  /\ tries' = (tries \ {t}) \cup {[t EXCEPT !.sock = s]}
                  /\ UNCHANGED <<gen, client, context, shared, reqs, retiring, probes, ran, faults>>
        BY <1>3 DEF V!Opened
  <2>2. CASE V!Aborted(t)
    <3> DEFINE sk == [socks EXCEPT ![s].st = "closing", ![s].host = t.host]
    <3>1. V!Abandon(t, sk)
          BY <2>1, <2>2
    <3>2. sk \in [V!Sockets -> SocketStates] /\ Calm(sk, socks)
      <4>1. socks[s].st = "none" /\ Opens(sk, s, t, "closing")
            BY <2>1 DEF Opens
      <4> HIDE DEF sk
      <4> QED BY <4>1, NewSocket
    <3> HIDE DEF sk
    <3> QED BY <3>1, <3>2, AbandonStep
  <2>3. CASE ~V!Aborted(t)
    <3> DEFINE sk == [socks EXCEPT ![s].st = "open", ![s].host = t.host]
    <3>1. socks' = sk /\ reqs' = reqs /\ ran' = ran
          BY <2>1, <2>3
    <3>2. sk \in [V!Sockets -> SocketStates] /\ Calm(sk, socks)
      <4>1. socks[s].st = "none" /\ Opens(sk, s, t, "open")
            BY <2>1 DEF Opens
      <4> HIDE DEF sk
      <4> QED BY <4>1, NewSocket
    <3> HIDE DEF sk
    <3>3. CalmReqs
          BY <3>1 DEF CalmReqs
    <3>4. Calm(socks', socks)
          BY <3>1, <3>2
    <3> QED BY <3>1, <3>3, <3>4, CalmStep
  <2> QED BY <2>2, <2>3
<1>4. CASE V!CredentialFails(t)
  <2>1. V!Abandon(t, V!Closed(socks, t.sock))
        BY <1>4 DEF V!CredentialFails
  <2>2. V!Closed(socks, t.sock) \in [V!Sockets -> SocketStates] /\ Calm(V!Closed(socks, t.sock), socks)
        BY <1>0, ClosedSocks, ClosedIsCalm
  <2> QED BY <2>1, <2>2, AbandonStep
<1>5. CASE V!Connected(t)
  <2>1. CASE V!Wanted(t)
        BY <1>5, <2>1, InstallStep DEF V!Connected
  <2>2. CASE ~V!Wanted(t)
    <3>1. V!Abandon(t, V!Closed(socks, t.sock))
          BY <1>5, <2>2 DEF V!Connected, V!Dropped
    <3>2. V!Closed(socks, t.sock) \in [V!Sockets -> SocketStates] /\ Calm(V!Closed(socks, t.sock), socks)
          BY <1>0, ClosedSocks, ClosedIsCalm
    <3> QED BY <3>1, <3>2, AbandonStep
  <2> QED BY <2>1, <2>2
<1> QED BY <1>1, <1>2, <1>3, <1>4, <1>5

(* What holds of the sockets and of the requests on them stays so. *)
LEMMA SocketsStay ==
  ASSUME SessionTypes, SocketsInv, AttemptsInv, V!Next
  PROVE  SocketsInv'
<1>0. SessionTypes'
      BY SessionTypesStay DEF SocketsInv
<1>1. CASE \E h \in Hosts : V!Select(h)
      BY <1>0, <1>1, QuietStep DEF V!Select
<1>2. CASE V!Disconnect
      BY <1>0, <1>2, QuietStep DEF V!Disconnect
<1>3. CASE V!Attempts
      BY <1>0, <1>3, AttemptStep DEF V!Attempts
<1>4. CASE V!SocketSteps
  <2>1. PICK s \in V!Sockets : V!HostRuns(s) \/ V!Deliver(s) \/ V!TimeoutFront(s) \/ V!Fails(s) \/ V!Closes(s)
        BY <1>4 DEF V!SocketSteps
  <2> QED BY <1>0, <2>1, HostStep, DeliverStep, LossStep
<1>5. CASE \E r \in Requests : V!Bind(r) \/ V!Ask(r)
      BY <1>0, <1>5, AskStep DEF AttemptsInv
<1>6. CASE \E c \in context : V!AutoReconnect(c)
      BY <1>0, <1>6, QuietStep DEF V!AutoReconnect
<1>7. CASE \E c \in retiring : V!Retired(c)
      BY <1>0, <1>7, QuietStep DEF V!Retired
<1>8. CASE \E c \in probes : V!Probed(c)
      BY <1>0, <1>8, QuietStep DEF V!Probed
<1> QED BY <1>1, <1>2, <1>3, <1>4, <1>5, <1>6, <1>7, <1>8 DEF V!Next

(* What a step leaves of the session, of the sockets and of what is bound to a selection. *)
ClientKept ==
  /\ context' \subseteq context /\ client' \in {client, V!NoSocket}
  /\ client' # V!NoSocket => context' = context
SocksKept ==
  \A s \in V!Sockets : socks[s].st # "none" =>
     /\ socks'[s].st # "none" /\ socks'[s].host = socks[s].host
     /\ (Untouched(socks[s]) /\ \A c \in context : c.sock # s) => Untouched(socks'[s])
BoundKept ==
  /\ \A t \in tries' : [gen |-> t.gen, host |-> t.host] \in Bound
  /\ \A r \in Requests : reqs'[r].st # "idle" => [gen |-> reqs'[r].gen, host |-> reqs'[r].host] \in Bound

(* The client stays the socket of the context. *)
LEMMA ClientStays ==
  ASSUME SessionTypes, ClientInv, SocksKept, ClientKept
  PROVE  ClientInv'
<1>1. \A c \in context : c.sock \in V!Sockets
      BY DEF SessionTypes, Contexts
<1>2. \A c, d \in context' : c = d
      BY DEF ClientInv, ClientKept
<1>3. client' # V!NoSocket => \E c \in context' : c.sock = client'
      BY DEF ClientInv, ClientKept
<1>4. \A c \in context' : socks'[c.sock].st # "none" /\ socks'[c.sock].host = c.host
      BY <1>1 DEF ClientInv, ClientKept, SocksKept
<1> QED BY <1>2, <1>3, <1>4 DEF ClientInv

(* Where nothing new is bound, what is bound to a selection stays with its host. *)
LEMMA BoundFollows ==
  ASSUME SessionTypes, BoundInv, BoundKept, gen' \in {gen, gen + 1},
         \A c \in context' : [gen |-> c.gen, host |-> c.host] \in Bound
  PROVE  BoundInv'
<1>1. Bound' \subseteq Bound
  <2>1. \A c \in context' : [gen |-> c.gen, host |-> c.host] \in Bound
        BY Zenon
  <2>2. Bound' = {[gen |-> c.gen, host |-> c.host] : c \in context'}
                 \cup {[gen |-> t.gen, host |-> t.host] : t \in tries'}
                 \cup {[gen |-> reqs'[r].gen, host |-> reqs'[r].host] : r \in {q \in Requests : reqs'[q].st # "idle"}}
        BY DEF Bound
  <2> HIDE DEF Bound
  <2> QED BY <2>1, <2>2 DEF BoundKept
<1>2. \A b \in Bound : b.gen \in Nat
  <2>1. /\ \A c \in context : c.gen \in Nat
        /\ \A t \in tries : t.gen \in Nat
        /\ \A r \in Requests : reqs[r].gen \in Nat
        BY DEF SessionTypes, Contexts, Tries, RequestStates
  <2> QED BY <2>1 DEF Bound
<1>3. \A b \in Bound' : b.gen <= gen'
  <2>1. gen \in Nat
        BY DEF SessionTypes
  <2>2. \A b \in Bound : b.gen <= gen
        BY DEF BoundInv
  <2> SUFFICES ASSUME NEW b \in Bound PROVE b.gen <= gen'
      BY <1>1
  <2>3. PICK g \in Nat : g = b.gen
        BY <1>2
  <2>4. g <= gen
        BY <2>2, <2>3
  <2>5. g <= gen'
        BY <2>1, <2>4
  <2> QED BY <2>3, <2>5
<1>4. \A b, d \in Bound' : b.gen = d.gen => b.host = d.host
      BY <1>1 DEF BoundInv
<1> QED BY <1>3, <1>4 DEF BoundInv

(* A step that changes neither context nor attempts binds nothing new. *)
LEMMA BoundStays ==
  ASSUME SessionTypes, BoundInv, BoundKept, context' \subseteq context, gen' \in {gen, gen + 1}
  PROVE  BoundInv'
<1>1. \A c \in context' : [gen |-> c.gen, host |-> c.host] \in Bound
      BY Zenon DEF Bound
<1> QED BY <1>1, BoundFollows

(* The sockets of the attempts stay theirs. *)
LEMMA TrySocksStay ==
  ASSUME SessionTypes, TrySocks, SocksKept, ClientKept,
         \A u \in tries' : u.sock # V!NoSocket => \E t \in tries : u.sock = t.sock /\ u.host = t.host
  PROVE  TrySocks'
<1> SUFFICES ASSUME NEW u \in tries', u.sock # V!NoSocket
             PROVE  /\ socks'[u.sock].st # "none" /\ socks'[u.sock].host = u.host /\ Untouched(socks'[u.sock])
                    /\ client' # u.sock /\ \A c \in context' : c.sock # u.sock
    BY DEF TrySocks
<1>1. PICK t \in tries : u.sock = t.sock /\ u.host = t.host
      OBVIOUS
<1>2. t.sock # V!NoSocket /\ t.sock \in V!Sockets
      BY <1>1 DEF SessionTypes, Tries
<1>3. /\ socks[t.sock].st # "none" /\ socks[t.sock].host = t.host /\ Untouched(socks[t.sock])
      /\ client # t.sock /\ \A c \in context : c.sock # t.sock
      BY <1>2 DEF TrySocks
<1>4. socks'[t.sock].st # "none" /\ socks'[t.sock].host = t.host /\ Untouched(socks'[t.sock])
      BY <1>2, <1>3 DEF SocksKept
<1>5. client' # t.sock /\ \A c \in context' : c.sock # t.sock
      BY <1>2, <1>3 DEF ClientKept
<1> QED BY <1>1, <1>4, <1>5

(* One attempt ends, or goes on otherwise. *)
Same(u, t) == u.kind = t.kind /\ u.host = t.host /\ u.gen = t.gen /\ u.origin = t.origin

(* Attempts stay apart. *)
LEMMA ApartStays ==
  ASSUME SessionTypes, AttemptsInv, NEW t \in tries, NEW N, tries' = (tries \ {t}) \cup N,
         \A u \in N : Same(u, t) /\ (u.sock \in {V!NoSocket, t.sock} \/ \A v \in tries : v.sock # u.sock),
         \A u, v \in N : u = v
  PROVE  TriesApart'
<1>1. ASSUME NEW u \in tries', NEW v \in tries'
      PROVE  \/ u = v
             \/ /\ u.sock # V!NoSocket => u.sock # v.sock
                /\ u.kind = "reconnect" /\ v.kind = "reconnect" => u.gen # v.gen
  <2>1. \A x, y \in tries : \/ x = y
                            \/ /\ x.sock # V!NoSocket => x.sock # y.sock
                               /\ x.kind = "reconnect" /\ y.kind = "reconnect" => x.gen # y.gen
        BY DEF AttemptsInv, TriesApart
  <2>2. CASE u \in tries \ {t} /\ v \in tries \ {t}
        BY <2>1, <2>2
  <2>3. CASE u \in N /\ v \in N
        BY <2>3
  <2>4. CASE u \in N /\ v \in tries \ {t}
    <3>1. /\ t.sock # V!NoSocket => t.sock # v.sock
          /\ t.kind = "reconnect" /\ v.kind = "reconnect" => t.gen # v.gen
          BY <2>1, <2>4
    <3> QED BY <2>4, <3>1 DEF Same
  <2>5. CASE u \in tries \ {t} /\ v \in N
    <3>1. /\ u.sock # V!NoSocket => t.sock # u.sock
          /\ t.kind = "reconnect" /\ u.kind = "reconnect" => t.gen # u.gen
      <4>1. /\ u.sock # V!NoSocket => u.sock # t.sock
            /\ u.kind = "reconnect" /\ t.kind = "reconnect" => u.gen # t.gen
            BY <2>1, <2>5
      <4> QED BY <4>1
    <3> QED BY <2>5, <3>1 DEF Same
  <2> QED BY <1>1, <2>2, <2>3, <2>4, <2>5
<1> QED BY <1>1 DEF TriesApart

(* The kinds of the attempts, when the attempts that can be joined stay. *)
LEMMA KindsStay ==
  ASSUME SessionTypes, AttemptsInv,
         \A u \in tries' : \E t \in tries :
            /\ Same(u, t) /\ (u.kind = "connect" => u.waits = t.waits)
            /\ \/ gen' = gen + 1
               \/ gen' = gen /\ (u.kind = "reconnect" /\ u.gen = gen => shared' = shared)
  PROVE  TryKinds'
<1> SUFFICES ASSUME NEW u \in tries'
             PROVE  /\ u.kind = "connect" => u.waits = {} /\ u.origin = {}
                    /\ u.kind = "reconnect" => \E c \in Contexts : u.origin = {c} /\ c.gen = u.gen
                    /\ u.kind = "reconnect" /\ u.gen = gen' => shared' = {gen'}
    BY DEF TryKinds
<1>1. PICK t \in tries :
            /\ Same(u, t) /\ (u.kind = "connect" => u.waits = t.waits)
            /\ \/ gen' = gen + 1
               \/ gen' = gen /\ (u.kind = "reconnect" /\ u.gen = gen => shared' = shared)
      OBVIOUS
<1>2. /\ t.kind = "connect" => t.waits = {} /\ t.origin = {}
      /\ t.kind = "reconnect" => \E c \in Contexts : t.origin = {c} /\ c.gen = t.gen
      /\ t.kind = "reconnect" /\ t.gen = gen => shared = {gen}
      BY DEF AttemptsInv, TryKinds
<1>3. CASE gen' = gen + 1
  <2>1. t.gen \in Nat /\ gen \in Nat /\ t.gen <= gen
        BY SameSelection DEF SessionTypes, Tries, AttemptsInv
  <2>2. t.gen # gen'
        BY <1>3, <2>1
  <2> QED BY <1>1, <1>2, <2>2 DEF Same
<1>4. CASE gen' = gen /\ (u.kind = "reconnect" /\ u.gen = gen => shared' = shared)
      BY <1>1, <1>2, <1>4 DEF Same
<1> QED BY <1>1, <1>3, <1>4

(* Whoever waits for an attempt is one of its own selection. *)
LEMMA WaitsStay ==
  ASSUME SessionTypes, AttemptsInv,
         \A u \in tries' : \E t \in tries : u.gen = t.gen /\ u.waits = t.waits /\
            \A r \in Requests : r \in t.waits => reqs'[r].st = reqs[r].st /\ reqs'[r].gen = reqs[r].gen
  PROVE  WaitInv'
BY DEF AttemptsInv, WaitInv

(* What was bound stays bound, and who waits for a connection goes on waiting. *)
ReqsKept ==
  /\ \A r \in Requests : reqs'[r].st # "idle" => [gen |-> reqs'[r].gen, host |-> reqs'[r].host] \in Bound
  /\ \A r \in Requests : reqs[r].st = "rejoining" => reqs'[r].st = "rejoining" /\ reqs'[r].gen = reqs[r].gen

(* A step that starts no attempt and ends none. *)
LEMMA AttemptsKept ==
  ASSUME SessionTypes, AttemptsInv, tries' = tries, SocksKept, ClientKept, ReqsKept,
         gen' = gen + 1 \/ (gen' = gen /\ shared' = shared)
  PROVE  AttemptsInv'
<1>1. ClientInv'
      BY ClientStays DEF AttemptsInv
<1>2. BoundInv'
  <2>1. \A t \in tries' : [gen |-> t.gen, host |-> t.host] \in Bound
        BY Zenon DEF Bound
  <2>2. BoundKept
        BY <2>1 DEF BoundKept, ReqsKept
  <2> QED BY <2>2, BoundStays DEF AttemptsInv, ClientKept
<1>3. TrySocks'
      BY TrySocksStay DEF AttemptsInv
<1>4. TriesApart'
      BY DEF AttemptsInv, TriesApart
<1>5. TryKinds'
  <2>1. \A u \in tries' : /\ Same(u, u) /\ (u.kind = "connect" => u.waits = u.waits)
                          /\ \/ gen' = gen + 1
                             \/ gen' = gen /\ (u.kind = "reconnect" /\ u.gen = gen => shared' = shared)
        BY DEF Same
  <2> QED BY <2>1, KindsStay
<1>6. WaitInv'
  <2>1. \A t \in tries : \A r \in t.waits \cap Requests : reqs[r].st = "rejoining" /\ reqs[r].gen = t.gen
        BY DEF AttemptsInv, WaitInv
  <2>2. \A t \in tries : \A r \in t.waits \cap Requests : reqs'[r].st = "rejoining" /\ reqs'[r].gen = t.gen
        BY <2>1 DEF ReqsKept
  <2> QED BY <2>2 DEF WaitInv
<1> QED BY <1>1, <1>2, <1>3, <1>4, <1>5, <1>6 DEF AttemptsInv

(* A step that writes to no socket keeps the sockets of the attempts. *)
LEMMA CalmKeeps ==
  ASSUME Calm(socks', socks)
  PROVE  SocksKept
BY DEF Calm, SocksKept, Untouched

(* The session ends; the attempts under way are superseded. *)
LEMMA DisconnectedKeeps ==
  ASSUME SessionTypes, AttemptsInv, V!Disconnected(socks), tries' = tries, reqs' = reqs
  PROVE  AttemptsInv'
<1>1. /\ gen' = gen + 1 /\ client' = V!NoSocket /\ context' = {} /\ socks' = V!Closed(socks, client)
      BY DEF V!Disconnected
<1>2. ClientKept
      BY <1>1 DEF ClientKept
<1>3. SocksKept
  <2>1. socks \in [V!Sockets -> SocketStates] /\ Calm(socks, socks)
        BY CalmItself DEF SessionTypes
  <2>2. Calm(V!Closed(socks, client), socks)
        BY <2>1, ClosedIsCalm
  <2> QED BY <1>1, <2>2, CalmKeeps
<1>4. ReqsKept
      BY DEF ReqsKept, Bound
<1> QED BY <1>1, <1>2, <1>3, <1>4, AttemptsKept

(* Nothing changes but which requests are to be answered. *)
LEMMA QuietKeeps ==
  ASSUME SessionTypes, AttemptsInv,
         UNCHANGED <<gen, client, context, tries, shared, socks, reqs>>
  PROVE  AttemptsInv'
<1>1. ClientKept /\ SocksKept
      BY DEF ClientKept, SocksKept
<1>2. ReqsKept
      BY DEF ReqsKept, Bound
<1> QED BY <1>1, <1>2, AttemptsKept

(* The host reads a request. *)
LEMMA HostKeeps ==
  ASSUME SessionTypes, AttemptsInv, NEW s \in V!Sockets, V!HostRuns(s)
  PROVE  AttemptsInv'
<1>1. /\ socks[s].out # <<>>
      /\ \A z \in V!Sockets : z # s => socks'[z] = socks[z]
      /\ socks'[s].st = socks[s].st /\ socks'[s].host = socks[s].host
      BY HostSocks
<1>2. SocksKept
  <2>1. ~Untouched(socks[s])
        BY <1>1 DEF Untouched
  <2> QED BY <1>1, <2>1 DEF SocksKept
<1>3. UNCHANGED <<gen, client, context, tries, shared, reqs>>
      BY DEF V!HostRuns
<1>4. ClientKept
      BY <1>3 DEF ClientKept
<1>5. ReqsKept
      BY <1>3 DEF ReqsKept, Bound
<1> QED BY <1>2, <1>3, <1>4, <1>5, AttemptsKept

(* A response arrives. *)
LEMMA DeliverKeeps ==
  ASSUME SessionTypes, SocketsInv, AttemptsInv, NEW s \in V!Sockets, V!Deliver(s)
  PROVE  AttemptsInv'
<1>1. /\ socks[s].back # <<>>
      /\ \A z \in V!Sockets : z # s => socks'[z] = socks[z]
      /\ socks'[s].st = socks[s].st /\ socks'[s].host = socks[s].host
      BY DeliverSocks
<1>2. SocksKept
  <2>1. ~Untouched(socks[s])
        BY <1>1 DEF Untouched
  <2> QED BY <1>1, <2>1 DEF SocksKept
<1>3. UNCHANGED <<gen, client, context, tries, shared>>
      BY DEF V!Deliver
<1>4. ClientKept
      BY <1>3 DEF ClientKept
<1>5. \A r \in Requests : /\ reqs'[r].host = reqs[r].host /\ reqs'[r].gen = reqs[r].gen
                          /\ reqs'[r].st = reqs[r].st \/ reqs[r].st \in {"waiting", "again"}
  <2>1. CASE socks[s].pending = <<>>
        BY <2>1 DEF V!Deliver
  <2>2. CASE socks[s].pending # <<>>
    <3> DEFINE q == Head(socks[s].pending)
               a == Head(socks[s].back)
    <3>1. socks[s].pending \in Seq(Requests) /\ Len(socks[s].pending) \in Nat
          BY SocketDomains
    <3>2. q \in Requests /\ q = socks[s].pending[1] /\ 1 \in 1 .. Len(socks[s].pending)
          BY <2>2, <3>1
    <3>3. reqs[q].st \in {"waiting", "again"}
          BY <3>2 DEF SocketsInv, PendingInv
    <3>4. reqs' = [reqs EXCEPT ![q].st = IF a.ok THEN "done" ELSE "unauthorized", ![q].got = {a.of}]
          BY <2>2 DEF V!Deliver
    <3>5. PICK k \in RequestStates : k = reqs[q]
          BY <3>2 DEF SessionTypes
    <3> DEFINE n == [k EXCEPT !.st = IF a.ok THEN "done" ELSE "unauthorized", !.got = {a.of}]
    <3> HIDE DEF q
    <3>6. n.host = k.host /\ n.gen = k.gen
          BY DEF RequestStates
    <3>7. reqs' = [reqs EXCEPT ![q] = n] /\ reqs \in [Requests -> RequestStates]
          BY <3>4, <3>5 DEF SessionTypes
    <3> HIDE DEF n
    <3>8. \A r \in Requests : r # q => reqs'[r] = reqs[r]
          BY <3>7
    <3>9. reqs'[q] = n
          BY <3>2, <3>7
    <3> QED BY <3>3, <3>5, <3>6, <3>8, <3>9
  <2> QED BY <2>1, <2>2
<1>6. ReqsKept
  <2>1. \A r \in Requests : reqs[r].st # "idle" => [gen |-> reqs[r].gen, host |-> reqs[r].host] \in Bound
        BY DEF Bound
  <2> HIDE DEF Bound
  <2>2. \A r \in Requests : reqs'[r].st # "idle" => [gen |-> reqs'[r].gen, host |-> reqs'[r].host] \in Bound
    <3> SUFFICES ASSUME NEW r \in Requests, reqs'[r].st # "idle"
                 PROVE  [gen |-> reqs'[r].gen, host |-> reqs'[r].host] \in Bound
        OBVIOUS
    <3>1. reqs[r].st # "idle" /\ reqs'[r].gen = reqs[r].gen /\ reqs'[r].host = reqs[r].host
          BY <1>5
    <3> QED BY <2>1, <3>1
  <2>3. \A r \in Requests : reqs[r].st = "rejoining" => reqs'[r].st = "rejoining" /\ reqs'[r].gen = reqs[r].gen
        BY <1>5
  <2> QED BY <2>2, <2>3 DEF ReqsKept
<1> QED BY <1>2, <1>3, <1>4, <1>6, AttemptsKept

(* What was bound before a socket was lost. *)
LEMMA LostKeeps ==
  ASSUME SessionTypes, SocketsInv, NEW s \in V!Sockets, Lost(s)
  PROVE  ReqsKept
<1>1. \A r \in Requests : reqs[r].st # "idle" => [gen |-> reqs[r].gen, host |-> reqs[r].host] \in Bound
      BY DEF Bound
<1>2. \A r \in V!Range(socks[s].pending) : reqs[r].st \in {"waiting", "again"}
      BY PendingRequests DEF SocketsInv
<1> HIDE DEF Bound
<1>3. \A r \in Requests : reqs'[r].st # "idle" => [gen |-> reqs'[r].gen, host |-> reqs'[r].host] \in Bound
  <2> SUFFICES ASSUME NEW r \in Requests, reqs'[r].st # "idle"
               PROVE  [gen |-> reqs'[r].gen, host |-> reqs'[r].host] \in Bound
      OBVIOUS
  <2>1. reqs[r].st # "idle" /\ reqs'[r].gen = reqs[r].gen /\ reqs'[r].host = reqs[r].host
        BY <1>2 DEF Lost
  <2> QED BY <1>1, <2>1
<1>4. \A r \in Requests : reqs[r].st = "rejoining" => reqs'[r].st = "rejoining" /\ reqs'[r].gen = reqs[r].gen
      BY <1>2 DEF Lost
<1> QED BY <1>3, <1>4 DEF ReqsKept

(* A socket that is given up. *)
LEMMA DropKeeps ==
  ASSUME SessionTypes, NEW s \in V!Sockets, NEW x \in {"closing", "closed"},
         socks' = [socks EXCEPT ![s].st = x, ![s].pending = <<>>, ![s].armed = FALSE]
  PROVE  SocksKept
<1>1. /\ \A z \in V!Sockets : z # s => socks'[z] = socks[z]
      /\ socks'[s].st = x /\ socks'[s].pending = <<>> /\ socks'[s].host = socks[s].host
      /\ socks'[s].out = socks[s].out /\ socks'[s].back = socks[s].back
      /\ socks'[s].shut = socks[s].shut
      BY Zenon, DropTypes
<1> QED BY <1>1 DEF SocksKept, Untouched

(* A timeout leaves the attempts alone. *)
LEMMA TimeoutKeeps ==
  ASSUME SessionTypes, SocketsInv, AttemptsInv, NEW s \in V!Sockets, V!TimeoutFront(s)
  PROVE  AttemptsInv'
<1>1. UNCHANGED <<gen, client, context, tries, shared>>
      BY DEF V!TimeoutFront
<1>2. SocksKept
  <2>1. socks' = [socks EXCEPT ![s].st = "closing", ![s].pending = <<>>, ![s].armed = FALSE]
        BY DEF V!TimeoutFront, V!Destroyed
  <2> QED BY Zenon, <2>1, DropKeeps
<1>3. ReqsKept
      BY TimeoutLoses, LostKeeps
<1>4. ClientKept
      BY <1>1 DEF ClientKept
<1> QED BY <1>1, <1>2, <1>3, <1>4, AttemptsKept

(* A request is bound to the selection of the session. *)
LEMMA BindKeeps ==
  ASSUME SessionTypes, AttemptsInv, NEW r \in Requests, V!Bind(r)
  PROVE  AttemptsInv'
<1>1. UNCHANGED <<gen, client, context, tries, shared, socks>> /\ reqs[r].st = "idle"
      BY DEF V!Bind
<1>2. ClientKept /\ SocksKept
      BY <1>1 DEF ClientKept, SocksKept
<1>3. PICK c \in context : reqs' = [reqs EXCEPT ![r].st = "bound", ![r].host = c.host, ![r].gen = c.gen]
      BY Zenon DEF V!Bind
<1>4. PICK k \in RequestStates : k = reqs[r]
      BY DEF SessionTypes
<1> DEFINE n == [k EXCEPT !.st = "bound", !.host = c.host, !.gen = c.gen]
<1>5. reqs' = [reqs EXCEPT ![r] = n] /\ reqs \in [Requests -> RequestStates]
      BY <1>3, <1>4 DEF SessionTypes
<1>6. n.st = "bound" /\ n.host = c.host /\ n.gen = c.gen
      BY DEF RequestStates
<1> HIDE DEF n
<1>7. \A o \in Requests : o # r => reqs'[o] = reqs[o]
      BY <1>5
<1>8. reqs'[r].host = c.host /\ reqs'[r].gen = c.gen
      BY <1>5, <1>6
<1>9. ReqsKept
  <2>1. /\ \A o \in Requests : reqs[o].st # "idle" => [gen |-> reqs[o].gen, host |-> reqs[o].host] \in Bound
        /\ [gen |-> c.gen, host |-> c.host] \in Bound
        BY DEF Bound
  <2> HIDE DEF Bound
  <2>2. \A o \in Requests : reqs'[o].st # "idle" => [gen |-> reqs'[o].gen, host |-> reqs'[o].host] \in Bound
        BY <1>7, <1>8, <2>1
  <2>3. \A o \in Requests : reqs[o].st = "rejoining" => reqs'[o].st = "rejoining" /\ reqs'[o].gen = reqs[o].gen
        BY <1>1, <1>7
  <2> QED BY <2>2, <2>3 DEF ReqsKept
<1> QED BY <1>1, <1>2, <1>9, AttemptsKept

(* An attempt that is joined keeps all but those who wait for it. *)
LEMMA JoinedTry ==
  ASSUME NEW t \in Tries, NEW who \in SUBSET (Requests \cup {Home}), NEW u, u = [t EXCEPT !.waits = @ \cup who]
  PROVE  Same(u, t) /\ u.sock = t.sock /\ u.waits = t.waits \cup who /\ u.off = t.off /\ u.left = t.left
BY DEF Tries, Same

(* What reconnecting a selection that is the current one does to the attempts. *)
Reconnected(c, who) ==
  \/ tries' = tries /\ shared' = shared
  \/ \E t \in tries : \E u \in Tries :
       /\ tries' = (tries \ {t}) \cup {u} /\ shared' = shared
       /\ Same(u, t) /\ u.sock = t.sock /\ u.waits = t.waits \cup who
       /\ t.kind = "reconnect" /\ t.gen = c.gen
  \/ \E u \in Tries :
       /\ tries' = tries \cup {u} /\ shared' = {c.gen} /\ shared # {c.gen}
       /\ u.kind = "reconnect" /\ u.host = c.host /\ u.gen = c.gen /\ u.origin = {c}
       /\ u.sock = V!NoSocket /\ u.waits = who

(* Either an attempt under way is joined, or a new one is begun. *)
LEMMA ReconnectCases ==
  ASSUME SessionTypes, AttemptsInv, NEW c \in Contexts, NEW who \in SUBSET (Requests \cup {Home}),
         V!Reconnect(c, who)
  PROVE  Reconnected(c, who)
<1> DEFINE joined == {t \in tries : t.kind = "reconnect" /\ t.gen = c.gen}
<1>1. CASE shared = {c.gen}
  <2>1. tries' = (tries \ joined) \cup {[t EXCEPT !.waits = @ \cup who] : t \in joined} /\ shared' = shared
        BY <1>1 DEF V!Reconnect
  <2>2. \A t, u \in joined : t = u
        BY DEF AttemptsInv, TriesApart
  <2>3. CASE joined = {}
    <3>1. tries' = tries
          BY <2>1, <2>3
    <3> QED BY <2>1, <3>1 DEF Reconnected
  <2>4. CASE joined # {}
    <3>1. PICK t \in joined : TRUE
          BY <2>4
    <3>2. joined = {t}
          BY <2>2, <3>1
    <3>3. t \in tries /\ t.kind = "reconnect" /\ t.gen = c.gen /\ t \in Tries
          BY <3>1 DEF SessionTypes
    <3> HIDE DEF joined
    <3> DEFINE u == [t EXCEPT !.waits = @ \cup who]
    <3>4. tries' = (tries \ {t}) \cup {u}
          BY <2>1, <3>2
    <3>5. u \in Tries
          BY Zenon, <3>3, TryWith
    <3>6. Same(u, t) /\ u.sock = t.sock /\ u.waits = t.waits \cup who
          BY <3>3, JoinedTry
    <3> HIDE DEF u
    <3> QED BY <2>1, <3>3, <3>4, <3>5, <3>6 DEF Reconnected
  <2> QED BY <2>3, <2>4
<1>2. CASE shared # {c.gen}
  <2> DEFINE u == [kind |-> "reconnect", host |-> c.host, gen |-> c.gen, origin |-> {c},
                   sock |-> V!NoSocket, left |-> 0, off |-> FALSE, waits |-> who]
  <2>1. tries' = tries \cup {u} /\ shared' = {c.gen}
        BY <1>2 DEF V!Reconnect
  <2>2. c.host \in Hosts /\ c.gen \in Nat
        BY DEF Contexts
  <2>3. u \in Tries
        BY <2>2 DEF Tries
  <2>4. /\ u.kind = "reconnect" /\ u.host = c.host /\ u.gen = c.gen /\ u.origin = {c}
        /\ u.sock = V!NoSocket /\ u.waits = who
        OBVIOUS
  <2> HIDE DEF u
  <2> QED BY <1>2, <2>1, <2>3, <2>4 DEF Reconnected
<1> QED BY <1>1, <1>2

(* The attempts stay apart and of their kinds, and who waits waits for its own selection. *)
LEMMA ReconnectedKeeps ==
  ASSUME SessionTypes, AttemptsInv, NEW c \in context, NEW who \in SUBSET (Requests \cup {Home}),
         V!Current(c), gen' = gen, Reconnected(c, who),
         \A r \in who \cap Requests : reqs'[r].st = "rejoining" /\ reqs'[r].gen = c.gen,
         \A r \in Requests : reqs[r].st = "rejoining" => reqs'[r].st = "rejoining" /\ reqs'[r].gen = reqs[r].gen
  PROVE  /\ TriesApart' /\ TryKinds' /\ WaitInv'
         /\ \A u \in tries' : u.sock # V!NoSocket => \E t \in tries : u.sock = t.sock /\ u.host = t.host
         /\ \A u \in tries' : [gen |-> u.gen, host |-> u.host] \in Bound
<1>0. /\ \A t \in tries : [gen |-> t.gen, host |-> t.host] \in Bound
      /\ [gen |-> c.gen, host |-> c.host] \in Bound
      BY DEF Bound
<1>a. \A t \in tries : \A r \in t.waits \cap Requests : reqs'[r].st = "rejoining" /\ reqs'[r].gen = t.gen
  <2>1. \A t \in tries : \A r \in t.waits \cap Requests : reqs[r].st = "rejoining" /\ reqs[r].gen = t.gen
        BY DEF AttemptsInv, WaitInv
  <2> QED BY <2>1
<1>b. c \in Contexts /\ c.gen = gen
      BY DEF SessionTypes, V!Current
<1> HIDE DEF Bound
<1>1. CASE tries' = tries /\ shared' = shared
  <2>1. TriesApart'
        BY <1>1 DEF AttemptsInv, TriesApart
  <2>2. TryKinds'
        BY <1>1 DEF AttemptsInv, TryKinds
  <2>3. WaitInv'
        BY <1>1, <1>a DEF WaitInv
  <2> QED BY <1>0, <1>1, <2>1, <2>2, <2>3
<1>2. CASE \E t \in tries : \E u \in Tries :
             /\ tries' = (tries \ {t}) \cup {u} /\ shared' = shared
             /\ Same(u, t) /\ u.sock = t.sock /\ u.waits = t.waits \cup who
             /\ t.kind = "reconnect" /\ t.gen = c.gen
  <2>1. PICK t \in tries, u \in Tries :
             /\ tries' = (tries \ {t}) \cup {u} /\ shared' = shared
             /\ Same(u, t) /\ u.sock = t.sock /\ u.waits = t.waits \cup who
             /\ t.kind = "reconnect" /\ t.gen = c.gen
        BY <1>2
  <2>2. TriesApart'
    <3> DEFINE N == {u}
    <3>1. /\ tries' = (tries \ {t}) \cup N
          /\ \A x \in N : Same(x, t) /\ (x.sock \in {V!NoSocket, t.sock} \/ \A v \in tries : v.sock # x.sock)
          /\ \A x, v \in N : x = v
          BY <2>1
    <3> HIDE DEF N
    <3> QED BY <3>1, ApartStays
  <2>3. TryKinds'
    <3>1. \A v \in tries : Same(v, v)
          BY DEF Same
    <3>2. u.kind = "reconnect"
          BY <2>1 DEF Same
    <3>3. \A v \in tries' : \E x \in tries :
            /\ Same(v, x) /\ (v.kind = "connect" => v.waits = x.waits)
            /\ \/ gen' = gen + 1
               \/ gen' = gen /\ (v.kind = "reconnect" /\ v.gen = gen => shared' = shared)
          BY <2>1, <3>1, <3>2
    <3> QED BY <3>3, KindsStay
  <2>4. WaitInv'
    <3>1. ASSUME NEW v \in tries', NEW r \in v.waits \cap Requests
          PROVE  reqs'[r].st = "rejoining" /\ reqs'[r].gen = v.gen
      <4>1. CASE v \in tries
            BY <1>a, <3>1, <4>1
      <4>2. CASE v = u
        <5>1. v.gen = t.gen /\ v.waits = t.waits \cup who
              BY <2>1, <4>2 DEF Same
        <5> QED BY <1>a, <2>1, <3>1, <5>1
      <4> QED BY <2>1, <4>1, <4>2
    <3> QED BY <3>1 DEF WaitInv
  <2>5. u.host = t.host /\ u.gen = t.gen
        BY <2>1 DEF Same
  <2> QED BY <1>0, <2>1, <2>2, <2>3, <2>4, <2>5
<1>3. CASE \E u \in Tries :
             /\ tries' = tries \cup {u} /\ shared' = {c.gen} /\ shared # {c.gen}
             /\ u.kind = "reconnect" /\ u.host = c.host /\ u.gen = c.gen /\ u.origin = {c}
             /\ u.sock = V!NoSocket /\ u.waits = who
  <2>1. PICK u \in Tries :
             /\ tries' = tries \cup {u} /\ shared' = {c.gen} /\ shared # {c.gen}
             /\ u.kind = "reconnect" /\ u.host = c.host /\ u.gen = c.gen /\ u.origin = {c}
             /\ u.sock = V!NoSocket /\ u.waits = who
        BY <1>3
  <2>2. \A t \in tries : t.kind = "reconnect" => t.gen # c.gen
        BY <1>b, <2>1 DEF AttemptsInv, TryKinds
  <2>3. TriesApart'
    <3>1. \A x, y \in tries : \/ x = y
                              \/ /\ x.sock # V!NoSocket => x.sock # y.sock
                                 /\ x.kind = "reconnect" /\ y.kind = "reconnect" => x.gen # y.gen
          BY DEF AttemptsInv, TriesApart
    <3>2. \A x \in tries : /\ x.sock # V!NoSocket => x.sock # u.sock
                           /\ x.kind = "reconnect" => x.gen # u.gen
          BY <2>1, <2>2
    <3> QED BY <2>1, <3>1, <3>2 DEF TriesApart
  <2>4. TryKinds'
    <3>1. ASSUME NEW v \in tries
          PROVE  /\ v.kind = "connect" => v.waits = {} /\ v.origin = {}
                 /\ v.kind = "reconnect" => \E d \in Contexts : v.origin = {d} /\ d.gen = v.gen
                 /\ v.kind = "reconnect" /\ v.gen = gen' => shared' = {gen'}
          BY <1>b, <2>1, <2>2 DEF AttemptsInv, TryKinds
    <3>2. /\ u.kind = "connect" => u.waits = {} /\ u.origin = {}
          /\ u.kind = "reconnect" => \E d \in Contexts : u.origin = {d} /\ d.gen = u.gen
          /\ u.kind = "reconnect" /\ u.gen = gen' => shared' = {gen'}
          BY <1>b, <2>1
    <3> QED BY <2>1, <3>1, <3>2 DEF TryKinds
  <2>5. WaitInv'
    <3>1. ASSUME NEW v \in tries', NEW r \in v.waits \cap Requests
          PROVE  reqs'[r].st = "rejoining" /\ reqs'[r].gen = v.gen
          BY <1>a, <2>1, <3>1
    <3> QED BY <3>1 DEF WaitInv
  <2>6. [gen |-> u.gen, host |-> u.host] \in Bound
        BY <1>0, <2>1
  <2> QED BY <1>0, <2>1, <2>3, <2>4, <2>5, <2>6
<1> QED BY <1>1, <1>2, <1>3 DEF Reconnected

(* A reconnection keeps the attempts and the session in step. *)
LEMMA ReconnectKeeps ==
  ASSUME SessionTypes, AttemptsInv, NEW c \in context, NEW who \in SUBSET (Requests \cup {Home}),
         V!Current(c), gen' = gen, V!Reconnect(c, who), ClientKept, SocksKept, ReqsKept,
         \A r \in who \cap Requests : reqs'[r].st = "rejoining" /\ reqs'[r].gen = c.gen
  PROVE  AttemptsInv'
<1>1. c \in Contexts
      BY DEF SessionTypes
<1>2. Reconnected(c, who)
      BY <1>1, ReconnectCases
<1>3. /\ TriesApart' /\ TryKinds' /\ WaitInv'
      /\ \A u \in tries' : u.sock # V!NoSocket => \E t \in tries : u.sock = t.sock /\ u.host = t.host
      /\ \A u \in tries' : [gen |-> u.gen, host |-> u.host] \in Bound
      BY <1>2, ReconnectedKeeps DEF ReqsKept
<1>4. ClientInv' /\ TrySocks'
      BY <1>3, ClientStays, TrySocksStay DEF AttemptsInv
<1>5. BoundInv'
  <2>1. BoundKept
        BY <1>3 DEF BoundKept, ReqsKept
  <2> QED BY <2>1, BoundStays DEF AttemptsInv, ClientKept
<1> QED BY <1>3, <1>4, <1>5 DEF AttemptsInv

(* The home screen asks for its session back. *)
LEMMA AutoReconnectKeeps ==
  ASSUME SessionTypes, AttemptsInv, NEW c \in context, V!AutoReconnect(c)
  PROVE  AttemptsInv'
<1>1. /\ V!Current(c) /\ V!Reconnect(c, {Home})
      /\ UNCHANGED <<gen, client, context, socks, reqs>>
      BY DEF V!AutoReconnect
<1>2. ClientKept /\ SocksKept
      BY <1>1 DEF ClientKept, SocksKept
<1>3. ReqsKept
      BY <1>1 DEF ReqsKept, Bound
<1>4. {Home} \in SUBSET (Requests \cup {Home}) /\ \A r \in {Home} \cap Requests : FALSE
      BY DEF SessionTypes
<1>5. gen' = gen /\ \A r \in {Home} \cap Requests : reqs'[r].st = "rejoining" /\ reqs'[r].gen = c.gen
      BY <1>1, <1>4
<1> QED BY <1>1, <1>2, <1>3, <1>4, <1>5, ReconnectKeeps

(* A request is asked. *)
LEMMA AskKeeps ==
  ASSUME SessionTypes, AttemptsInv, NEW r \in Requests, V!Ask(r)
  PROVE  AttemptsInv'
<1>1. PICK k \in RequestStates : k = reqs[r]
      BY DEF SessionTypes
<1>2. PICK c \in context :
          /\ V!MayAsk(r, c)
          /\ \/ /\ reqs' = [reqs EXCEPT ![r].st = "waiting", ![r].origin = {c}]
                /\ socks' = [socks EXCEPT ![c.sock].pending = Append(@, r), ![c.sock].out = Append(@, r),
                                          ![c.sock].armed = TRUE]
                /\ UNCHANGED <<tries, shared>>
             \/ /\ reqs' = [reqs EXCEPT ![r].st = "rejoining", ![r].origin = {c}]
                /\ V!Reconnect(c, {r}) /\ socks' = socks
             \/ /\ reqs' = [reqs EXCEPT ![r].st = "ambiguous", ![r].origin = {c}]
                /\ UNCHANGED <<tries, shared, socks>>
      BY Zenon DEF V!Ask
<1>3. reqs[r].st = "bound" /\ UNCHANGED <<gen, client, context>> /\ V!Current(c) /\ reqs[r].gen = c.gen
      BY <1>2 DEF V!Ask, V!MayAsk
<1>4. ClientKept
      BY <1>3 DEF ClientKept
<1>5. PICK x \in {"waiting", "rejoining", "ambiguous"} :
         /\ reqs' = [reqs EXCEPT ![r].st = x, ![r].origin = {c}]
         /\ x = "rejoining" => V!Reconnect(c, {r})
         /\ x # "rejoining" => UNCHANGED <<tries, shared>>
         /\ \/ socks' = socks
            \/ socks' = [socks EXCEPT ![c.sock].pending = Append(@, r), ![c.sock].out = Append(@, r),
                                      ![c.sock].armed = TRUE]
  <2>1. CASE /\ reqs' = [reqs EXCEPT ![r].st = "waiting", ![r].origin = {c}]
             /\ socks' = [socks EXCEPT ![c.sock].pending = Append(@, r), ![c.sock].out = Append(@, r),
                                       ![c.sock].armed = TRUE]
             /\ UNCHANGED <<tries, shared>>
        BY <2>1
  <2>2. CASE /\ reqs' = [reqs EXCEPT ![r].st = "rejoining", ![r].origin = {c}]
             /\ V!Reconnect(c, {r}) /\ socks' = socks
        BY <2>2
  <2>3. CASE /\ reqs' = [reqs EXCEPT ![r].st = "ambiguous", ![r].origin = {c}]
             /\ UNCHANGED <<tries, shared, socks>>
        BY <2>3
  <2> QED BY <1>2, <2>1, <2>2, <2>3
<1> DEFINE n == [k EXCEPT !.st = x, !.origin = {c}]
<1>6. reqs' = [reqs EXCEPT ![r] = n] /\ reqs \in [Requests -> RequestStates]
      BY <1>1, <1>5 DEF SessionTypes
<1>7. n.st = x /\ n.host = k.host /\ n.gen = k.gen
      BY DEF RequestStates
<1> HIDE DEF n
<1>8. /\ \A o \in Requests : o # r => reqs'[o] = reqs[o]
      /\ reqs'[r].st = x /\ reqs'[r].host = reqs[r].host /\ reqs'[r].gen = reqs[r].gen
      BY <1>1, <1>6, <1>7
<1>9. ReqsKept
  <2>1. \A o \in Requests : reqs[o].st # "idle" => [gen |-> reqs[o].gen, host |-> reqs[o].host] \in Bound
        BY DEF Bound
  <2> HIDE DEF Bound
  <2>2. \A o \in Requests : reqs'[o].st # "idle" => [gen |-> reqs'[o].gen, host |-> reqs'[o].host] \in Bound
    <3> SUFFICES ASSUME NEW o \in Requests, reqs'[o].st # "idle"
                 PROVE  [gen |-> reqs'[o].gen, host |-> reqs'[o].host] \in Bound
        OBVIOUS
    <3>1. reqs[o].st # "idle" /\ reqs'[o].gen = reqs[o].gen /\ reqs'[o].host = reqs[o].host
          BY <1>3, <1>8
    <3> QED BY <2>1, <3>1
  <2>3. \A o \in Requests : reqs[o].st = "rejoining" => reqs'[o].st = "rejoining" /\ reqs'[o].gen = reqs[o].gen
        BY <1>3, <1>8
  <2> QED BY <2>2, <2>3 DEF ReqsKept
<1>10. SocksKept
  <2>1. CASE socks' = socks
        BY <2>1 DEF SocksKept
  <2>2. CASE socks' = [socks EXCEPT ![c.sock].pending = Append(@, r), ![c.sock].out = Append(@, r),
                                    ![c.sock].armed = TRUE]
    <3>1. PICK s \in V!Sockets : s = c.sock
          BY DEF SessionTypes, Contexts
    <3>2. socks' = [socks EXCEPT ![s].pending = Append(@, r), ![s].out = Append(@, r), ![s].armed = TRUE]
          BY <2>2, <3>1
    <3>3. /\ \A z \in V!Sockets : z # s => socks'[z] = socks[z]
          /\ socks'[s].st = socks[s].st /\ socks'[s].host = socks[s].host
          BY Zenon, <3>2, AskSocks
    <3>4. ~\A d \in context : d.sock # s
          BY <3>1
    <3> QED BY <3>3, <3>4 DEF SocksKept
  <2> QED BY <1>5, <2>1, <2>2
<1>11. CASE x = "rejoining"
  <2>1. V!Reconnect(c, {r}) /\ {r} \in SUBSET (Requests \cup {Home})
        BY <1>5, <1>11
  <2>2. \A o \in {r} \cap Requests : reqs'[o].st = "rejoining" /\ reqs'[o].gen = c.gen
        BY <1>3, <1>8, <1>11
  <2>3. gen' = gen
        BY <1>3
  <2> QED BY <1>3, <1>4, <1>9, <1>10, <2>1, <2>2, <2>3, ReconnectKeeps
<1>12. CASE x # "rejoining"
  <2>1. tries' = tries /\ shared' = shared /\ gen' = gen
        BY <1>3, <1>5, <1>12
  <2> QED BY <1>4, <1>9, <1>10, <2>1, AttemptsKept
<1> QED BY <1>11, <1>12

(* A connection is lost: the reads on it are asked again over another one. *)
LEMMA LossKeeps ==
  ASSUME SessionTypes, SocketsInv, AttemptsInv, NEW s \in V!Sockets, V!Fails(s) \/ V!Closes(s)
  PROVE  AttemptsInv'
<1> DEFINE lost == V!Range(socks[s].pending)
           repeated == V!Repeats(lost)
           origin == UNION {reqs[r].origin : r \in repeated}
<1>1. V!Interrupted(lost) /\ gen' = gen /\ context' = context /\ client' \in {client, V!NoSocket}
      BY DEF V!Fails, V!Closes
<1>2. SocksKept
  <2>1. CASE socks' = [socks EXCEPT ![s].st = "closing", ![s].pending = <<>>, ![s].armed = FALSE]
        BY Zenon, <2>1, DropKeeps
  <2>2. CASE socks' = [socks EXCEPT ![s].st = "closed", ![s].pending = <<>>, ![s].armed = FALSE]
        BY Zenon, <2>2, DropKeeps
  <2> QED BY <2>1, <2>2 DEF V!Fails, V!Closes
<1>3. ReqsKept
      BY <1>1, InterruptedLoses, LostKeeps
<1>4. ClientKept
      BY <1>1 DEF ClientKept
<1>5. CASE repeated # {} /\ \A c \in origin : V!Current(c)
  <2>1. /\ reqs' = [r \in Requests |-> IF r \in repeated THEN [reqs[r] EXCEPT !.st = "rejoining"]
                                       ELSE reqs'[r]]
        /\ \A c \in origin : V!Reconnect(c, repeated)
        BY <1>1, <1>5 DEF V!Interrupted
  <2>2. \A r \in repeated : r \in Requests /\ \E c \in Contexts : reqs[r].origin = {c} /\ c.gen = reqs[r].gen
        BY PendingRequests DEF SocketsInv, V!Repeats
  <2>3. PICK p \in repeated : TRUE
        BY <1>5
  <2>4. PICK c \in Contexts : reqs[p].origin = {c}
        BY <2>2, <2>3
  <2>5. c \in origin
        BY <2>3, <2>4
  <2>6. V!Current(c) /\ V!Reconnect(c, repeated) /\ context = {c}
        BY <1>5, <2>1, <2>5 DEF V!Current
  <2>7. \A r \in repeated : reqs[r].gen = c.gen
    <3> SUFFICES ASSUME NEW r \in repeated PROVE reqs[r].gen = c.gen
        OBVIOUS
    <3>1. PICK d \in Contexts : reqs[r].origin = {d} /\ d.gen = reqs[r].gen
          BY <2>2
    <3>2. d \in origin
          BY <3>1
    <3>3. context = {d}
          BY <1>5, <3>2 DEF V!Current
    <3> QED BY <2>6, <3>1, <3>3
  <2>8. repeated \in SUBSET (Requests \cup {Home})
        BY <2>2
  <2> HIDE DEF repeated, origin
  <2>9. \A r \in repeated \cap Requests : reqs'[r].st = "rejoining" /\ reqs'[r].gen = c.gen
    <3> SUFFICES ASSUME NEW r \in repeated, r \in Requests PROVE reqs'[r].st = "rejoining" /\ reqs'[r].gen = c.gen
        OBVIOUS
    <3>1. reqs'[r] = [reqs[r] EXCEPT !.st = "rejoining"]
          BY <2>1
    <3>2. [reqs[r] EXCEPT !.st = "rejoining"].st = "rejoining" /\ [reqs[r] EXCEPT !.st = "rejoining"].gen = reqs[r].gen
      <4>1. reqs[r] \in RequestStates /\ "rejoining" \in Statuses
            BY DEF SessionTypes, Statuses
      <4> QED BY <4>1, RequestWith
    <3> QED BY <2>7, <3>1, <3>2
  <2>10. c \in context /\ gen' = gen
        BY <1>1, <2>6
  <2> QED BY <1>2, <1>3, <1>4, <2>6, <2>8, <2>9, <2>10, ReconnectKeeps
<1>6. CASE ~(repeated # {} /\ \A c \in origin : V!Current(c))
  <2>1. tries' = tries /\ shared' = shared
        BY <1>1, <1>6 DEF V!Interrupted
  <2> QED BY <1>1, <1>2, <1>3, <1>4, <2>1, AttemptsKept
<1> QED BY <1>5, <1>6

(* Nobody waits for two attempts. *)
LEMMA WaitsApart ==
  ASSUME SessionTypes, AttemptsInv, NEW t \in tries, NEW u \in tries, u # t
  PROVE  \A r \in u.waits \cap Requests : r \notin t.waits
<1> SUFFICES ASSUME NEW r \in u.waits \cap Requests, r \in t.waits PROVE FALSE
    OBVIOUS
<1>1. t.gen = u.gen
      BY DEF AttemptsInv, WaitInv
<1>2. t.kind = "reconnect" /\ u.kind = "reconnect"
  <2>1. t.kind # "connect" /\ u.kind # "connect"
        BY DEF AttemptsInv, TryKinds
  <2> QED BY <2>1 DEF SessionTypes, Tries
<1> QED BY <1>1, <1>2 DEF AttemptsInv, TriesApart

(* The attempt that others may join is not the one that ends. *)
LEMMA SharedApart ==
  ASSUME SessionTypes, AttemptsInv, NEW t \in tries, NEW u \in tries, u # t,
         u.kind = "reconnect", u.gen = gen
  PROVE  t.kind = "reconnect" => shared \ {t.gen} = shared
<1>1. shared = {gen}
      BY DEF AttemptsInv, TryKinds
<1>2. t.kind = "reconnect" => t.gen # gen
      BY DEF AttemptsInv, TriesApart
<1> QED BY <1>1, <1>2

(* A selection starts an attempt of its own. *)
LEMMA SelectKeeps ==
  ASSUME SessionTypes, AttemptsInv, NEW h \in Hosts, V!Select(h)
  PROVE  AttemptsInv'
<1> DEFINE n == [kind |-> "connect", host |-> h, gen |-> gen + 1, origin |-> {},
                 sock |-> V!NoSocket, left |-> Retries, off |-> FALSE, waits |-> {}]
<1>1. /\ gen' = gen + 1 /\ tries' = tries \cup {n}
      /\ UNCHANGED <<client, context, shared, socks, reqs>>
      BY DEF V!Select
<1>2. /\ n.kind = "connect" /\ n.host = h /\ n.gen = gen + 1 /\ n.origin = {}
      /\ n.sock = V!NoSocket /\ n.waits = {}
      OBVIOUS
<1> HIDE DEF n
<1>3. gen \in Nat /\ \A t \in tries : t.gen \in Nat /\ t.gen <= gen
      BY SameSelection DEF SessionTypes, Tries, AttemptsInv
<1>4. ClientInv'
      BY <1>1 DEF AttemptsInv, ClientInv
<1>5. BoundInv'
  <2> DEFINE b == [gen |-> n.gen, host |-> n.host]
  <2>1. Bound' = Bound \cup {b}
        BY <1>1 DEF Bound
  <2>2. b.gen = gen + 1
        BY <1>2
  <2> HIDE DEF b
  <2>3. \A d \in Bound : d.gen \in Nat
    <3>1. /\ \A c \in context : c.gen \in Nat
          /\ \A t \in tries : t.gen \in Nat
          /\ \A r \in Requests : reqs[r].gen \in Nat
          BY DEF SessionTypes, Contexts, Tries, RequestStates
    <3> QED BY <3>1 DEF Bound
  <2>4. \A d \in Bound : d.gen <= gen
        BY DEF AttemptsInv, BoundInv
  <2>5. \A d \in Bound : d.gen <= gen + 1 /\ d.gen # gen + 1
    <3> SUFFICES ASSUME NEW d \in Bound PROVE d.gen <= gen + 1 /\ d.gen # gen + 1
        OBVIOUS
    <3>1. PICK g \in Nat : g = d.gen
          BY <2>3
    <3>2. g <= gen
          BY <2>4, <3>1
    <3>3. g <= gen + 1 /\ g # gen + 1
          BY <1>3, <3>2
    <3> QED BY <3>1, <3>3
  <2>6. gen + 1 <= gen + 1
        BY <1>3
  <2>7. \A d \in Bound' : d.gen <= gen'
        BY <1>1, <2>1, <2>2, <2>5, <2>6
  <2>8. \A d, e \in Bound' : d.gen = e.gen => d.host = e.host
    <3>1. \A d, e \in Bound : d.gen = e.gen => d.host = e.host
          BY DEF AttemptsInv, BoundInv
    <3> HIDE DEF Bound
    <3> QED BY <2>1, <2>2, <2>5, <3>1
  <2> QED BY <2>7, <2>8 DEF BoundInv
<1>6. TrySocks'
      BY <1>1, <1>2 DEF AttemptsInv, TrySocks
<1>7. TriesApart'
  <2>1. \A x, y \in tries : \/ x = y
                            \/ /\ x.sock # V!NoSocket => x.sock # y.sock
                               /\ x.kind = "reconnect" /\ y.kind = "reconnect" => x.gen # y.gen
        BY DEF AttemptsInv, TriesApart
  <2> QED BY <1>1, <1>2, <2>1 DEF TriesApart
<1>8. TryKinds'
  <2>1. ASSUME NEW v \in tries
        PROVE  /\ v.kind = "connect" => v.waits = {} /\ v.origin = {}
               /\ v.kind = "reconnect" => \E d \in Contexts : v.origin = {d} /\ d.gen = v.gen
               /\ v.gen # gen'
    <3>1. v.gen # gen + 1
          BY <1>3
    <3> QED BY <1>1, <3>1 DEF AttemptsInv, TryKinds
  <2> QED BY <1>1, <1>2, <2>1 DEF TryKinds
<1>9. WaitInv'
      BY <1>1, <1>2 DEF AttemptsInv, WaitInv
<1> QED BY <1>4, <1>5, <1>6, <1>7, <1>8, <1>9 DEF AttemptsInv

(* The screen of an attempt is left. *)
LEMMA LeaveKeeps ==
  ASSUME SessionTypes, AttemptsInv, NEW t \in tries, V!LeaveScreen(t)
  PROVE  AttemptsInv'
<1> DEFINE n == [t EXCEPT !.off = TRUE]
<1>1. /\ tries' = (tries \ {t}) \cup {n}
      /\ UNCHANGED <<gen, client, context, shared, socks, reqs>>
      BY DEF V!LeaveScreen
<1>2. Same(n, t) /\ n.sock = t.sock /\ n.waits = t.waits
      BY DEF SessionTypes, Tries, Same
<1> HIDE DEF n
<1>3. ClientKept /\ SocksKept
      BY <1>1 DEF ClientKept, SocksKept
<1>4. n.host = t.host /\ n.gen = t.gen
      BY <1>2 DEF Same
<1>5. ClientInv' /\ TrySocks'
  <2>1. \A u \in tries' : u.sock # V!NoSocket => \E x \in tries : u.sock = x.sock /\ u.host = x.host
        BY <1>1, <1>2, <1>4
  <2> QED BY <1>3, <2>1, ClientStays, TrySocksStay DEF AttemptsInv
<1>6. BoundInv'
  <2>1. /\ \A x \in tries : [gen |-> x.gen, host |-> x.host] \in Bound
        /\ \A r \in Requests : reqs[r].st # "idle" => [gen |-> reqs[r].gen, host |-> reqs[r].host] \in Bound
        BY DEF Bound
  <2> HIDE DEF Bound
  <2>2. BoundKept
        BY <1>1, <1>4, <2>1 DEF BoundKept
  <2> QED BY <1>1, <2>2, BoundStays DEF AttemptsInv
<1>7. TriesApart'
  <2> DEFINE N == {n}
  <2>1. /\ tries' = (tries \ {t}) \cup N
        /\ \A x \in N : Same(x, t) /\ (x.sock \in {V!NoSocket, t.sock} \/ \A v \in tries : v.sock # x.sock)
        /\ \A x, v \in N : x = v
        BY <1>1, <1>2
  <2> HIDE DEF N
  <2> QED BY <2>1, ApartStays
<1>8. TryKinds' /\ WaitInv'
  <2>1. \A v \in tries : Same(v, v)
        BY DEF Same
  <2>2. \A v \in tries' : \E x \in tries :
            /\ Same(v, x) /\ (v.kind = "connect" => v.waits = x.waits)
            /\ \/ gen' = gen + 1
               \/ gen' = gen /\ (v.kind = "reconnect" /\ v.gen = gen => shared' = shared)
        BY <1>1, <1>2, <2>1
  <2>3. \A u \in tries' : \E x \in tries : u.gen = x.gen /\ u.waits = x.waits /\
            \A r \in Requests : r \in x.waits => reqs'[r].st = reqs[r].st /\ reqs'[r].gen = reqs[r].gen
        BY <1>1, <1>2, <1>4
  <2> QED BY <2>2, <2>3, KindsStay, WaitsStay
<1> QED BY <1>5, <1>6, <1>7, <1>8 DEF AttemptsInv

(* An attempt ends without a connection. *)
LEMMA AbandonKeeps ==
  ASSUME SessionTypes, AttemptsInv, NEW t \in tries,
         NEW sk \in [V!Sockets -> SocketStates], Calm(sk, socks), V!Abandon(t, sk)
  PROVE  AttemptsInv'
<1> DEFINE n == [t EXCEPT !.sock = V!NoSocket, !.left = @ - 1]
           N == IF t.kind = "connect" /\ t.left > 0 /\ ~V!Aborted(t) THEN {n} ELSE {}
<1>1. /\ tries' = (tries \ {t}) \cup N
      /\ reqs' = V!Settled(t.waits, "failed")
      /\ \/ V!Disconnected(sk)
         \/ /\ socks' = sk /\ shared' = IF t.kind = "reconnect" THEN shared \ {t.gen} ELSE shared
            /\ UNCHANGED <<gen, client, context>>
      BY DEF V!Abandon
<1>2. /\ \A u \in N : Same(u, t) /\ u.sock = V!NoSocket /\ u.waits = t.waits /\ u.kind = "connect" /\ u.waits = {}
      /\ \A u, v \in N : u = v
  <2>1. Same(n, t) /\ n.sock = V!NoSocket /\ n.waits = t.waits
        BY DEF SessionTypes, Tries, Same
  <2>2. t.kind = "connect" => t.waits = {}
        BY DEF AttemptsInv, TryKinds
  <2> HIDE DEF n
  <2> QED BY <2>1, <2>2 DEF Same
<1> HIDE DEF N
<1>3. ClientKept
      BY <1>1 DEF ClientKept, V!Disconnected
<1>4. SocksKept
  <2>1. socks \in [V!Sockets -> SocketStates]
        BY DEF SessionTypes
  <2>2. Calm(V!Closed(sk, client), socks)
        BY <2>1, ClosedIsCalm
  <2>3. socks' = sk \/ socks' = V!Closed(sk, client)
        BY <1>1 DEF V!Disconnected
  <2>4. Calm(socks', socks)
        BY <2>2, <2>3
  <2> QED BY <2>4, CalmKeeps
<1>5. CalmReqs /\ \A r \in Requests : r \notin t.waits => reqs'[r] = reqs[r]
  <2>1. CalmReqs
        BY <1>1, SettledIsCalm
  <2>2. \A r \in Requests : r \notin t.waits => reqs'[r] = reqs[r]
        BY <1>1 DEF V!Settled
  <2> QED BY <2>1, <2>2
<1>6. ClientInv' /\ TrySocks'
  <2>1. \A u \in tries' : u.sock # V!NoSocket => \E x \in tries : u.sock = x.sock /\ u.host = x.host
        BY <1>1, <1>2
  <2> QED BY <1>3, <1>4, <2>1, ClientStays, TrySocksStay DEF AttemptsInv
<1>7. BoundInv'
  <2>1. /\ \A x \in tries : [gen |-> x.gen, host |-> x.host] \in Bound
        /\ \A r \in Requests : reqs[r].st # "idle" => [gen |-> reqs[r].gen, host |-> reqs[r].host] \in Bound
        BY DEF Bound
  <2> HIDE DEF Bound
  <2>2. \A u \in N : u.host = t.host /\ u.gen = t.gen
        BY <1>2 DEF Same
  <2>3. \A r \in Requests : reqs'[r].st # "idle" => [gen |-> reqs'[r].gen, host |-> reqs'[r].host] \in Bound
    <3> SUFFICES ASSUME NEW r \in Requests, reqs'[r].st # "idle"
                 PROVE  [gen |-> reqs'[r].gen, host |-> reqs'[r].host] \in Bound
        OBVIOUS
    <3>1. reqs[r].st # "idle" /\ reqs'[r].gen = reqs[r].gen /\ reqs'[r].host = reqs[r].host
          BY <1>5 DEF CalmReqs
    <3> QED BY <2>1, <3>1
  <2>4. BoundKept
        BY <1>1, <2>1, <2>2, <2>3 DEF BoundKept
  <2>5. gen' \in {gen, gen + 1}
        BY <1>1 DEF V!Disconnected
  <2> QED BY <1>3, <2>4, <2>5, BoundStays DEF AttemptsInv, ClientKept
<1>8. TriesApart'
  <2>1. \A u \in N : Same(u, t) /\ (u.sock \in {V!NoSocket, t.sock} \/ \A v \in tries : v.sock # u.sock)
        BY <1>2
  <2> QED BY <1>1, <1>2, <2>1, ApartStays
<1>9. TryKinds'
  <2>1. \A v \in tries : Same(v, v)
        BY DEF Same
  <2>2. CASE V!Disconnected(sk)
    <3>1. gen' = gen + 1
          BY <2>2 DEF V!Disconnected
    <3>2. \A v \in tries' : \E x \in tries :
            /\ Same(v, x) /\ (v.kind = "connect" => v.waits = x.waits)
            /\ \/ gen' = gen + 1
               \/ gen' = gen /\ (v.kind = "reconnect" /\ v.gen = gen => shared' = shared)
          BY <1>1, <1>2, <2>1, <3>1
    <3> QED BY <3>2, KindsStay
  <2>3. CASE /\ socks' = sk /\ shared' = IF t.kind = "reconnect" THEN shared \ {t.gen} ELSE shared
             /\ UNCHANGED <<gen, client, context>>
    <3>1. ASSUME NEW v \in tries'
          PROVE  \E x \in tries :
                   /\ Same(v, x) /\ (v.kind = "connect" => v.waits = x.waits)
                   /\ \/ gen' = gen + 1
                      \/ gen' = gen /\ (v.kind = "reconnect" /\ v.gen = gen => shared' = shared)
      <4>1. CASE v \in N
            BY <1>2, <2>3, <4>1
      <4>2. CASE v \in tries \ {t}
        <5>1. v.kind = "reconnect" /\ v.gen = gen => (t.kind = "reconnect" => shared \ {t.gen} = shared)
              BY <4>2, SharedApart
        <5>2. v.kind = "reconnect" /\ v.gen = gen => shared' = shared
              BY <2>3, <5>1
        <5> QED BY <2>1, <2>3, <4>2, <5>2
      <4> QED BY <1>1, <4>1, <4>2
    <3> QED BY <3>1, KindsStay
  <2> QED BY <1>1, <2>2, <2>3
<1>10. WaitInv'
  <2>1. ASSUME NEW v \in tries', NEW r \in v.waits \cap Requests
        PROVE  reqs'[r].st = "rejoining" /\ reqs'[r].gen = v.gen
    <3>1. v \in tries \ {t}
          BY <1>1, <1>2, <2>1
    <3>2. r \notin t.waits
          BY <2>1, <3>1, WaitsApart
    <3>3. reqs'[r] = reqs[r]
          BY <1>5, <2>1, <3>2
    <3>4. reqs[r].st = "rejoining" /\ reqs[r].gen = v.gen
          BY <2>1, <3>1 DEF AttemptsInv, WaitInv
    <3> QED BY <3>3, <3>4
  <2> QED BY <2>1 DEF WaitInv
<1> QED BY <1>6, <1>7, <1>8, <1>9, <1>10 DEF AttemptsInv

(* The socket of an attempt is open. *)
LEMMA OpenedKeeps ==
  ASSUME SessionTypes, SocketsInv, AttemptsInv, NEW t \in tries, NEW s \in V!Sockets, socks[s].st = "none",
         t.sock = V!NoSocket, Opens(socks', s, t, "open"),
         tries' = (tries \ {t}) \cup {[t EXCEPT !.sock = s]},
         UNCHANGED <<gen, client, context, shared, reqs>>
  PROVE  AttemptsInv'
<1> DEFINE n == [t EXCEPT !.sock = s]
<1>0. tries' = (tries \ {t}) \cup {n}
      OBVIOUS
<1>1. Same(n, t) /\ n.sock = s /\ n.waits = t.waits
      BY DEF SessionTypes, Tries, Same
<1> HIDE DEF n
<1>2. /\ Calm(socks', socks) /\ socks'[s].st = "open" /\ socks'[s].host = t.host
      /\ socks'[s].pending = socks[s].pending /\ socks'[s].out = socks[s].out
      /\ socks'[s].back = socks[s].back /\ socks'[s].shut = socks[s].shut
      BY NewSocket
<1>3. SocksKept /\ ClientKept
      BY <1>2, CalmKeeps DEF ClientKept
<1>4. n.host = t.host /\ n.gen = t.gen
      BY <1>1 DEF Same
<1>5. ClientInv'
      BY <1>3, ClientStays DEF AttemptsInv
<1>6. \A v \in tries : v.sock # s
  <2>1. s # V!NoSocket
        BY DEF V!Sockets, V!NoSocket, SessionTypes
  <2> QED BY <2>1 DEF AttemptsInv, TrySocks
<1>7. TrySocks'
  <2>1. ASSUME NEW u \in tries \ {t}, u.sock # V!NoSocket
        PROVE  /\ socks'[u.sock].st # "none" /\ socks'[u.sock].host = u.host /\ Untouched(socks'[u.sock])
               /\ client' # u.sock /\ \A c \in context' : c.sock # u.sock
    <3>1. u.sock \in V!Sockets
          BY <2>1 DEF SessionTypes, Tries
    <3>2. /\ socks[u.sock].st # "none" /\ socks[u.sock].host = u.host /\ Untouched(socks[u.sock])
          /\ client # u.sock /\ \A c \in context : c.sock # u.sock
          BY <2>1 DEF AttemptsInv, TrySocks
    <3>3. socks'[u.sock].st # "none" /\ socks'[u.sock].host = u.host /\ Untouched(socks'[u.sock])
          BY <1>3, <3>1, <3>2 DEF SocksKept
    <3> QED BY <3>2, <3>3
  <2>2. /\ socks'[s].st # "none" /\ socks'[s].host = n.host /\ Untouched(socks'[s])
        /\ client' # s /\ \A c \in context' : c.sock # s
    <3>1. socks[s] = V!Unused
          BY DEF SocketsInv, UnusedInv
    <3>2. Untouched(socks[s])
          BY <3>1 DEF Untouched, V!Unused
    <3>3. Untouched(socks'[s])
          BY <1>2, <3>2 DEF Untouched
    <3>4. \A c \in context : c.sock # s
          BY DEF AttemptsInv, ClientInv
    <3>5. client # s
      <4>1. s # V!NoSocket
            BY DEF V!Sockets, V!NoSocket, SessionTypes
      <4> QED BY <3>4, <4>1 DEF AttemptsInv, ClientInv
    <3> QED BY <1>2, <1>4, <3>3, <3>4, <3>5
  <2>3. \A u \in tries' : u \in tries \ {t} \/ u = n
        BY <1>0
  <2> QED BY <1>1, <2>1, <2>2, <2>3 DEF TrySocks
<1>8. BoundInv'
  <2>1. /\ \A x \in tries : [gen |-> x.gen, host |-> x.host] \in Bound
        /\ \A r \in Requests : reqs[r].st # "idle" => [gen |-> reqs[r].gen, host |-> reqs[r].host] \in Bound
        BY DEF Bound
  <2> HIDE DEF Bound
  <2>2. BoundKept
        BY <1>0, <1>4, <2>1 DEF BoundKept
  <2> QED BY <2>2, BoundStays DEF AttemptsInv
<1>9. TriesApart'
  <2> DEFINE N == {n}
  <2>1. /\ tries' = (tries \ {t}) \cup N
        /\ \A x \in N : Same(x, t) /\ (x.sock \in {V!NoSocket, t.sock} \/ \A v \in tries : v.sock # x.sock)
        /\ \A x, v \in N : x = v
        BY <1>0, <1>1, <1>6
  <2> HIDE DEF N
  <2> QED BY <2>1, ApartStays
<1>10. TryKinds' /\ WaitInv'
  <2>1. \A v \in tries : Same(v, v)
        BY DEF Same
  <2>2. \A v \in tries' : \E x \in tries :
            /\ Same(v, x) /\ (v.kind = "connect" => v.waits = x.waits)
            /\ \/ gen' = gen + 1
               \/ gen' = gen /\ (v.kind = "reconnect" /\ v.gen = gen => shared' = shared)
        BY <1>0, <1>1, <2>1
  <2>3. \A u \in tries' : \E x \in tries : u.gen = x.gen /\ u.waits = x.waits /\
            \A r \in Requests : r \in x.waits => reqs'[r].st = reqs[r].st /\ reqs'[r].gen = reqs[r].gen
        BY <1>0, <1>1, <1>4
  <2> QED BY <2>2, <2>3, KindsStay, WaitsStay
<1> QED BY <1>5, <1>7, <1>8, <1>9, <1>10 DEF AttemptsInv

(* The connection becomes the session. *)
LEMMA InstallKeeps ==
  ASSUME SessionTypes, AttemptsInv, NEW t \in tries, t.sock # V!NoSocket,
         V!Install(t, [sock |-> t.sock, host |-> t.host, gen |-> t.gen])
  PROVE  AttemptsInv'
<1> DEFINE c == [sock |-> t.sock, host |-> t.host, gen |-> t.gen]
<1>1. /\ t.sock \in V!Sockets /\ c \in Contexts /\ t \in Tries
      /\ socks[t.sock].st # "none" /\ socks[t.sock].host = t.host
      BY OwnSocket
<1>2. c.sock = t.sock /\ c.host = t.host /\ c.gen = t.gen /\ V!Install(t, c)
      OBVIOUS
<1> HIDE DEF c
<1>3. /\ \A z \in V!Sockets : z # t.sock => socks'[z] = V!Closed(socks, Previous(t))[z]
      /\ socks'[t.sock].st = socks[t.sock].st /\ socks'[t.sock].host = socks[t.sock].host
      BY <1>2, InstallSocks
<1>4. /\ client' = t.sock /\ context' = {c} /\ tries' = tries \ {t} /\ gen' = gen
      /\ shared' = IF t.kind = "reconnect" THEN shared \ {t.gen} ELSE shared
      /\ reqs' = [r \in Requests |->
                   IF r \in Again(t)
                   THEN [reqs[r] EXCEPT !.st = IF Alive(t) THEN "again" ELSE "failed", !.origin = {c}]
                   ELSE reqs[r]]
      BY Zenon, <1>2 DEF V!Install, Again, Alive
<1>5. \A r \in Requests :
        /\ r \notin t.waits => reqs'[r] = reqs[r]
        /\ reqs'[r].host = reqs[r].host /\ reqs'[r].gen = reqs[r].gen
        /\ r \in t.waits => reqs[r].st = "rejoining"
  <2> SUFFICES ASSUME NEW r \in Requests
               PROVE  /\ r \notin t.waits => reqs'[r] = reqs[r]
                      /\ reqs'[r].host = reqs[r].host /\ reqs'[r].gen = reqs[r].gen
                      /\ r \in t.waits => reqs[r].st = "rejoining"
      OBVIOUS
  <2>1. PICK k \in RequestStates : k = reqs[r]
        BY DEF SessionTypes
  <2> DEFINE n == [k EXCEPT !.st = IF Alive(t) THEN "again" ELSE "failed", !.origin = {c}]
  <2>2. n.host = k.host /\ n.gen = k.gen
        BY DEF RequestStates
  <2>3. reqs'[r] = IF r \in t.waits THEN n ELSE reqs[r]
        BY Zenon, <1>4, <2>1 DEF Again
  <2>4. r \in t.waits => reqs[r].st = "rejoining"
        BY DEF AttemptsInv, WaitInv
  <2> HIDE DEF n
  <2> QED BY <2>1, <2>2, <2>3, <2>4
<1>6. ClientInv'
      BY Zenon, <1>1, <1>2, <1>3, <1>4 DEF ClientInv
<1>7. BoundInv'
  <2>1. /\ \A x \in tries : [gen |-> x.gen, host |-> x.host] \in Bound
        /\ \A r \in Requests : reqs[r].st # "idle" => [gen |-> reqs[r].gen, host |-> reqs[r].host] \in Bound
        BY DEF Bound
  <2> HIDE DEF Bound
  <2>2. \A r \in Requests : reqs'[r].st # "idle" => [gen |-> reqs'[r].gen, host |-> reqs'[r].host] \in Bound
    <3> SUFFICES ASSUME NEW r \in Requests, reqs'[r].st # "idle"
                 PROVE  [gen |-> reqs'[r].gen, host |-> reqs'[r].host] \in Bound
        OBVIOUS
    <3>1. reqs[r].st # "idle" /\ reqs'[r].gen = reqs[r].gen /\ reqs'[r].host = reqs[r].host
          BY <1>5
    <3> QED BY <2>1, <3>1
  <2>3. BoundKept
        BY Zenon, <1>4, <2>1, <2>2 DEF BoundKept
  <2>4. \A d \in context' : [gen |-> d.gen, host |-> d.host] \in Bound
        BY Zenon, <1>2, <1>4, <2>1
  <2> QED BY Zenon, <1>4, <2>3, <2>4, BoundFollows DEF AttemptsInv
<1>8. \A x, y \in tries : \/ x = y
                          \/ /\ x.sock # V!NoSocket => x.sock # y.sock
                             /\ x.kind = "reconnect" /\ y.kind = "reconnect" => x.gen # y.gen
      BY DEF AttemptsInv, TriesApart
<1>9. TrySocks'
  <2> SUFFICES ASSUME NEW u \in tries \ {t}, u.sock # V!NoSocket
               PROVE  /\ socks'[u.sock].st # "none" /\ socks'[u.sock].host = u.host
                      /\ Untouched(socks'[u.sock])
                      /\ client' # u.sock /\ \A d \in context' : d.sock # u.sock
      BY Zenon, <1>4 DEF TrySocks
  <2>1. u.sock \in V!Sockets /\ u.sock # t.sock
        BY <1>8 DEF SessionTypes, Tries
  <2>2. socks[u.sock].st # "none" /\ socks[u.sock].host = u.host /\ Untouched(socks[u.sock])
        BY DEF AttemptsInv, TrySocks
  <2> DEFINE p == Previous(t)
  <2>3. socks'[u.sock] = V!Closed(socks, p)[u.sock]
        BY <1>3, <2>1
  <2> HIDE DEF p
  <2>4. socks \in [V!Sockets -> SocketStates]
        BY DEF SessionTypes
  <2>5. /\ V!Closed(socks, p)[u.sock].host = socks[u.sock].host
        /\ V!Closed(socks, p)[u.sock].pending = socks[u.sock].pending
        /\ V!Closed(socks, p)[u.sock].out = socks[u.sock].out
        /\ V!Closed(socks, p)[u.sock].back = socks[u.sock].back
        /\ V!Closed(socks, p)[u.sock].shut = socks[u.sock].shut
        /\ V!Closed(socks, p)[u.sock].st # "none"
        BY <2>1, <2>2, <2>4, ClosedSocks
  <2>6. Untouched(socks'[u.sock])
        BY <2>2, <2>3, <2>5 DEF Untouched
  <2> QED BY Zenon, <1>2, <1>4, <2>1, <2>2, <2>3, <2>5, <2>6
<1>10. TriesApart'
       BY Zenon, <1>4, <1>8 DEF TriesApart
<1>11. TryKinds'
  <2>1. ASSUME NEW v \in tries'
        PROVE  \E x \in tries :
                 /\ Same(v, x) /\ (v.kind = "connect" => v.waits = x.waits)
                 /\ \/ gen' = gen + 1
                    \/ gen' = gen /\ (v.kind = "reconnect" /\ v.gen = gen => shared' = shared)
    <3>1. v \in tries /\ v # t /\ Same(v, v)
          BY Zenon, <1>4, <2>1 DEF Same
    <3>2. v.kind = "reconnect" /\ v.gen = gen => (t.kind = "reconnect" => shared \ {t.gen} = shared)
          BY <3>1, SharedApart
    <3>3. v.kind = "reconnect" /\ v.gen = gen => shared' = shared
          BY Zenon, <1>4, <3>2
    <3> QED BY Zenon, <1>4, <3>1, <3>3
  <2> QED BY <2>1, KindsStay
<1>12. WaitInv'
  <2>1. ASSUME NEW v \in tries', NEW r \in v.waits \cap Requests
        PROVE  reqs'[r].st = "rejoining" /\ reqs'[r].gen = v.gen
    <3>1. v \in tries /\ v # t
          BY Zenon, <1>4, <2>1
    <3>2. r \notin t.waits
          BY <2>1, <3>1, WaitsApart
    <3>3. reqs'[r] = reqs[r]
          BY <1>5, <2>1, <3>2
    <3>4. reqs[r].st = "rejoining" /\ reqs[r].gen = v.gen
          BY <2>1, <3>1 DEF AttemptsInv, WaitInv
    <3> QED BY <3>3, <3>4
  <2> QED BY <2>1 DEF WaitInv
<1> QED BY <1>6, <1>7, <1>9, <1>10, <1>11, <1>12 DEF AttemptsInv

(* What an attempt to connect does. *)
LEMMA AttemptKeeps ==
  ASSUME SessionTypes, SocketsInv, AttemptsInv, NEW t \in tries,
         V!LeaveScreen(t) \/ V!ConnectFails(t) \/ V!Opened(t) \/ V!CredentialFails(t) \/ V!Connected(t)
  PROVE  AttemptsInv'
<1>0. socks \in [V!Sockets -> SocketStates] /\ Calm(socks, socks)
      BY CalmItself DEF SessionTypes
<1>a. V!Closed(socks, t.sock) \in [V!Sockets -> SocketStates] /\ Calm(V!Closed(socks, t.sock), socks)
      BY <1>0, ClosedSocks, ClosedIsCalm
<1>1. CASE V!LeaveScreen(t)
      BY <1>1, LeaveKeeps
<1>2. CASE V!ConnectFails(t)
      BY <1>0, <1>2, AbandonKeeps DEF V!ConnectFails
<1>3. CASE V!Opened(t)
  <2>1. PICK s \in V!Sockets :
          /\ socks[s].st = "none"
          /\ IF V!Aborted(t) THEN V!Abandon(t, [socks EXCEPT ![s].st = "closing", ![s].host = t.host])
             ELSE /\ socks' = [socks EXCEPT ![s].st = "open", ![s].host = t.host]
                  /\ tries' = (tries \ {t}) \cup {[t EXCEPT !.sock = s]}
                  /\ UNCHANGED <<gen, client, context, shared, reqs, retiring, probes, ran, faults>>
        BY <1>3 DEF V!Opened
  <2>2. CASE V!Aborted(t)
    <3> DEFINE sk == [socks EXCEPT ![s].st = "closing", ![s].host = t.host]
    <3>1. V!Abandon(t, sk)
          BY <2>1, <2>2
    <3>2. sk \in [V!Sockets -> SocketStates] /\ Calm(sk, socks)
      <4>1. socks[s].st = "none" /\ Opens(sk, s, t, "closing")
            BY <2>1 DEF Opens
      <4> HIDE DEF sk
      <4> QED BY <4>1, NewSocket
    <3> HIDE DEF sk
    <3> QED BY <3>1, <3>2, AbandonKeeps
  <2>3. CASE ~V!Aborted(t)
    <3>1. /\ socks[s].st = "none" /\ t.sock = V!NoSocket /\ Opens(socks', s, t, "open")
          /\ tries' = (tries \ {t}) \cup {[t EXCEPT !.sock = s]}
          /\ UNCHANGED <<gen, client, context, shared, reqs>>
          BY <1>3, <2>1, <2>3 DEF Opens, V!Opened
    <3> QED BY <3>1, OpenedKeeps
  <2> QED BY <2>2, <2>3
<1>4. CASE V!CredentialFails(t)
      BY <1>a, <1>4, AbandonKeeps DEF V!CredentialFails
<1>5. CASE V!Connected(t)
  <2>1. CASE V!Wanted(t)
        BY <1>5, <2>1, InstallKeeps DEF V!Connected
  <2>2. CASE ~V!Wanted(t)
        BY <1>5, <1>a, <2>2, AbandonKeeps DEF V!Connected, V!Dropped
  <2> QED BY <2>1, <2>2
<1> QED BY <1>1, <1>2, <1>3, <1>4, <1>5

(* The attempts to connect, the session and the requests stay in step. *)
LEMMA AttemptsStay ==
  ASSUME SessionTypes, SocketsInv, AttemptsInv, V!Next
  PROVE  AttemptsInv'
<1>1. CASE \E h \in Hosts : V!Select(h)
      BY <1>1, SelectKeeps
<1>2. CASE V!Disconnect
      BY <1>2, DisconnectedKeeps DEF V!Disconnect
<1>3. CASE V!Attempts
      BY <1>3, AttemptKeeps DEF V!Attempts
<1>4. CASE V!SocketSteps
  <2>1. PICK s \in V!Sockets : V!HostRuns(s) \/ V!Deliver(s) \/ V!TimeoutFront(s) \/ V!Fails(s) \/ V!Closes(s)
        BY <1>4 DEF V!SocketSteps
  <2> QED BY <2>1, HostKeeps, DeliverKeeps, TimeoutKeeps, LossKeeps
<1>5. CASE \E r \in Requests : V!Bind(r) \/ V!Ask(r)
      BY <1>5, BindKeeps, AskKeeps
<1>6. CASE \E c \in context : V!AutoReconnect(c)
      BY <1>6, AutoReconnectKeeps
<1>7. CASE \E c \in retiring : V!Retired(c)
      BY <1>7, DisconnectedKeeps, QuietKeeps DEF V!Retired
<1>8. CASE \E c \in probes : V!Probed(c)
      BY <1>8, DisconnectedKeeps, QuietKeeps DEF V!Probed
<1> QED BY <1>1, <1>2, <1>3, <1>4, <1>5, <1>6, <1>7, <1>8 DEF V!Next

(* A socket keeps its owner. *)
LEMMA OwnersStay ==
  ASSUME SessionTypes, V!NoSocketLeaks,
         \A s \in V!Sockets : socks'[s].st = "open" =>
           /\ socks[s].st = "open"
           /\ s = client => client' = s
           /\ \A t \in tries : t.sock = s => \E u \in tries' : u.sock = s
  PROVE  V!NoSocketLeaks'
<1> SUFFICES ASSUME NEW s \in V!Sockets, socks'[s].st = "open"
             PROVE  s = client' \/ \E t \in tries' : t.sock = s
    BY DEF V!NoSocketLeaks
<1>1. s = client \/ \E t \in tries : t.sock = s
      BY DEF V!NoSocketLeaks
<1> QED BY <1>1

(* Joining or beginning an attempt takes no socket from another. *)
LEMMA ReconnectedOwns ==
  ASSUME NEW c, NEW who, Reconnected(c, who)
  PROVE  \A t \in tries : \E u \in tries' : u.sock = t.sock
BY DEF Reconnected

(* The session ends, and its socket is closed. *)
LEMMA DisconnectedOwns ==
  ASSUME SessionTypes, V!NoSocketLeaks, V!Disconnected(socks), tries' = tries
  PROVE  V!NoSocketLeaks'
<1>1. socks' = V!Closed(socks, client) /\ socks \in [V!Sockets -> SocketStates]
      BY DEF V!Disconnected, SessionTypes
<1>2. \A s \in V!Sockets : socks'[s].st = "open" => socks[s].st = "open" /\ s # client
      BY <1>1, ClosedSocks
<1> QED BY <1>2, OwnersStay

(* An attempt that ends closes its socket. *)
LEMMA AbandonOwns ==
  ASSUME SessionTypes, V!NoSocketLeaks, NEW t \in tries, NEW sk \in [V!Sockets -> SocketStates],
         \A s \in V!Sockets : sk[s].st = "open" => socks[s].st = "open" /\ s # t.sock, V!Abandon(t, sk)
  PROVE  V!NoSocketLeaks'
<1>1. /\ \A u \in tries : u # t => u \in tries'
      /\ \/ client' = client /\ socks' = sk
         \/ socks' = V!Closed(sk, client)
      BY DEF V!Abandon, V!Disconnected
<1>2. \A s \in V!Sockets : V!Closed(sk, client)[s].st = "open" => sk[s].st = "open" /\ s # client
      BY ClosedSocks
<1>3. \A s \in V!Sockets : socks'[s].st = "open" =>
           /\ socks[s].st = "open"
           /\ s = client => client' = s
           /\ \A u \in tries : u.sock = s => \E v \in tries' : v.sock = s
  <2> SUFFICES ASSUME NEW s \in V!Sockets, socks'[s].st = "open"
               PROVE  /\ socks[s].st = "open"
                      /\ s = client => client' = s
                      /\ \A u \in tries : u.sock = s => \E v \in tries' : v.sock = s
      OBVIOUS
  <2>1. sk[s].st = "open" /\ (s = client => client' = s)
        BY <1>1, <1>2
  <2>2. socks[s].st = "open" /\ s # t.sock
        BY <2>1
  <2> QED BY <1>1, <2>1, <2>2
<1> QED BY <1>3, OwnersStay

(* An attempt hands its socket over, or closes it. *)
LEMMA AttemptOwns ==
  ASSUME SessionTypes, AttemptsInv, V!NoSocketLeaks, NEW t \in tries,
         V!LeaveScreen(t) \/ V!ConnectFails(t) \/ V!Opened(t) \/ V!CredentialFails(t) \/ V!Connected(t)
  PROVE  V!NoSocketLeaks'
<1>0. socks \in [V!Sockets -> SocketStates] /\ V!NoSocket \notin V!Sockets
      BY DEF SessionTypes, V!Sockets, V!NoSocket
<1>1. CASE V!LeaveScreen(t)
  <2> DEFINE n == [t EXCEPT !.off = TRUE]
  <2>1. tries' = (tries \ {t}) \cup {n} /\ socks' = socks /\ client' = client
        BY <1>1 DEF V!LeaveScreen
  <2>2. n.sock = t.sock
        BY DEF SessionTypes, Tries
  <2> HIDE DEF n
  <2> QED BY <2>1, <2>2, OwnersStay
<1>2. CASE V!ConnectFails(t)
  <2>1. t.sock = V!NoSocket /\ V!Abandon(t, socks)
        BY <1>2 DEF V!ConnectFails
  <2> QED BY <1>0, <2>1, AbandonOwns
<1>a. /\ V!Closed(socks, t.sock) \in [V!Sockets -> SocketStates]
      /\ \A s \in V!Sockets : V!Closed(socks, t.sock)[s].st = "open" => socks[s].st = "open" /\ s # t.sock
      BY <1>0, ClosedSocks
<1>3. CASE V!Opened(t)
  <2>1. PICK s \in V!Sockets :
          /\ socks[s].st = "none" /\ t.sock = V!NoSocket
          /\ IF V!Aborted(t) THEN V!Abandon(t, [socks EXCEPT ![s].st = "closing", ![s].host = t.host])
             ELSE /\ socks' = [socks EXCEPT ![s].st = "open", ![s].host = t.host]
                  /\ tries' = (tries \ {t}) \cup {[t EXCEPT !.sock = s]}
                  /\ UNCHANGED <<gen, client, context, shared, reqs, retiring, probes, ran, faults>>
        BY <1>3 DEF V!Opened
  <2>2. CASE V!Aborted(t)
    <3> DEFINE sk == [socks EXCEPT ![s].st = "closing", ![s].host = t.host]
    <3>1. V!Abandon(t, sk)
          BY <2>1, <2>2
    <3>2. /\ sk \in [V!Sockets -> SocketStates]
          /\ \A z \in V!Sockets : z # s => sk[z] = socks[z]
          /\ sk[s].st = "closing"
      <4>1. socks[s].st = "none" /\ Opens(sk, s, t, "closing")
            BY <2>1 DEF Opens
      <4> HIDE DEF sk
      <4> QED BY <4>1, NewSocket
    <3> HIDE DEF sk
    <3>3. \A z \in V!Sockets : sk[z].st = "open" => socks[z].st = "open" /\ z # t.sock
          BY <1>0, <2>1, <3>2
    <3> QED BY <3>1, <3>2, <3>3, AbandonOwns
  <2>3. CASE ~V!Aborted(t)
    <3> DEFINE n == [t EXCEPT !.sock = s]
    <3>1. tries' = (tries \ {t}) \cup {n} /\ client' = client
          BY <2>1, <2>3
    <3>2. n.sock = s
          BY DEF SessionTypes, Tries
    <3>3. \A z \in V!Sockets : z # s => socks'[z] = socks[z]
      <4>1. socks[s].st = "none" /\ Opens(socks', s, t, "open")
            BY <2>1, <2>3 DEF Opens
      <4> QED BY <4>1, NewSocket
    <3> HIDE DEF n
    <3> SUFFICES ASSUME NEW z \in V!Sockets, socks'[z].st = "open"
                 PROVE  z = client' \/ \E v \in tries' : v.sock = z
        BY DEF V!NoSocketLeaks
    <3>4. CASE z = s
          BY <3>1, <3>2, <3>4
    <3>5. CASE z # s
      <4>1. z = client \/ \E v \in tries : v.sock = z
            BY <3>3, <3>5 DEF V!NoSocketLeaks
      <4>2. z # t.sock
            BY <1>0, <2>1
      <4> QED BY <3>1, <4>1, <4>2
    <3> QED BY <3>4, <3>5
  <2> QED BY <2>2, <2>3
<1>4. CASE V!CredentialFails(t)
      BY <1>a, <1>4, AbandonOwns DEF V!CredentialFails
<1>5. CASE V!Connected(t)
  <2>1. CASE V!Wanted(t)
    <3> DEFINE c == [sock |-> t.sock, host |-> t.host, gen |-> t.gen]
    <3>1. V!Install(t, c) /\ t.sock # V!NoSocket
          BY <1>5, <2>1 DEF V!Connected
    <3> HIDE DEF c
    <3>2. \A z \in V!Sockets : z # t.sock => socks'[z] = V!Closed(socks, Previous(t))[z]
          BY <3>1, InstallSocks
    <3>3. client' = t.sock /\ tries' = tries \ {t}
          BY Zenon, <3>1 DEF V!Install
    <3>4. client \in {Previous(t), V!NoSocket}
      <4>1. CASE t.kind = "connect"
            BY <4>1 DEF Previous
      <4>2. CASE t.kind # "connect"
        <5>1. t.kind = "reconnect"
              BY <4>2 DEF SessionTypes, Tries
        <5>2. PICK d \in Contexts : t.origin = {d}
              BY <5>1 DEF AttemptsInv, TryKinds
        <5>3. client \in {d.sock, V!NoSocket}
              BY <2>1, <5>2 DEF V!Wanted, V!Current
        <5>4. (CHOOSE o \in {d} : TRUE) = d
              OBVIOUS
        <5>5. Previous(t) = d.sock
              BY <4>2, <5>2, <5>4 DEF Previous
        <5> QED BY <5>3, <5>5
      <4> QED BY <4>1, <4>2
    <3> DEFINE p == Previous(t)
    <3> HIDE DEF p
    <3>5. \A z \in V!Sockets : V!Closed(socks, p)[z].st = "open" => socks[z].st = "open" /\ z # p
          BY <1>0, ClosedSocks
    <3> SUFFICES ASSUME NEW z \in V!Sockets, socks'[z].st = "open", z # t.sock
                 PROVE  \E v \in tries' : v.sock = z
        BY <3>3 DEF V!NoSocketLeaks
    <3>6. socks[z].st = "open" /\ z # p
          BY <3>2, <3>5 DEF p
    <3>7. z # client
          BY <1>0, <3>4, <3>6 DEF p
    <3> QED BY <3>3, <3>6, <3>7 DEF V!NoSocketLeaks
  <2>2. CASE ~V!Wanted(t)
        BY <1>5, <1>a, <2>2, AbandonOwns DEF V!Connected, V!Dropped
  <2> QED BY <2>1, <2>2
<1> QED BY <1>1, <1>2, <1>3, <1>4, <1>5

(* A socket that is lost is not open. *)
LEMMA LossOwns ==
  ASSUME SessionTypes, SocketsInv, AttemptsInv, V!NoSocketLeaks, NEW s \in V!Sockets,
         V!TimeoutFront(s) \/ V!Fails(s) \/ V!Closes(s)
  PROVE  V!NoSocketLeaks'
<1>1. PICK x \in {"closing", "closed"} :
         socks' = [socks EXCEPT ![s].st = x, ![s].pending = <<>>, ![s].armed = FALSE]
  <2>1. CASE V!TimeoutFront(s)
        BY <2>1 DEF V!TimeoutFront, V!Destroyed
  <2>2. CASE V!Fails(s)
        BY <2>2 DEF V!Fails
  <2>3. CASE V!Closes(s)
        BY <2>3 DEF V!Closes
  <2> QED BY <2>1, <2>2, <2>3
<1>2. (\A z \in V!Sockets : z # s => socks'[z] = socks[z]) /\ socks'[s].st = x
      BY Zenon, <1>1, DropTypes
<1>3. client' = client \/ (client = s /\ client' = V!NoSocket)
      BY DEF V!TimeoutFront, V!Fails, V!Closes
<1>4. \A t \in tries : \E u \in tries' : u.sock = t.sock
  <2> DEFINE lost == V!Range(socks[s].pending)
             origin == UNION {reqs[r].origin : r \in V!Repeats(lost)}
  <2>1. CASE tries' = tries
        BY <2>1
  <2>2. CASE /\ V!Repeats(lost) # {} /\ \A c \in origin : V!Reconnect(c, V!Repeats(lost))
    <3>1. \A r \in V!Repeats(lost) : r \in Requests /\ \E c \in Contexts : reqs[r].origin = {c}
          BY PendingRequests DEF SocketsInv, V!Repeats
    <3>2. PICK p \in V!Repeats(lost) : TRUE
          BY <2>2
    <3>3. PICK c \in Contexts : reqs[p].origin = {c}
          BY <3>1, <3>2
    <3>4. V!Reconnect(c, V!Repeats(lost))
      <4>1. c \in origin
            BY <3>2, <3>3
      <4> QED BY <2>2, <4>1
    <3>5. V!Repeats(lost) \in SUBSET (Requests \cup {Home})
          BY <3>1
    <3> HIDE DEF lost
    <3>6. Reconnected(c, V!Repeats(lost))
          BY <3>4, <3>5, ReconnectCases
    <3> QED BY <3>6, ReconnectedOwns
  <2>3. CASE V!TimeoutFront(s)
        BY <2>1, <2>3 DEF V!TimeoutFront
  <2>4. CASE V!Fails(s) \/ V!Closes(s)
    <3>1. V!Interrupted(lost)
          BY <2>4 DEF V!Fails, V!Closes
    <3> QED BY <2>1, <2>2, <3>1 DEF V!Interrupted
  <2> QED BY <2>3, <2>4
<1> QED BY <1>2, <1>3, <1>4, OwnersStay

(* Every open socket keeps an owner. *)
LEMMA OwnersKeep ==
  ASSUME SessionTypes, SocketsInv, AttemptsInv, V!NoSocketLeaks, V!Next
  PROVE  V!NoSocketLeaks'
<1>1. CASE \E h \in Hosts : V!Select(h)
  <2>1. /\ client' = client /\ socks' = socks /\ tries \subseteq tries'
        BY <1>1 DEF V!Select
  <2> QED BY <2>1, OwnersStay
<1>2. CASE V!Disconnect
      BY <1>2, DisconnectedOwns DEF V!Disconnect
<1>3. CASE V!Attempts
      BY <1>3, AttemptOwns DEF V!Attempts
<1>4. CASE V!SocketSteps
  <2>1. PICK s \in V!Sockets : V!HostRuns(s) \/ V!Deliver(s) \/ V!TimeoutFront(s) \/ V!Fails(s) \/ V!Closes(s)
        BY <1>4 DEF V!SocketSteps
  <2>2. CASE V!HostRuns(s)
    <3>1. client' = client /\ tries' = tries /\ \A z \in V!Sockets : socks'[z].st = socks[z].st
          BY Zenon, <2>2, HostSocks DEF V!HostRuns
    <3> QED BY <3>1, OwnersStay
  <2>3. CASE V!Deliver(s)
    <3>1. client' = client /\ tries' = tries /\ \A z \in V!Sockets : socks'[z].st = socks[z].st
          BY Zenon, <2>3, DeliverSocks DEF V!Deliver
    <3> QED BY <3>1, OwnersStay
  <2> QED BY <2>1, <2>2, <2>3, LossOwns
<1>5. CASE \E r \in Requests : V!Bind(r) \/ V!Ask(r)
  <2>1. PICK r \in Requests : V!Bind(r) \/ V!Ask(r)
        BY <1>5
  <2>2. CASE V!Bind(r)
        BY <2>2, OwnersStay DEF V!Bind
  <2>3. CASE V!Ask(r)
    <3>1. PICK c \in context :
            /\ tries' = tries \/ V!Reconnect(c, {r})
            /\ \/ socks' = socks
               \/ socks' = [socks EXCEPT ![c.sock].pending = Append(@, r), ![c.sock].out = Append(@, r),
                                         ![c.sock].armed = TRUE]
          BY Zenon, <2>3 DEF V!Ask
    <3>2. client' = client
          BY <2>3 DEF V!Ask
    <3>3. c \in Contexts /\ {r} \in SUBSET (Requests \cup {Home})
          BY DEF SessionTypes
    <3>4. \A t \in tries : \E u \in tries' : u.sock = t.sock
      <4>1. CASE tries' = tries
            BY <4>1
      <4>2. CASE V!Reconnect(c, {r})
        <5>1. Reconnected(c, {r})
              BY <3>3, <4>2, ReconnectCases
        <5> QED BY <5>1, ReconnectedOwns
      <4> QED BY <3>1, <4>1, <4>2
    <3>5. \A z \in V!Sockets : socks'[z].st = socks[z].st
      <4>1. CASE socks' = socks
            BY <4>1
      <4>2. CASE socks' = [socks EXCEPT ![c.sock].pending = Append(@, r), ![c.sock].out = Append(@, r),
                                        ![c.sock].armed = TRUE]
        <5>1. PICK s \in V!Sockets : s = c.sock
              BY <3>3 DEF Contexts
        <5>2. socks' = [socks EXCEPT ![s].pending = Append(@, r), ![s].out = Append(@, r), ![s].armed = TRUE]
              BY <4>2, <5>1
        <5> QED BY Zenon, <5>2, AskSocks
      <4> QED BY <3>1, <4>1, <4>2
    <3> QED BY <3>2, <3>4, <3>5, OwnersStay
  <2> QED BY <2>1, <2>2, <2>3
<1>6. CASE \E c \in context : V!AutoReconnect(c)
  <2>1. PICK c \in context : V!Reconnect(c, {Home}) /\ client' = client /\ socks' = socks
        BY <1>6 DEF V!AutoReconnect
  <2>2. c \in Contexts /\ {Home} \in SUBSET (Requests \cup {Home})
        BY DEF SessionTypes
  <2>3. Reconnected(c, {Home})
        BY <2>1, <2>2, ReconnectCases
  <2>4. \A t \in tries : \E u \in tries' : u.sock = t.sock
        BY <2>3, ReconnectedOwns
  <2> QED BY <2>1, <2>4, OwnersStay
<1>7. CASE \E c \in retiring : V!Retired(c)
  <2>1. tries' = tries /\ (V!Disconnected(socks) \/ (client' = client /\ socks' = socks))
        BY <1>7 DEF V!Retired
  <2> QED BY <2>1, DisconnectedOwns, OwnersStay
<1>8. CASE \E c \in probes : V!Probed(c)
  <2>1. tries' = tries /\ (V!Disconnected(socks) \/ (client' = client /\ socks' = socks))
        BY <1>8 DEF V!Probed
  <2> QED BY <2>1, DisconnectedOwns, OwnersStay
<1> QED BY <1>1, <1>2, <1>3, <1>4, <1>5, <1>6, <1>7, <1>8 DEF V!Next

(* What holds of the session when nothing was selected yet. *)
LEMMA SessionStarts ==
  ASSUME IsFiniteSet(Requests), MaxSockets \in Nat, Retries \in Nat, Home \notin Requests, V!Init
  PROVE  SessionInv
<1>1. V!Unused \in SocketStates
  <2>1. <<>> \in Seq(Requests) /\ <<>> \in Seq(Answers)
        OBVIOUS
  <2> QED BY <2>1 DEF SocketStates, V!Unused
<1>2. V!Idle \in RequestStates
      BY DEF RequestStates, V!Idle, Statuses
<1>3. /\ \A s \in V!Sockets : socks[s] = V!Unused
      /\ \A r \in Requests : reqs[r] = V!Idle /\ ran[r] = <<>>
      BY DEF V!Init
<1>4. /\ V!Unused.st = "none" /\ V!Unused.out = <<>> /\ V!Unused.pending = <<>>
      /\ V!Idle.st = "idle" /\ V!Idle.got = {}
      BY DEF V!Unused, V!Idle
<1>5. SessionTypes
  <2>1. socks \in [V!Sockets -> SocketStates]
        BY <1>1 DEF V!Init
  <2>2. reqs \in [Requests -> RequestStates]
        BY <1>2 DEF V!Init
  <2>3. ran \in [Requests -> Seq(Hosts \cup {V!NoHost})]
    <3>1. <<>> \in Seq(Hosts \cup {V!NoHost})
          OBVIOUS
    <3> QED BY <3>1 DEF V!Init
  <2> QED BY <2>1, <2>2, <2>3 DEF SessionTypes, V!Init, V!NoSocket
<1>6. ASSUME NEW s \in V!Sockets
      PROVE  /\ NotTwice(socks[s].out) /\ NotTwice(socks[s].pending)
             /\ 1 .. Len(socks[s].out) = {} /\ 1 .. Len(socks[s].pending) = {}
  <2>1. socks[s].out = <<>> /\ socks[s].pending = <<>>
        BY <1>3, <1>4
  <2>2. Len(<<>>) = 0 /\ 1 .. 0 = {}
        OBVIOUS
  <2> QED BY <2>1, <2>2 DEF NotTwice
<1>7. OutInv /\ PendingInv
      BY <1>6 DEF OutInv, PendingInv
<1>8. UnusedInv /\ MatchInv /\ V!NoSocketLeaks
      BY <1>3, <1>4 DEF UnusedInv, MatchInv, V!NoSocketLeaks
<1>9. RunInv
  <2> SUFFICES ASSUME NEW r \in Requests
               PROVE  /\ Len(ran[r]) + Cardinality(Out(r)) <= Limit(r)
                      /\ reqs[r].st \in {"again", "rejoining"} => r \in Reads
      BY DEF RunInv
  <2>1. reqs[r].st = "idle" /\ ran[r] = <<>>
        BY <1>3, <1>4
  <2>2. Out(r) = {}
        BY <1>6 DEF Out
  <2>3. Cardinality({}) = 0
        BY FS_EmptySet
  <2>4. Cardinality(Out(r)) = 0
        BY <2>2, <2>3
  <2>5. Limit(r) = 0
        BY <2>1 DEF Limit
  <2>6. Len(ran[r]) = 0
        BY <2>1
  <2> HIDE DEF Limit, Out
  <2>7. Len(ran[r]) + Cardinality(Out(r)) <= Limit(r)
        BY <2>4, <2>5, <2>6
  <2> QED BY <2>1, <2>7
<1>10. V!RunsOnItsHost /\ V!AnswersItsOwn
  <2>1. \A r \in Requests : DOMAIN ran[r] = {}
    <3>1. DOMAIN <<>> = {}
          OBVIOUS
    <3> QED BY <3>1, <1>3
  <2> QED BY <2>1, <1>3, <1>4 DEF V!RunsOnItsHost, V!AnswersItsOwn
<1>11. AttemptsInv
  <2>1. context = {} /\ tries = {} /\ client = V!NoSocket
        BY DEF V!Init
  <2>2. {q \in Requests : reqs[q].st # "idle"} = {}
        BY <1>3, <1>4
  <2>3. Bound = {}
        BY <2>1, <2>2 DEF Bound
  <2> QED BY <2>1, <2>3 DEF AttemptsInv, ClientInv, BoundInv, TrySocks, TriesApart, TryKinds, WaitInv
<1> QED BY <1>5, <1>7, <1>8, <1>9, <1>10, <1>11 DEF SessionInv, SocketsInv

(* Every step of the session keeps what holds of it. *)
LEMMA SessionStays ==
  ASSUME SessionInv, V!Next
  PROVE  SessionInv'
<1>1. SessionTypes /\ SocketsInv /\ AttemptsInv /\ V!NoSocketLeaks /\ PendingInv
      BY DEF SessionInv, SocketsInv
<1>2. SessionTypes'
      BY <1>1, SessionTypesStay
<1>3. SocketsInv'
      BY <1>1, SocketsStay
<1>4. AttemptsInv'
      BY <1>1, AttemptsStay
<1>5. V!NoSocketLeaks'
      BY <1>1, OwnersKeep
<1> QED BY <1>2, <1>3, <1>4, <1>5 DEF SessionInv

(* Where nothing of the session changes, it keeps holding. *)
LEMMA SessionKept ==
  ASSUME SessionInv, UNCHANGED sessionVars
  PROVE  SessionInv'
<1>1. /\ gen' = gen /\ client' = client /\ context' = context /\ tries' = tries
      /\ shared' = shared /\ socks' = socks /\ reqs' = reqs /\ retiring' = retiring
      /\ probes' = probes /\ ran' = ran /\ faults' = faults
      BY DEF sessionVars
<1>2. SessionTypes'
      BY <1>1 DEF SessionInv, SessionTypes
<1>3. V!NoSocketLeaks' /\ V!RunsOnItsHost' /\ V!AnswersItsOwn'
      BY <1>1 DEF SessionInv, SocketsInv, V!NoSocketLeaks, V!RunsOnItsHost, V!AnswersItsOwn
<1>4. OutInv' /\ PendingInv' /\ UnusedInv'
  <2>1. OutInv'
        BY <1>1 DEF SessionInv, SocketsInv, OutInv
  <2>2. PendingInv'
        BY <1>1 DEF SessionInv, SocketsInv, PendingInv
  <2>3. UnusedInv'
        BY <1>1 DEF SessionInv, SocketsInv, UnusedInv
  <2> QED BY <2>1, <2>2, <2>3
<1>8. MatchInv'
      BY <1>1 DEF SessionInv, SocketsInv, MatchInv
<1>5. RunInv'
  <2>1. \A r : Out(r)' = Out(r) /\ Limit(r)' = Limit(r)
        BY <1>1 DEF Out, Limit
  <2> QED BY <1>1, <2>1 DEF SessionInv, SocketsInv, RunInv
<1>6. ClientInv' /\ TrySocks' /\ TriesApart' /\ TryKinds' /\ WaitInv'
      BY <1>1 DEF SessionInv, AttemptsInv, ClientInv, TrySocks, TriesApart, TryKinds, WaitInv, Untouched
<1>7. BoundInv'
  <2>1. Bound' = Bound
        BY <1>1 DEF Bound
  <2> QED BY <1>1, <2>1 DEF SessionInv, AttemptsInv, BoundInv
<1> QED BY <1>2, <1>3, <1>4, <1>5, <1>6, <1>7, <1>8 DEF SessionInv, SocketsInv, AttemptsInv

(* What is promised of the requests follows. *)
LEMMA SessionKeeps ==
  ASSUME SessionInv
  PROVE  V!RequestsKeepTheirHost
<1>1. V!RunsOnce
  <2> SUFFICES ASSUME NEW r \in Requests
               PROVE  Len(ran[r]) <= IF r \in Reads THEN 2 ELSE 1
      BY DEF V!RunsOnce
  <2>1. /\ Cardinality(Out(r)) \in Nat /\ Len(ran[r]) \in Nat /\ Limit(r) \in 0 .. 2
        /\ reqs[r].st \in Statuses
        BY RunCounts DEF SessionInv
  <2>2. /\ Len(ran[r]) + Cardinality(Out(r)) <= Limit(r)
        /\ reqs[r].st \in {"again", "rejoining"} => r \in Reads
        BY DEF SessionInv, SocketsInv, RunInv
  <2>3. r \notin Reads => Limit(r) <= 1
        BY <2>1, <2>2 DEF Limit, Statuses
  <2> HIDE DEF Limit, Out
  <2> QED BY <2>1, <2>2, <2>3
<1> QED BY <1>1 DEF SessionInv, SocketsInv, V!RequestsKeepTheirHost

(* Only an installed connection becomes the client, and only that of the present selection. *)
LEMMA SelectionKept ==
  ASSUME SessionInv, V!Next
  PROVE  client' \notin {client, V!NoSocket} => \A c \in context' : c.gen = gen' /\ c.sock = client'
<1> DEFINE Stayed == client' \in {client, V!NoSocket}
<1>1. CASE \E h \in Hosts : V!Select(h)
      BY <1>1 DEF V!Select
<1>2. CASE V!Disconnect
      BY <1>2 DEF V!Disconnect, V!Disconnected
<1>3. CASE V!Attempts
  <2>1. PICK t \in tries : V!LeaveScreen(t) \/ V!ConnectFails(t) \/ V!Opened(t) \/ V!CredentialFails(t) \/ V!Connected(t)
        BY <1>3 DEF V!Attempts
  <2>2. ASSUME NEW sk, V!Abandon(t, sk) PROVE Stayed
        BY <2>2 DEF V!Abandon, V!Disconnected
  <2>3. CASE V!LeaveScreen(t)
        BY <2>3 DEF V!LeaveScreen
  <2>4. CASE V!ConnectFails(t)
        BY <2>2, <2>4 DEF V!ConnectFails
  <2>5. CASE V!Opened(t)
        BY <2>2, <2>5 DEF V!Opened
  <2>6. CASE V!CredentialFails(t)
        BY <2>2, <2>6 DEF V!CredentialFails
  <2>7. CASE V!Connected(t)
    <3> DEFINE c == [sock |-> t.sock, host |-> t.host, gen |-> t.gen]
    <3>1. CASE V!Wanted(t)
      <4>1. client' = t.sock /\ context' = {c} /\ gen' = gen
            BY Zenon, <2>7, <3>1 DEF V!Connected, V!Install
      <4>2. t.gen = gen
            BY <3>1 DEF V!Wanted, V!Aborted
      <4>3. c.gen = t.gen /\ c.sock = t.sock
            OBVIOUS
      <4> HIDE DEF c
      <4> QED BY <4>1, <4>2, <4>3
    <3>2. CASE ~V!Wanted(t)
      <4>1. V!Abandon(t, V!Dropped(t))
            BY <2>7, <3>2 DEF V!Connected
      <4> QED BY <4>1, <2>2
    <3> QED BY <3>1, <3>2
  <2> QED BY <2>1, <2>3, <2>4, <2>5, <2>6, <2>7
<1>4. CASE V!SocketSteps
  <2>1. PICK s \in V!Sockets : V!HostRuns(s) \/ V!Deliver(s) \/ V!TimeoutFront(s) \/ V!Fails(s) \/ V!Closes(s)
        BY <1>4 DEF V!SocketSteps
  <2>2. CASE V!HostRuns(s) \/ V!Deliver(s) \/ V!TimeoutFront(s)
        BY Zenon, <2>2 DEF V!HostRuns, V!Deliver, V!TimeoutFront
  <2>3. CASE V!Fails(s)
        BY <2>3 DEF V!Fails
  <2>4. CASE V!Closes(s)
        BY <2>4 DEF V!Closes
  <2> QED BY <2>1, <2>2, <2>3, <2>4
<1>5. CASE \E r \in Requests : V!Bind(r) \/ V!Ask(r)
      BY Zenon, <1>5 DEF V!Bind, V!Ask
<1>6. CASE \E c \in context : V!AutoReconnect(c)
      BY <1>6 DEF V!AutoReconnect
<1>7. CASE \E c \in retiring : V!Retired(c)
      BY <1>7 DEF V!Retired, V!Disconnected
<1>8. CASE \E c \in probes : V!Probed(c)
      BY <1>8 DEF V!Probed, V!Disconnected
<1> QED BY <1>1, <1>2, <1>3, <1>4, <1>5, <1>6, <1>7, <1>8 DEF V!Next

(* In every behaviour the session's invariant holds, for any finite set of requests and any   *)
(* number of sockets, hosts, selections, retries and faults.                                  *)
THEOREM SessionHolds ==
  ASSUME IsFiniteSet(Requests), MaxSockets \in Nat, Retries \in Nat, Home \notin Requests
  PROVE  Spec => []SessionInv
<1>1. Init => SessionInv
      BY SessionStarts DEF Init
<1>2. SessionInv /\ [Next]_vars => SessionInv'
  <2> SUFFICES ASSUME SessionInv, [Next]_vars
               PROVE  SessionInv'
      OBVIOUS
  <2>1. CASE SessionStep
        BY <2>1, SessionStays DEF SessionStep
  <2>2. CASE SealingStep
        BY <2>2, SessionKept DEF SealingStep
  <2>3. CASE DuplexStep
        BY <2>3, SessionKept DEF DuplexStep
  <2>4. CASE UNCHANGED vars
        BY <2>4, SessionKept DEF vars
  <2> QED BY <2>1, <2>2, <2>3, <2>4 DEF Next
<1> QED BY <1>1, <1>2, PTL DEF Spec

(* A request runs only at the host its window was bound to, once unless it only reads, no      *)
(* request receives the response to another although responses carry no identifier, and every  *)
(* open socket is the client's or an attempt's.                                                *)
THEOREM RequestsStayWithTheirHost ==
  ASSUME IsFiniteSet(Requests), MaxSockets \in Nat, Retries \in Nat, Home \notin Requests
  PROVE  Spec => []RequestsKeepTheirHost
<1>1. SessionInv => RequestsKeepTheirHost
      BY SessionKeeps DEF RequestsKeepTheirHost
<1>2. Spec => []SessionInv
      BY SessionHolds
<1> QED BY <1>1, <1>2, PTL

(* The attempt of a superseded selection never becomes the session: a connection becomes the   *)
(* client only while its selection is the present one.                                         *)
THEOREM TheSelectionPrevails ==
  ASSUME IsFiniteSet(Requests), MaxSockets \in Nat, Retries \in Nat, Home \notin Requests
  PROVE  Spec => V!SelectionPrevails
<1> DEFINE Kept == client' \notin {client, V!NoSocket} => \A c \in context' : c.gen = gen' /\ c.sock = client'
<1>1. SessionInv /\ [Next]_vars => [Kept]_V!vars
  <2> SUFFICES ASSUME SessionInv, [Next]_vars
               PROVE  [Kept]_V!vars
      OBVIOUS
  <2>1. CASE SessionStep
    <3>1. V!Next
          BY <2>1 DEF SessionStep
    <3>2. Kept
          BY <3>1, SelectionKept
    <3> QED BY <3>2
  <2>2. CASE UNCHANGED sessionVars
    <3>1. UNCHANGED V!vars
          BY <2>2 DEF sessionVars, V!vars
    <3> QED BY <3>1
  <2> QED BY <2>1, <2>2 DEF Next, SealingStep, DuplexStep, vars
<1>2. Spec => []SessionInv
      BY SessionHolds
<1>3. V!SelectionPrevails <=> [][Kept]_V!vars
      BY DEF V!SelectionPrevails
<1> QED BY <1>1, <1>2, <1>3, PTL DEF Spec

-----------------------------------------------------------------------------
(* Sealed datagrams: the replay window, the sealers and the listener. *)

(* A set of numbers has a least one. *)
LEMMA LeastNumber ==
  ASSUME NEW T \in SUBSET Nat, T # {}
  PROVE  \E x \in T : \A y \in T : x <= y
<1> DEFINE R == OpToRel(<, Nat)
<1>1. IsWellFoundedOn(R, Nat)
      BY NatLessThanWellFounded
<1>2. \A x, y \in Nat : y < x => <<y, x>> \in R
      BY DEF OpToRel
<1> HIDE DEF R
<1>3. PICK x \in T : \A y \in T : ~(<<y, x>> \in R)
      BY <1>1, WFMin
<1>4. ASSUME NEW y \in T PROVE x <= y
  <2>1. x \in Nat /\ y \in Nat
        OBVIOUS
  <2>2. ~(y < x)
        BY <1>2, <1>3, <2>1
  <2> QED BY <2>1, <2>2
<1> QED BY <1>4

(* One word of the shifted bitmap, in terms of the words before the shift. *)
WordOf(map, ws, bs, i) ==
  {b + bs : b \in {b \in map[i - ws] : b + bs < WordBits}}
    \cup IF i - ws >= 1 THEN {b + bs - WordBits : b \in {b \in map[i - ws - 1] : b + bs >= WordBits}}
         ELSE {}
Moved(m, ws, bs, i) == [m EXCEPT ![i] = WordOf(m, ws, bs, i)]
(* The fold of shift_bits over the words, from the high end. *)
Folded(it, map, ws, bs) ==
  it = [s \in SUBSET DOMAIN S!HighFirst(ws) |->
          IF s = {} THEN map ELSE Moved(it[s \ {S!Max(s)}], ws, bs, S!HighFirst(ws)[S!Max(s)])]
Fold(map, ws, bs) == CHOOSE it : Folded(it, map, ws, bs)

(* Shifting keeps what that fold leaves above the words that are emptied. *)
LEMMA ShiftIsFold ==
  ASSUME NEW map, NEW shift, ~(shift \div WordBits >= Words)
  PROVE  S!ShiftBits(map, shift) =
           [w \in S!WordIndexes |->
              IF w < shift \div WordBits THEN {}
              ELSE Fold(map, shift \div WordBits, shift % WordBits)[DOMAIN S!HighFirst(shift \div WordBits)][w]]
BY DEF S!ShiftBits, S!FoldLeft, S!MapThenFoldSet, Folded, Fold, Moved, WordOf

(* Division with remainder. *)
LEMMA Quotient ==
  ASSUME NEW n \in Nat, NEW d \in Nat \ {0}
  PROVE  /\ n \div d \in Nat /\ n % d \in 0 .. d - 1
         /\ n = d * (n \div d) + (n % d)
<1>1. n \div d \in Nat
      OBVIOUS
<1>2. n % d \in 0 .. d - 1
      OBVIOUS
<1>3. n = d * (n \div d) + (n % d)
      OBVIOUS
<1> QED BY <1>1, <1>2, <1>3

(* A larger multiple is larger by the divisor at least. *)
LEMMA Multiples ==
  ASSUME NEW d \in Nat \ {0}, NEW a \in Int, NEW b \in Int, a > b
  PROVE  d * a >= d * b + d
<1>1. PICK k \in Nat : a = b + 1 + k
  <2>1. a - b - 1 \in Nat /\ a = b + 1 + (a - b - 1)
        OBVIOUS
  <2> QED BY <2>1
<1>2. d * a = d * b + d + d * k
      BY <1>1
<1>3. d * k \in Nat
      OBVIOUS
<1>4. d * b \in Int /\ d * a \in Int
      OBVIOUS
<1> QED BY <1>2, <1>3, <1>4

(* Quotient and remainder are unique. *)
LEMMA QuotientIsUnique ==
  ASSUME NEW d \in Nat \ {0}, NEW q \in Nat, NEW r \in 0 .. d - 1, NEW n \in Nat, n = d * q + r
  PROVE  n \div d = q /\ n % d = r
<1>1. /\ n \div d \in Nat /\ n % d \in 0 .. d - 1
      /\ n = d * (n \div d) + (n % d)
      BY Quotient
<1>2. PICK p \in Nat : p = n \div d
      BY <1>1
<1>3. PICK x \in 0 .. d - 1 : x = n % d
      BY <1>1
<1>4. PICK u \in Int : u = d * p
      OBVIOUS
<1>5. PICK v \in Int : v = d * q
      OBVIOUS
<1>6. u + x = v + r
      BY <1>1, <1>2, <1>3, <1>4, <1>5
<1>7. ~(p > q)
  <2> SUFFICES ASSUME p > q PROVE FALSE
      OBVIOUS
  <2>1. u >= v + d
        BY <1>4, <1>5, Multiples
  <2> QED BY <2>1, <1>6
<1>8. ~(q > p)
  <2> SUFFICES ASSUME q > p PROVE FALSE
      OBVIOUS
  <2>1. v >= u + d
        BY <1>4, <1>5, Multiples
  <2> QED BY <2>1, <1>6
<1>9. p = q
      BY <1>7, <1>8
<1>10. x = r
      BY <1>4, <1>5, <1>6, <1>9
<1> QED BY <1>2, <1>3, <1>9, <1>10

(* The largest of a set of indexes. *)
LEMMA LargestOf ==
  ASSUME NEW n \in Nat, NEW s \in SUBSET (1 .. n), s # {}
  PROVE  S!Max(s) \in s /\ \A y \in s : S!Max(s) >= y
<1> DEFINE T == {n - i : i \in s}
<1>1. T \in SUBSET Nat /\ T # {}
  <2>1. \A i \in s : n - i \in Nat
        OBVIOUS
  <2>2. PICK i \in s : TRUE
        OBVIOUS
  <2>3. n - i \in T
        OBVIOUS
  <2> QED BY <2>1, <2>3
<1>2. PICK t \in T : \A u \in T : t <= u
      BY <1>1, LeastNumber
<1>3. PICK x \in s : t = n - x
      OBVIOUS
<1>4. ASSUME NEW y \in s PROVE x >= y
  <2>1. n - y \in T
        OBVIOUS
  <2>2. n - x <= n - y
        BY <1>2, <1>3, <2>1
  <2>3. x \in 1 .. n /\ y \in 1 .. n
        OBVIOUS
  <2> QED BY <2>2, <2>3
<1>5. \E z \in s : \A y \in s : z >= y
      BY <1>4
<1> QED BY <1>5, Zenon DEF S!Max

(* The bitmaps of the window. *)
Maps == [S!WordIndexes -> SUBSET (0 .. WordBits - 1)]
(* The bitmap when the words numbered s from the high end are done. *)
Done(map, ws, bs, s) ==
  [w \in S!WordIndexes |-> IF Words - w \in s THEN WordOf(map, ws, bs, w) ELSE map[w]]

(* A word reads only words that are not done yet: the next one is as if nothing were. *)
LEMMA DoneNext ==
  ASSUME Words \in Nat \ {0}, NEW map \in Maps, NEW ws \in 0 .. Words - 1, NEW bs,
         NEW s \in SUBSET (1 .. Words - ws), s # {}
  PROVE  Done(map, ws, bs, s)
           = Moved(Done(map, ws, bs, s \ {S!Max(s)}), ws, bs, S!HighFirst(ws)[S!Max(s)])
<1> DEFINE x == S!Max(s)
           m == Done(map, ws, bs, s \ {x})
<1>1. x \in 1 .. Words - ws /\ \A y \in s : x >= y
  <2>1. Words - ws \in Nat
        OBVIOUS
  <2> QED BY <2>1, LargestOf
<1>1a. x \in s
  <2>1. Words - ws \in Nat
        OBVIOUS
  <2> QED BY <2>1, LargestOf
<1>2. S!HighFirst(ws)[x] = Words - x
      BY <1>1 DEF S!HighFirst
<1> HIDE DEF x
<1>3. Words - x \in S!WordIndexes /\ (Words - x) - ws >= 0
      BY <1>1 DEF S!WordIndexes
<1>4. m[(Words - x) - ws] = map[(Words - x) - ws]
  <2>1. (Words - x) - ws \in S!WordIndexes
        BY <1>1 DEF S!WordIndexes
  <2>2. Words - ((Words - x) - ws) = x + ws
        BY <1>1
  <2>3. x + ws \notin s \ {x}
        BY <1>1
  <2> QED BY <2>1, <2>2, <2>3 DEF Done
<1>5. (Words - x) - ws >= 1 => m[(Words - x) - ws - 1] = map[(Words - x) - ws - 1]
  <2> SUFFICES ASSUME (Words - x) - ws >= 1
               PROVE  m[(Words - x) - ws - 1] = map[(Words - x) - ws - 1]
      OBVIOUS
  <2>1. (Words - x) - ws - 1 \in S!WordIndexes
        BY <1>1 DEF S!WordIndexes
  <2>2. Words - ((Words - x) - ws - 1) = x + ws + 1
        BY <1>1
  <2>3. x + ws + 1 \notin s \ {x}
        BY <1>1
  <2> QED BY <2>1, <2>2, <2>3 DEF Done
<1>6. WordOf(m, ws, bs, Words - x) = WordOf(map, ws, bs, Words - x)
  <2> HIDE DEF m
  <2> QED BY <1>4, <1>5 DEF WordOf
<1>7. Moved(m, ws, bs, Words - x) = [m EXCEPT ![Words - x] = WordOf(map, ws, bs, Words - x)]
      BY <1>6, Zenon DEF Moved
<1>8. ASSUME NEW w \in S!WordIndexes
      PROVE  Done(map, ws, bs, s)[w] = [m EXCEPT ![Words - x] = WordOf(map, ws, bs, Words - x)][w]
  <2>1. CASE w = Words - x
    <3>1. Words - w = x
          BY <2>1, <1>1
    <3>2. Done(map, ws, bs, s)[w] = WordOf(map, ws, bs, w)
          BY <3>1, <1>1a DEF Done
    <3>3. w \in DOMAIN m
          BY DEF Done
    <3> HIDE DEF m
    <3>4. [m EXCEPT ![Words - x] = WordOf(map, ws, bs, Words - x)][w] = WordOf(map, ws, bs, Words - x)
          BY <2>1, <3>3
    <3> QED BY <2>1, <3>2, <3>4
  <2>2. CASE w # Words - x
    <3>1. Words - w # x
          BY <2>2, <1>1 DEF S!WordIndexes
    <3>2. m[w] = Done(map, ws, bs, s)[w]
          BY <3>1 DEF Done
    <3>3. w \in DOMAIN m
          BY DEF Done
    <3> HIDE DEF m
    <3>4. [m EXCEPT ![Words - x] = WordOf(map, ws, bs, Words - x)][w] = m[w]
          BY <2>2, <3>3
    <3> QED BY <3>2, <3>4
  <2> QED BY <2>1, <2>2
<1>9. DOMAIN Done(map, ws, bs, s) = S!WordIndexes /\ DOMAIN m = S!WordIndexes
      BY DEF Done
<1>10. Done(map, ws, bs, s) = [w \in S!WordIndexes |-> Done(map, ws, bs, s)[w]]
       BY <1>9 DEF Done
<1>11. [m EXCEPT ![Words - x] = WordOf(map, ws, bs, Words - x)]
         = [w \in S!WordIndexes |-> [m EXCEPT ![Words - x] = WordOf(map, ws, bs, Words - x)][w]]
  <2> HIDE DEF m
  <2> QED BY <1>9
<1>12. Done(map, ws, bs, s) = [m EXCEPT ![Words - x] = WordOf(map, ws, bs, Words - x)]
  <2> HIDE DEF m
  <2>1. [w \in S!WordIndexes |-> Done(map, ws, bs, s)[w]]
          = [w \in S!WordIndexes |-> [m EXCEPT ![Words - x] = WordOf(map, ws, bs, Words - x)][w]]
        BY <1>8
  <2> QED BY <1>10, <1>11, <2>1, Zenon
<1>13. Done(map, ws, bs, s) = Moved(m, ws, bs, Words - x)
       BY <1>7, <1>12, Zenon
<1>14. Words - x = S!HighFirst(ws)[x]
       BY <1>2 DEF x
<1>15. Done(map, ws, bs, s) = Moved(m, ws, bs, S!HighFirst(ws)[x])
  <2> HIDE DEF m
  <2> QED BY <1>13, <1>14, Zenon
<1> QED BY <1>15 DEF x

(* So the fold computes every word from the words before the shift. *)
LEMMA FoldIsDone ==
  ASSUME Words \in Nat \ {0}, NEW map \in Maps, NEW ws \in 0 .. Words - 1, NEW bs
  PROVE  /\ DOMAIN S!HighFirst(ws) = 1 .. Words - ws
         /\ Fold(map, ws, bs)[1 .. Words - ws] = Done(map, ws, bs, 1 .. Words - ws)
<1> DEFINE N == 1 .. Words - ws
           it == Fold(map, ws, bs)
           all == [s \in SUBSET N |-> Done(map, ws, bs, s)]
<1>1. DOMAIN S!HighFirst(ws) = N
      BY DEF S!HighFirst
<1>2. Words - ws \in Nat
      OBVIOUS
<1> HIDE DEF N
<1>3. Done(map, ws, bs, {}) = map
      BY DEF Done, Maps
<1>4. ASSUME NEW s \in SUBSET N, s # {}
      PROVE  Done(map, ws, bs, s) = Moved(Done(map, ws, bs, s \ {S!Max(s)}), ws, bs, S!HighFirst(ws)[S!Max(s)])
      BY <1>4, DoneNext DEF N
<1>5. Folded(all, map, ws, bs)
  <2>1. ASSUME NEW s \in SUBSET N
        PROVE  all[s] = IF s = {} THEN map ELSE Moved(all[s \ {S!Max(s)}], ws, bs, S!HighFirst(ws)[S!Max(s)])
    <3>1. all[s] = Done(map, ws, bs, s)
          OBVIOUS
    <3>2. s \ {S!Max(s)} \in SUBSET N
          OBVIOUS
    <3>3. all[s \ {S!Max(s)}] = Done(map, ws, bs, s \ {S!Max(s)})
          BY <3>2
    <3> HIDE DEF all
    <3>4. CASE s = {}
          BY <3>1, <3>4, <1>3
    <3>5. CASE s # {}
          BY <3>1, <3>3, <3>5, <1>4
    <3> QED BY <3>4, <3>5
  <2>2. all = [s \in SUBSET N |-> all[s]]
        OBVIOUS
  <2> HIDE DEF all
  <2>3. [s \in SUBSET N |-> all[s]]
          = [s \in SUBSET N |-> IF s = {} THEN map ELSE Moved(all[s \ {S!Max(s)}], ws, bs, S!HighFirst(ws)[S!Max(s)])]
        BY <2>1
  <2>4. all = [s \in SUBSET N |-> IF s = {} THEN map ELSE Moved(all[s \ {S!Max(s)}], ws, bs, S!HighFirst(ws)[S!Max(s)])]
        BY <2>2, <2>3, Zenon
  <2> QED BY <1>1, <2>4 DEF Folded
<1>6. Folded(it, map, ws, bs)
  <2> HIDE DEF all
  <2> QED BY <1>5, Zenon DEF Fold
<1>7. ASSUME NEW s \in SUBSET N
      PROVE  it[s] = IF s = {} THEN map ELSE Moved(it[s \ {S!Max(s)}], ws, bs, S!HighFirst(ws)[S!Max(s)])
  <2> HIDE DEF it, all
  <2>1. it = [r \in SUBSET N |-> IF r = {} THEN map ELSE Moved(it[r \ {S!Max(r)}], ws, bs, S!HighFirst(ws)[S!Max(r)])]
        BY <1>1, <1>6 DEF Folded
  <2> QED BY <2>1, Zenon
<1> HIDE DEF it, all
<1>8. ASSUME NEW s \in SUBSET N
      PROVE  IsFiniteSet(s) /\ Cardinality(s) \in Nat
  <2>1. IsFiniteSet(N)
        BY <1>2, FS_Interval DEF N
  <2> QED BY <2>1, FS_Subset, FS_CardinalityType
<1> DEFINE Wrong == {s \in SUBSET N : it[s] # Done(map, ws, bs, s)}
           T == {Cardinality(s) : s \in Wrong}
<1>9. Wrong = {}
  <2> SUFFICES ASSUME Wrong # {} PROVE FALSE
      OBVIOUS
  <2>1. T \in SUBSET Nat /\ T # {}
        BY <1>8
  <2>2. PICK t \in T : \A u \in T : t <= u
    <3> HIDE DEF T
    <3> QED BY <2>1, LeastNumber
  <2>3. PICK s \in Wrong : Cardinality(s) = t
        OBVIOUS
  <2>4. s \in SUBSET N /\ it[s] # Done(map, ws, bs, s)
        OBVIOUS
  <2>5. s # {}
        BY <1>3, <1>7, <2>4
  <2>6. S!Max(s) \in s
        BY <1>2, <2>4, <2>5, LargestOf DEF N
  <2>7. Cardinality(s \ {S!Max(s)}) = Cardinality(s) - 1
        BY <1>8, <2>4, <2>6, FS_RemoveElement
  <2>8. s \ {S!Max(s)} \in SUBSET N
        BY <2>4
  <2>9. s \ {S!Max(s)} \notin Wrong
    <3> SUFFICES ASSUME s \ {S!Max(s)} \in Wrong PROVE FALSE
        OBVIOUS
    <3>1. Cardinality(s \ {S!Max(s)}) \in T
          OBVIOUS
    <3>2. t <= Cardinality(s \ {S!Max(s)})
          BY <2>2, <3>1
    <3>3. Cardinality(s) \in Nat
          BY <1>8, <2>4
    <3> HIDE DEF T, Wrong
    <3> QED BY <2>3, <2>7, <3>2, <3>3
  <2>10. it[s \ {S!Max(s)}] = Done(map, ws, bs, s \ {S!Max(s)})
         BY <2>8, <2>9
  <2>11. it[s] = Moved(it[s \ {S!Max(s)}], ws, bs, S!HighFirst(ws)[S!Max(s)])
         BY <1>7, <2>4, <2>5
  <2>12. Done(map, ws, bs, s) = Moved(Done(map, ws, bs, s \ {S!Max(s)}), ws, bs, S!HighFirst(ws)[S!Max(s)])
         BY <1>4, <2>4, <2>5
  <2> QED BY <2>4, <2>10, <2>11, <2>12, Zenon
<1>10. it[N] = Done(map, ws, bs, N)
       BY <1>9
<1> QED BY <1>1, <1>10 DEF N, it

(* The bit of an age. *)
Has(map, age) == age % WordBits \in map[age \div WordBits]

(* Where an age is in the bitmap. *)
LEMMA Places ==
  ASSUME WordBits \in Nat \ {0}, Words \in Nat \ {0}, NEW age \in 0 .. S!Width - 1
  PROVE  /\ age \div WordBits \in S!WordIndexes /\ age % WordBits \in 0 .. WordBits - 1
         /\ age = WordBits * (age \div WordBits) + (age % WordBits)
<1>1. age \in Nat
  <2>1. PICK v \in Nat : v = S!Width
        BY DEF S!Width
  <2> QED BY <2>1
<1>2. /\ age \div WordBits \in Nat /\ age % WordBits \in 0 .. WordBits - 1
      /\ age = WordBits * (age \div WordBits) + (age % WordBits)
      BY <1>1, Quotient
<1>3. PICK q \in Nat : q = age \div WordBits
      BY <1>2
<1>4. PICK p \in 0 .. WordBits - 1 : p = age % WordBits
      BY <1>2
<1>5. q < Words
  <2> SUFFICES ASSUME q >= Words PROVE FALSE
      OBVIOUS
  <2>1. PICK u \in Nat : u = WordBits * q
        OBVIOUS
  <2>2. PICK v \in Nat : v = WordBits * Words
        OBVIOUS
  <2>3. u >= v
    <3>1. CASE q = Words
          BY <3>1, <2>1, <2>2
    <3>2. CASE q > Words
      <4>1. WordBits * q >= WordBits * Words + WordBits
            BY <3>2, Multiples
      <4> QED BY <4>1, <2>1, <2>2
    <3> QED BY <3>1, <3>2
  <2>4. age = u + p
        BY <1>2, <1>3, <1>4, <2>1
  <2>5. age < v
        BY <2>2 DEF S!Width
  <2> QED BY <2>3, <2>4, <2>5
<1> QED BY <1>2, <1>3, <1>5 DEF S!WordIndexes

(* Shifting moves every bit to an age that is higher by the shift, and the oldest out. *)
LEMMA ShiftEffect ==
  ASSUME WordBits \in Nat \ {0}, Words \in Nat \ {0}, NEW map \in Maps, NEW shift \in Nat
  PROVE  /\ S!ShiftBits(map, shift) \in Maps
         /\ \A age \in 0 .. S!Width - 1 :
              Has(S!ShiftBits(map, shift), age) <=> age >= shift /\ Has(map, age - shift)
<1> DEFINE ws == shift \div WordBits
           bs == shift % WordBits
           new == S!ShiftBits(map, shift)
<1>1. /\ ws \in Nat /\ bs \in 0 .. WordBits - 1 /\ shift = WordBits * ws + bs
      BY Quotient
<1>2. CASE ws >= Words
  <2>1. new = [w \in S!WordIndexes |-> {}]
        BY <1>2 DEF S!ShiftBits, S!Blank
  <2>2. new \in Maps
        BY <2>1 DEF Maps
  <2>3. ASSUME NEW age \in 0 .. S!Width - 1
        PROVE  ~Has(new, age) /\ ~(age >= shift)
    <3>1. age \div WordBits \in S!WordIndexes
          BY Places
    <3>2. ~Has(new, age)
      <4> HIDE DEF new
      <4> QED BY <2>1, <3>1 DEF Has
    <3>3. PICK u \in Nat : u = WordBits * ws
          BY <1>1
    <3>4. PICK v \in Nat : v = WordBits * Words
          OBVIOUS
    <3>5. u >= v
      <4> HIDE DEF ws, bs
      <4>1. CASE ws = Words
            BY <4>1, <3>3, <3>4
      <4>2. CASE ws > Words
        <5>1. WordBits * ws >= WordBits * Words + WordBits
              BY <4>2, <1>1, Multiples
        <5> QED BY <5>1, <3>3, <3>4
      <4> QED BY <4>1, <4>2, <1>1, <1>2
    <3>6. age < v
          BY <3>4 DEF S!Width
    <3>7. shift = u + bs
          BY <1>1, <3>3
    <3> HIDE DEF ws, bs, new
    <3> QED BY <1>1, <3>2, <3>5, <3>6, <3>7
  <2> HIDE DEF new
  <2> QED BY <2>2, <2>3 DEF new
<1>3. CASE ~(ws >= Words)
  <2>1. ws \in 0 .. Words - 1
    <3> HIDE DEF ws
    <3> QED BY <1>1, <1>3
  <2>2. new = [w \in S!WordIndexes |->
                 IF w < ws THEN {} ELSE Fold(map, ws, bs)[DOMAIN S!HighFirst(ws)][w]]
        BY <1>3, ShiftIsFold
  <2> HIDE DEF new, ws, bs
  <2>3. DOMAIN S!HighFirst(ws) = 1 .. Words - ws
        BY <2>1, FoldIsDone
  <2>4. Fold(map, ws, bs)[1 .. Words - ws] = Done(map, ws, bs, 1 .. Words - ws)
        BY <2>1, FoldIsDone
  <2>5. ASSUME NEW w \in S!WordIndexes
        PROVE  new[w] = IF w < ws THEN {} ELSE WordOf(map, ws, bs, w)
    <3>1. new[w] = IF w < ws THEN {} ELSE Done(map, ws, bs, 1 .. Words - ws)[w]
          BY <2>2, <2>3, <2>4
    <3>2. CASE w < ws
          BY <3>1, <3>2
    <3>3. CASE ~(w < ws)
      <4>1. Words - w \in 1 .. Words - ws
            BY <3>3, <2>1 DEF S!WordIndexes
      <4>2. Done(map, ws, bs, 1 .. Words - ws)[w] = WordOf(map, ws, bs, w)
            BY <4>1 DEF Done
      <4> QED BY <3>1, <3>3, <4>2
    <3> QED BY <3>2, <3>3
  <2>6. ASSUME NEW w \in S!WordIndexes, ~(w < ws)
        PROVE  /\ WordOf(map, ws, bs, w) \in SUBSET (0 .. WordBits - 1)
               /\ \A p \in 0 .. WordBits - 1 :
                    p \in WordOf(map, ws, bs, w) <=>
                      \/ p >= bs /\ p - bs \in map[w - ws]
                      \/ p < bs /\ w - ws >= 1 /\ p - bs + WordBits \in map[w - ws - 1]
    <3>1. w \in 0 .. Words - 1 /\ w - ws \in S!WordIndexes
          BY <2>1, <2>6 DEF S!WordIndexes
    <3>2. map[w - ws] \in SUBSET (0 .. WordBits - 1)
          BY <3>1 DEF Maps
    <3>3. w - ws >= 1 => map[w - ws - 1] \in SUBSET (0 .. WordBits - 1)
      <4> SUFFICES ASSUME w - ws >= 1 PROVE map[w - ws - 1] \in SUBSET (0 .. WordBits - 1)
          OBVIOUS
      <4>1. w - ws - 1 \in S!WordIndexes
            BY <2>1, <3>1 DEF S!WordIndexes
      <4> QED BY <4>1 DEF Maps
    <3>4. ASSUME NEW p
          PROVE  p \in WordOf(map, ws, bs, w) <=>
                   \/ \E b \in map[w - ws] : b + bs < WordBits /\ p = b + bs
                   \/ w - ws >= 1 /\ \E b \in map[w - ws - 1] : b + bs >= WordBits /\ p = b + bs - WordBits
          BY DEF WordOf
    <3>5. ASSUME NEW p \in WordOf(map, ws, bs, w) PROVE p \in 0 .. WordBits - 1
          BY <1>1, <3>2, <3>3, <3>4
    <3>6. ASSUME NEW p \in 0 .. WordBits - 1
          PROVE  p \in WordOf(map, ws, bs, w) <=>
                      \/ p >= bs /\ p - bs \in map[w - ws]
                      \/ p < bs /\ w - ws >= 1 /\ p - bs + WordBits \in map[w - ws - 1]
      <4>1. ASSUME p >= bs, p - bs \in map[w - ws] PROVE p \in WordOf(map, ws, bs, w)
        <5>1. (p - bs) + bs < WordBits /\ p = (p - bs) + bs
              BY <1>1
        <5> QED BY <4>1, <5>1, <3>4
      <4>2. ASSUME p < bs, w - ws >= 1, p - bs + WordBits \in map[w - ws - 1]
            PROVE  p \in WordOf(map, ws, bs, w)
        <5>1. (p - bs + WordBits) + bs >= WordBits /\ p = (p - bs + WordBits) + bs - WordBits
              BY <1>1
        <5> QED BY <4>2, <5>1, <3>4
      <4>3. ASSUME p \in WordOf(map, ws, bs, w)
            PROVE  \/ p >= bs /\ p - bs \in map[w - ws]
                   \/ p < bs /\ w - ws >= 1 /\ p - bs + WordBits \in map[w - ws - 1]
        <5>1. CASE \E b \in map[w - ws] : b + bs < WordBits /\ p = b + bs
          <6>1. PICK b \in map[w - ws] : b + bs < WordBits /\ p = b + bs
                BY <5>1
          <6>2. b \in 0 .. WordBits - 1
                BY <3>2, <6>1
          <6>3. p >= bs /\ p - bs = b
                BY <1>1, <6>1, <6>2
          <6> QED BY <6>1, <6>3
        <5>2. CASE w - ws >= 1 /\ \E b \in map[w - ws - 1] : b + bs >= WordBits /\ p = b + bs - WordBits
          <6>1. PICK b \in map[w - ws - 1] : b + bs >= WordBits /\ p = b + bs - WordBits
                BY <5>2
          <6>2. b \in 0 .. WordBits - 1
                BY <3>3, <5>2, <6>1
          <6>3. p < bs /\ p - bs + WordBits = b
                BY <1>1, <6>1, <6>2
          <6> QED BY <5>2, <6>1, <6>3
        <5> QED BY <4>3, <3>4, <5>1, <5>2
      <4> QED BY <4>1, <4>2, <4>3
    <3> QED BY <3>5, <3>6
  <2>7. new \in Maps
    <3>1. \A w \in S!WordIndexes : new[w] \in SUBSET (0 .. WordBits - 1)
          BY <2>5, <2>6
    <3>2. new = [w \in S!WordIndexes |-> new[w]]
          BY <2>2
    <3> QED BY <3>1, <3>2 DEF Maps
  <2>8. ASSUME NEW age \in 0 .. S!Width - 1
        PROVE  Has(new, age) <=> age >= shift /\ Has(map, age - shift)
    <3>1. PICK w \in S!WordIndexes : w = age \div WordBits
          BY Places
    <3>2. PICK p \in 0 .. WordBits - 1 : p = age % WordBits
          BY Places
    <3>3. age = WordBits * w + p
          BY <3>1, <3>2, Places
    <3>4. Has(new, age) <=> p \in new[w]
          BY <3>1, <3>2 DEF Has
    <3>5. PICK u \in Nat : u = WordBits * w
          BY DEF S!WordIndexes
    <3>6. PICK v \in Nat : v = WordBits * ws
          BY <1>1
    <3>7. age = u + p /\ shift = v + bs
          BY <1>1, <3>3, <3>5, <3>6
    <3>8. w \in Nat
          BY DEF S!WordIndexes
    <3>9. CASE w < ws
      <4>1. v >= u + WordBits
            BY <1>1, <3>5, <3>6, <3>8, <3>9, Multiples
      <4>2. ~(age >= shift)
            BY <1>1, <3>7, <4>1
      <4> QED BY <2>5, <3>4, <3>9, <4>2
    <3>10. CASE ~(w < ws)
      <4>1. PICK k \in Nat : k = w - ws
            BY <1>1, <3>8, <3>10
      <4>2. u = v + WordBits * k
        <5>1. w = ws + k
              BY <1>1, <3>8, <4>1
        <5>2. WordBits * (ws + k) = WordBits * ws + WordBits * k
              BY <1>1
        <5> QED BY <3>5, <3>6, <5>1, <5>2
      <4>3. PICK z \in Nat : z = WordBits * k
            OBVIOUS
      <4>4. age - shift = z + p - bs
            BY <1>1, <3>7, <4>2, <4>3
      <4>5. p \in new[w] <=> \/ p >= bs /\ p - bs \in map[k]
                             \/ p < bs /\ k >= 1 /\ p - bs + WordBits \in map[k - 1]
            BY <2>5, <2>6, <3>10, <4>1
      <4>6. CASE p >= bs
        <5>1. age >= shift /\ age - shift \in Nat
              BY <1>1, <3>7, <4>2, <4>3, <4>6
        <5>2. age - shift = WordBits * k + (p - bs) /\ p - bs \in 0 .. WordBits - 1
              BY <1>1, <4>3, <4>4, <4>6
        <5>3. (age - shift) \div WordBits = k /\ (age - shift) % WordBits = p - bs
          <6>1. PICK n \in Nat : n = age - shift
                BY <5>1
          <6>2. PICK r \in 0 .. WordBits - 1 : r = p - bs
                BY <5>2
          <6>3. n = WordBits * k + r
                BY <5>2, <6>1, <6>2
          <6>4. n \div WordBits = k /\ n % WordBits = r
                BY <6>3, QuotientIsUnique
          <6> QED BY <6>1, <6>2, <6>4
        <5>4. Has(map, age - shift) <=> p - bs \in map[k]
              BY <5>3 DEF Has
        <5>5. ~(p < bs)
              BY <1>1, <4>6
        <5> QED BY <3>4, <4>5, <4>6, <5>1, <5>4, <5>5
      <4>7. CASE p < bs /\ k >= 1
        <5>1. PICK l \in Nat : l = k - 1
              BY <4>7
        <5>2. PICK y \in Nat : y = WordBits * l
              OBVIOUS
        <5>3. z = y + WordBits
          <6>1. k = l + 1
                BY <5>1
          <6>2. WordBits * (l + 1) = WordBits * l + WordBits
                OBVIOUS
          <6> QED BY <4>3, <5>2, <6>1, <6>2
        <5>4. age >= shift /\ age - shift \in Nat
              BY <1>1, <3>7, <4>2, <4>3, <4>7, <5>2, <5>3
        <5>5. age - shift = WordBits * l + (p - bs + WordBits) /\ p - bs + WordBits \in 0 .. WordBits - 1
              BY <1>1, <4>4, <4>7, <5>2, <5>3
        <5>6. (age - shift) \div WordBits = l /\ (age - shift) % WordBits = p - bs + WordBits
          <6>1. PICK n \in Nat : n = age - shift
                BY <5>4
          <6>2. PICK r \in 0 .. WordBits - 1 : r = p - bs + WordBits
                BY <5>5
          <6>3. n = WordBits * l + r
                BY <5>5, <6>1, <6>2
          <6>4. n \div WordBits = l /\ n % WordBits = r
                BY <6>3, QuotientIsUnique
          <6> QED BY <6>1, <6>2, <6>4
        <5>7. Has(map, age - shift) <=> p - bs + WordBits \in map[k - 1]
              BY <5>1, <5>6 DEF Has
        <5>8. ~(p >= bs)
              BY <1>1, <4>7
        <5> QED BY <3>4, <4>5, <4>7, <5>4, <5>7, <5>8
      <4>8. CASE p < bs /\ ~(k >= 1)
        <5>1. k = 0
              BY <4>8
        <5>2. z = 0
              BY <4>3, <5>1
        <5>3. ~(age >= shift)
              BY <1>1, <3>7, <4>2, <4>3, <4>8, <5>2
        <5>4. ~(p >= bs)
              BY <1>1, <4>8
        <5> QED BY <3>4, <4>5, <4>8, <5>3, <5>4
      <4>9. p >= bs \/ (p < bs /\ k >= 1) \/ (p < bs /\ ~(k >= 1))
            BY <1>1
      <4> QED BY <4>6, <4>7, <4>8, <4>9
    <3> QED BY <3>9, <3>10
  <2> QED BY <2>7, <2>8 DEF new
<1> QED BY <1>2, <1>3

(* Planting sets the bit of one age. *)
LEMMA PlantEffect ==
  ASSUME WordBits \in Nat \ {0}, Words \in Nat \ {0}, NEW map \in Maps, NEW age \in 0 .. S!Width - 1
  PROVE  /\ S!Plant(map, age) \in Maps
         /\ \A a \in 0 .. S!Width - 1 : Has(S!Plant(map, age), a) <=> a = age \/ Has(map, a)
<1> DEFINE w == age \div WordBits
           p == age % WordBits
           new == S!Plant(map, age)
<1>1. w \in S!WordIndexes /\ p \in 0 .. WordBits - 1 /\ age = WordBits * w + p
      BY Places
<1>2. new = [map EXCEPT ![w] = map[w] \cup {p}]
      BY DEF S!Plant
<1> HIDE DEF w, p, new
<1>3. map[w] \cup {p} \in SUBSET (0 .. WordBits - 1)
      BY <1>1 DEF Maps
<1>4. new \in Maps
      BY <1>2, <1>3 DEF Maps
<1>5. new[w] = map[w] \cup {p} /\ \A v \in S!WordIndexes : v # w => new[v] = map[v]
      BY <1>1, <1>2 DEF Maps
<1>6. ASSUME NEW a \in 0 .. S!Width - 1
      PROVE  Has(new, a) <=> a = age \/ Has(map, a)
  <2>1. PICK v \in S!WordIndexes : v = a \div WordBits
        BY Places
  <2>2. PICK q \in 0 .. WordBits - 1 : q = a % WordBits
        BY Places
  <2>3. a = WordBits * v + q
        BY <2>1, <2>2, Places
  <2>4. Has(new, a) <=> q \in new[v]
        BY <2>1, <2>2 DEF Has
  <2>5. Has(map, a) <=> q \in map[v]
        BY <2>1, <2>2 DEF Has
  <2>6. a = age <=> v = w /\ q = p
    <3>1. v = w /\ q = p => a = age
          BY <1>1, <2>3
    <3>2. a = age => v = w /\ q = p
          BY <2>1, <2>2 DEF w, p
    <3> QED BY <3>1, <3>2
  <2>7. CASE v = w
        BY <1>5, <2>4, <2>5, <2>6, <2>7
  <2>8. CASE v # w
        BY <1>5, <2>4, <2>5, <2>6, <2>8
  <2> QED BY <2>7, <2>8
<1> QED BY <1>4, <1>6 DEF new

(* The bitmap agrees with the set of the counters accepted: the bit of an age is set exactly *)
(* when that counter was accepted, or is 0, which no sealer starts at.                       *)
Exact(high, map, A) ==
  /\ high \in Nat /\ map \in Maps /\ A \subseteq Nat
  /\ \A c \in A : c <= high
  /\ high > 0 => high \in A
  /\ \A age \in 1 .. S!Width - 1 : age <= high => (Has(map, age) <=> high - age \in A \/ age = high)

(* A window that was reset agrees with nothing accepted. *)
LEMMA BlankIsExact ==
  ASSUME WordBits \in Nat \ {0}, Words \in Nat \ {0}
  PROVE  Exact(0, S!Blank, {})
<1>1. S!Blank \in Maps
      BY DEF Maps, S!Blank
<1>2. \A age \in 1 .. S!Width - 1 : ~(age <= 0)
      OBVIOUS
<1> QED BY <1>1, <1>2 DEF Exact

(* Accepting a counter the window does not refuse records that counter and loses none. *)
LEMMA AcceptIsExact ==
  ASSUME WordBits \in Nat \ {0}, Words \in Nat \ {0}, NEW high, NEW map, NEW A, Exact(high, map, A),
         NEW c \in Nat \ {0}, S!CheckIn(high, map, c)
  PROVE  /\ c \notin A
         /\ Exact(S!AcceptIn(high, map, c).highest, S!AcceptIn(high, map, c).bits, A \cup {c})
<1> DEFINE new == S!AcceptIn(high, map, c)
<1>0. S!Width \in Nat
      BY DEF S!Width
<1>1. /\ high \in Nat /\ map \in Maps /\ A \subseteq Nat
      /\ \A d \in A : d <= high
      /\ high > 0 => high \in A
      /\ \A age \in 1 .. S!Width - 1 : age <= high => (Has(map, age) <=> high - age \in A \/ age = high)
      BY DEF Exact
<1>2. CASE c > high
  <2> DEFINE delta == c - high
             nm == IF delta >= S!Width THEN S!Blank ELSE S!Advance(map, delta)
  <2>1. new.highest = c /\ new.bits = nm
        BY <1>2 DEF S!AcceptIn
  <2>2. c \notin A
        BY <1>1, <1>2
  <2>3. delta \in Nat \ {0} /\ c = high + delta
        BY <1>1, <1>2
  <2>4. nm \in Maps /\ \A age \in 1 .. S!Width - 1 :
                         age <= c => (Has(nm, age) <=> c - age \in A \cup {c} \/ age = c)
    <3>1. CASE delta >= S!Width
      <4>1. nm = S!Blank
            BY <3>1
      <4>2. S!Blank \in Maps
            BY DEF Maps, S!Blank
      <4>3. ASSUME NEW age \in 1 .. S!Width - 1
            PROVE  ~Has(S!Blank, age) /\ c - age \notin A \cup {c} /\ age # c
        <5>1. age \in 0 .. S!Width - 1
              BY <1>0
        <5>2. age \div WordBits \in S!WordIndexes
              BY <5>1, Places
        <5>3. ~Has(S!Blank, age)
              BY <5>2 DEF Has, S!Blank
        <5> HIDE DEF delta
        <5>4. c - age > high /\ c - age # c /\ age # c
              BY <1>0, <1>1, <2>3, <3>1
        <5> QED BY <1>1, <5>3, <5>4
      <4> HIDE DEF nm
      <4> QED BY <4>1, <4>2, <4>3
    <3>2. CASE ~(delta >= S!Width)
      <4>1. nm = S!Plant(S!ShiftBits(map, delta), delta)
            BY <3>2 DEF S!Advance
      <4> HIDE DEF delta, nm
      <4>2. /\ S!ShiftBits(map, delta) \in Maps
            /\ \A age \in 0 .. S!Width - 1 :
                 Has(S!ShiftBits(map, delta), age) <=> age >= delta /\ Has(map, age - delta)
            BY <1>1, <2>3, ShiftEffect
      <4>3. delta \in 0 .. S!Width - 1
            BY <1>0, <2>3, <3>2
      <4>4. PICK m : m = S!ShiftBits(map, delta)
            OBVIOUS
      <4>5. /\ S!Plant(m, delta) \in Maps
            /\ \A a \in 0 .. S!Width - 1 : Has(S!Plant(m, delta), a) <=> a = delta \/ Has(m, a)
            BY <4>2, <4>3, <4>4, PlantEffect
      <4>6. ASSUME NEW age \in 1 .. S!Width - 1, age <= c
            PROVE  Has(nm, age) <=> c - age \in A \cup {c} \/ age = c
        <5>1. age \in 0 .. S!Width - 1
              BY <1>0
        <5>2. Has(nm, age) <=> age = delta \/ (age >= delta /\ Has(map, age - delta))
              BY <4>1, <4>2, <4>4, <4>5, <5>1
        <5>3. c - age # c
              BY <5>1
        <5>4. CASE age < delta
          <6>1. c - age > high
                BY <1>1, <2>3, <5>1, <5>4
          <6>2. age # c /\ age # delta /\ ~(age >= delta)
                BY <1>1, <2>3, <5>1, <5>4
          <6> QED BY <1>1, <5>2, <5>3, <6>1, <6>2
        <5>5. CASE age = delta
          <6>1. c - age = high
                BY <1>1, <2>3, <5>5
          <6>2. CASE high > 0
                BY <1>1, <5>2, <5>5, <6>1, <6>2
          <6>3. CASE high = 0
            <7>1. age = c
                  BY <2>3, <5>5, <6>3
            <7> QED BY <5>2, <5>5, <7>1
          <6> QED BY <1>1, <6>2, <6>3
        <5>6. CASE age > delta
          <6>1. age - delta \in 1 .. S!Width - 1 /\ age - delta <= high
                BY <1>0, <1>1, <2>3, <5>1, <5>6, <4>6
          <6>2. Has(map, age - delta) <=> high - (age - delta) \in A \/ age - delta = high
                BY <1>1, <6>1
          <6>3. high - (age - delta) = c - age /\ (age - delta = high <=> age = c)
                BY <1>1, <2>3, <5>1
          <6>4. age # delta /\ age >= delta
                BY <2>3, <5>1, <5>6
          <6> QED BY <5>2, <5>3, <6>2, <6>3, <6>4
        <5> QED BY <2>3, <5>1, <5>4, <5>5, <5>6
      <4> QED BY <4>1, <4>4, <4>5, <4>6
    <3> QED BY <3>1, <3>2
  <2>5. \A d \in A \cup {c} : d <= c
        BY <1>1, <1>2
  <2> HIDE DEF delta, nm, new
  <2>6. Exact(c, nm, A \cup {c})
        BY <1>1, <2>4, <2>5 DEF Exact
  <2> QED BY <2>1, <2>2, <2>6 DEF new
<1>3. CASE ~(c > high)
  <2> DEFINE g == high - c
  <2>1. g \in 1 .. S!Width - 1 /\ ~Has(map, g)
        BY <1>3 DEF S!CheckIn, Has
  <2>2. new.highest = high /\ new.bits = S!Plant(map, g)
        BY <1>3, <2>1 DEF S!AcceptIn
  <2>3. g <= high /\ high - g = c /\ g # high
        BY <1>1, <1>3
  <2> HIDE DEF g, new
  <2>4. c \notin A
        BY <1>1, <2>1, <2>3
  <2>5. g \in 0 .. S!Width - 1
        BY <1>0, <2>1
  <2>6. /\ S!Plant(map, g) \in Maps
        /\ \A a \in 0 .. S!Width - 1 : Has(S!Plant(map, g), a) <=> a = g \/ Has(map, a)
        BY <1>1, <2>5, PlantEffect
  <2>7. ASSUME NEW age \in 1 .. S!Width - 1, age <= high
        PROVE  Has(S!Plant(map, g), age) <=> high - age \in A \cup {c} \/ age = high
    <3>1. age \in 0 .. S!Width - 1
          BY <1>0
    <3>2. Has(S!Plant(map, g), age) <=> age = g \/ Has(map, age)
          BY <2>6, <3>1
    <3>3. Has(map, age) <=> high - age \in A \/ age = high
          BY <1>1, <2>7
    <3>4. age = g <=> high - age = c
          BY <1>1, <2>1, <2>3, <3>1
    <3> QED BY <3>2, <3>3, <3>4
  <2>8. /\ A \cup {c} \subseteq Nat
        /\ \A d \in A \cup {c} : d <= high
        /\ high > 0 => high \in A \cup {c}
        BY <1>1, <1>3
  <2>9. Exact(high, S!Plant(map, g), A \cup {c})
        BY <1>1, <2>6, <2>7, <2>8 DEF Exact
  <2> QED BY <2>2, <2>4, <2>9 DEF new
<1> QED BY <1>2, <1>3

(* The starts of the sealers leave room for the frames of each: the code draws a start of 62   *)
(* random bits, so that two sealers meet with a probability that is neglected.                 *)
StartsAreApart ==
  /\ Starts \subseteq Nat \ {0}
  /\ \A s, t \in Starts : s = t \/ s + MaxFrames <= t \/ t + MaxFrames <= s

SealingConstants ==
  /\ WordBits \in Nat \ {0} /\ Words \in Nat \ {0} /\ MaxFrames \in Nat /\ BacklogCap \in Nat \ {0}
  /\ StartsAreApart

(* The window agrees with the counters accepted since it was new, none of them twice. *)
WindowInv ==
  /\ opened \in Seq(Nat)
  /\ Exact(highest, bits, S!Range(opened))
  /\ S!IsInjective(opened)

(* The current sealer has used the counters from its start up to the one it sends next. *)
SealerInv ==
  /\ counter \in Nat \ {0} /\ left \in 0 .. MaxFrames /\ fresh \subseteq Starts /\ nonce \in Nat \ {0}
  /\ counter + left - MaxFrames \in Starts \ fresh

(* Every frame is of a sealer that has started, and no two frames have the same counter. *)
AirInv ==
  /\ air \subseteq [ctr : Nat \ {0}, nonce : Nat]
  /\ \A f \in air : \E s \in Starts \ fresh :
        /\ s <= f.ctr /\ f.ctr < s + MaxFrames
        /\ s = counter + left - MaxFrames => f.ctr < counter
  /\ \A f, g \in air : f.ctr = g.ctr => f = g

(* What is answered is remembered.  Until a renderer claims the socket only challenges are     *)
(* accepted and only media is kept.                                                            *)
ListenerInv ==
  /\ echoes \subseteq challenges /\ replays = {}
  /\ backlog \in Seq(air)
  /\ phase = "prepared" =>
       /\ \A c \in S!Range(opened) : \E f \in air : f.ctr = c /\ f.nonce # 0
       /\ \A i \in 1 .. Len(backlog) : backlog[i].nonce = 0

SealingInv == WindowInv /\ SealerInv /\ AirInv /\ ListenerInv

(* A counter that was not in the sequence joins its range and leaves it without repetitions. *)
LEMMA AppendNew ==
  ASSUME NEW q \in Seq(Nat), NEW c \in Nat
  PROVE  /\ Append(q, c) \in Seq(Nat)
         /\ S!Range(Append(q, c)) = S!Range(q) \cup {c}
         /\ S!IsInjective(q) /\ c \notin S!Range(q) => S!IsInjective(Append(q, c))
<1> DEFINE new == Append(q, c)
<1>1. /\ new \in Seq(Nat) /\ Len(new) = Len(q) + 1
      /\ \A i \in 1 .. Len(q) : new[i] = q[i]
      /\ new[Len(q) + 1] = c
      BY AppendProperties
<1>2. Len(q) \in Nat /\ DOMAIN q = 1 .. Len(q)
      OBVIOUS
<1> HIDE DEF new
<1>3. DOMAIN new = 1 .. Len(q) + 1
      BY <1>1
<1>4. S!Range(new) = S!Range(q) \cup {c}
  <2>1. ASSUME NEW x \in S!Range(new) PROVE x \in S!Range(q) \cup {c}
    <3>1. PICK i \in 1 .. Len(q) + 1 : x = new[i]
          BY <1>3 DEF S!Range
    <3>2. CASE i = Len(q) + 1
          BY <1>1, <3>1, <3>2
    <3>3. CASE i \in 1 .. Len(q)
          BY <1>1, <1>2, <3>1, <3>3 DEF S!Range
    <3> QED BY <1>2, <3>2, <3>3
  <2>2. ASSUME NEW x \in S!Range(q) PROVE x \in S!Range(new)
    <3>1. PICK i \in 1 .. Len(q) : x = q[i]
          BY <1>2 DEF S!Range
    <3>2. i \in DOMAIN new /\ x = new[i]
          BY <1>1, <1>2, <1>3, <3>1
    <3> QED BY <3>2 DEF S!Range
  <2>3. c \in S!Range(new)
    <3>1. Len(q) + 1 \in DOMAIN new
          BY <1>2, <1>3
    <3> QED BY <1>1, <3>1 DEF S!Range
  <2> QED BY <2>1, <2>2, <2>3
<1>5. ASSUME S!IsInjective(q), c \notin S!Range(q) PROVE S!IsInjective(new)
  <2>1. \A i \in 1 .. Len(q) : q[i] # c
        BY <1>2, <1>5 DEF S!Range
  <2>2. \A i, j \in 1 .. Len(q) : q[i] = q[j] => i = j
        BY <1>2, <1>5 DEF S!IsInjective
  <2>3. \A i, j \in 1 .. Len(q) + 1 : new[i] = new[j] => i = j
        BY <1>1, <1>2, <2>1, <2>2
  <2> QED BY <1>3, <2>3 DEF S!IsInjective
<1> QED BY <1>1, <1>4, <1>5 DEF new

(* Accepting a counter that passed the check keeps the window exact. *)
LEMMA AcceptKeepsWindow ==
  ASSUME SealingConstants, WindowInv, NEW c \in Nat \ {0}, S!Check(c), S!Accept(c)
  PROVE  WindowInv' /\ S!Range(opened') = S!Range(opened) \cup {c}
<1>1. /\ highest' = S!AcceptIn(highest, bits, c).highest
      /\ bits' = S!AcceptIn(highest, bits, c).bits
      /\ opened' = Append(opened, c)
      BY DEF S!Accept
<1>2. /\ opened \in Seq(Nat) /\ Exact(highest, bits, S!Range(opened)) /\ S!IsInjective(opened)
      BY DEF WindowInv
<1>3. S!CheckIn(highest, bits, c)
      BY DEF S!Check
<1>4. /\ c \notin S!Range(opened)
      /\ Exact(S!AcceptIn(highest, bits, c).highest, S!AcceptIn(highest, bits, c).bits,
               S!Range(opened) \cup {c})
      BY <1>2, <1>3, AcceptIsExact DEF SealingConstants
<1>5. /\ Append(opened, c) \in Seq(Nat) /\ S!Range(Append(opened, c)) = S!Range(opened) \cup {c}
      /\ S!IsInjective(Append(opened, c))
      BY <1>2, <1>4, AppendNew
<1>6. opened' \in Seq(Nat) /\ S!Range(opened') = S!Range(opened) \cup {c} /\ S!IsInjective(opened')
      BY <1>1, <1>5
<1>7. Exact(highest', bits', S!Range(opened'))
      BY <1>1, <1>4, <1>6
<1> QED BY <1>6, <1>7 DEF WindowInv

(* So does accepting it in a window that was made new. *)
LEMMA AcceptAnewKeepsWindow ==
  ASSUME SealingConstants, NEW c \in Nat \ {0}, S!AcceptAnew(c)
  PROVE  WindowInv' /\ S!Range(opened') = {c}
<1>1. /\ highest' = S!AcceptIn(0, S!Blank, c).highest
      /\ bits' = S!AcceptIn(0, S!Blank, c).bits
      /\ opened' = <<c>>
      BY DEF S!AcceptAnew
<1>2. S!CheckIn(0, S!Blank, c)
      BY DEF S!CheckIn
<1>3. Exact(0, S!Blank, {})
      BY BlankIsExact DEF SealingConstants
<1>4. Exact(S!AcceptIn(0, S!Blank, c).highest, S!AcceptIn(0, S!Blank, c).bits, {} \cup {c})
      BY <1>2, <1>3, AcceptIsExact DEF SealingConstants
<1>5. <<c>> \in Seq(Nat) /\ DOMAIN <<c>> = 1 .. 1 /\ <<c>>[1] = c
      OBVIOUS
<1>6. S!Range(<<c>>) = {c} /\ S!IsInjective(<<c>>)
      BY <1>5 DEF S!Range, S!IsInjective
<1>7. opened' \in Seq(Nat) /\ S!Range(opened') = {c} /\ S!IsInjective(opened')
      BY <1>1, <1>5, <1>6
<1>8. {} \cup {c} = {c}
      OBVIOUS
<1>9. Exact(highest', bits', S!Range(opened'))
      BY <1>1, <1>4, <1>7, <1>8
<1> QED BY <1>7, <1>9 DEF WindowInv

(* A frame of the air has a counter and a nonce. *)
LEMMA AirTypes ==
  ASSUME AirInv, NEW f \in air
  PROVE  f.ctr \in Nat \ {0} /\ f.nonce \in Nat
BY DEF AirInv

(* A frame the window does not refuse is opened: its challenge, if it is one, is remembered. *)
LEMMA OpenKeeps ==
  ASSUME SealingConstants, WindowInv, AirInv, NEW f \in air, S!Open(f)
  PROVE  /\ WindowInv' /\ S!Range(opened') = S!Range(opened) \cup {f.ctr}
         /\ challenges \subseteq challenges' /\ (f.nonce # 0 => f.nonce \in challenges')
         /\ replays' = replays
<1>1. f.ctr \in Nat \ {0}
      BY AirTypes
<1>2. S!Check(f.ctr) /\ S!Accept(f.ctr) /\ challenges' = S!Remembered(f) /\ replays' = replays
      BY DEF S!Open
<1>3. WindowInv' /\ S!Range(opened') = S!Range(opened) \cup {f.ctr}
      BY <1>1, <1>2, AcceptKeepsWindow
<1> QED BY <1>2, <1>3 DEF S!Remembered

(* A challenge is answered again, opened, or makes the window new; none that was answered does. *)
LEMMA OpenChallengeKeeps ==
  ASSUME SealingConstants, WindowInv, AirInv, echoes \subseteq challenges, NEW f \in air,
         S!OpenChallenge(f)
  PROVE  /\ WindowInv' /\ S!Range(opened') \subseteq S!Range(opened) \cup {f.ctr}
         /\ challenges' = challenges \cup {f.nonce} /\ replays' = replays /\ f.nonce # 0
<1>1. f.ctr \in Nat \ {0}
      BY AirTypes
<1>2. challenges' = challenges \cup {f.nonce} /\ f.nonce # 0
      BY DEF S!OpenChallenge
<1>3. CASE f.nonce \in challenges
  <2>1. highest' = highest /\ bits' = bits /\ opened' = opened /\ replays' = replays
        BY <1>3 DEF S!OpenChallenge, S!window
  <2>2. WindowInv'
        BY <2>1 DEF WindowInv
  <2> QED BY <1>2, <2>1, <2>2
<1>4. CASE f.nonce \notin challenges /\ S!Check(f.ctr)
  <2>1. S!Accept(f.ctr) /\ replays' = replays
        BY <1>4 DEF S!OpenChallenge
  <2>2. WindowInv' /\ S!Range(opened') = S!Range(opened) \cup {f.ctr}
        BY <1>1, <1>4, <2>1, AcceptKeepsWindow
  <2> QED BY <1>2, <2>1, <2>2
<1>5. CASE f.nonce \notin challenges /\ ~S!Check(f.ctr)
  <2>1. S!AcceptAnew(f.ctr) /\ f.nonce \notin echoes
        BY <1>5 DEF S!OpenChallenge
  <2>2. replays' = replays
        BY <1>5, <2>1 DEF S!OpenChallenge
  <2>3. WindowInv' /\ S!Range(opened') = {f.ctr}
        BY <1>1, <2>1, AcceptAnewKeepsWindow
  <2> QED BY <1>2, <2>2, <2>3
<1> QED BY <1>3, <1>4, <1>5

(* What is kept for the renderer is a frame of the air, and what was kept before. *)
LEMMA BufferKeeps ==
  ASSUME SealingConstants, backlog \in Seq(air), NEW f \in air
  PROVE  /\ S!Buffered(f) \in Seq(air)
         /\ f.nonce = 0 /\ (\A i \in 1 .. Len(backlog) : backlog[i].nonce = 0) =>
              \A i \in 1 .. Len(S!Buffered(f)) : S!Buffered(f)[i].nonce = 0
<1>1. ASSUME NEW q \in Seq(air)
      PROVE  /\ Append(q, f) \in Seq(air)
             /\ f.nonce = 0 /\ (\A i \in 1 .. Len(q) : q[i].nonce = 0) =>
                  \A i \in 1 .. Len(Append(q, f)) : Append(q, f)[i].nonce = 0
  <2>1. /\ Append(q, f) \in Seq(air) /\ Len(Append(q, f)) = Len(q) + 1
        /\ \A i \in 1 .. Len(q) : Append(q, f)[i] = q[i]
        /\ Append(q, f)[Len(q) + 1] = f
        BY AppendProperties
  <2>2. Len(q) \in Nat
        OBVIOUS
  <2>3. \A i \in 1 .. Len(q) + 1 : i = Len(q) + 1 \/ i \in 1 .. Len(q)
        BY <2>2
  <2> QED BY <2>1, <2>3
<1>2. CASE Len(backlog) >= BacklogCap
  <2>1. backlog # <<>>
        BY <1>2 DEF SealingConstants
  <2>2. PICK q : q = Tail(backlog)
        OBVIOUS
  <2>3. /\ q \in Seq(air) /\ Len(q) = Len(backlog) - 1
        /\ \A i \in 1 .. Len(q) : q[i] = backlog[i + 1]
        BY <2>1, <2>2
  <2>4. (\A i \in 1 .. Len(backlog) : backlog[i].nonce = 0) => \A i \in 1 .. Len(q) : q[i].nonce = 0
    <3> SUFFICES ASSUME \A i \in 1 .. Len(backlog) : backlog[i].nonce = 0, NEW i \in 1 .. Len(q)
                 PROVE  q[i].nonce = 0
        OBVIOUS
    <3>1. i + 1 \in 1 .. Len(backlog)
          BY <2>3
    <3> QED BY <2>3, <3>1
  <2>5. S!Buffered(f) = Append(q, f)
        BY <1>2, <2>2 DEF S!Buffered
  <2> QED BY <1>1, <2>3, <2>4, <2>5
<1>3. CASE ~(Len(backlog) >= BacklogCap)
  <2>1. S!Buffered(f) = Append(backlog, f)
        BY <1>3 DEF S!Buffered
  <2> QED BY <1>1, <2>1
<1> QED BY <1>2, <1>3

(* The sequences of a set are sequences of a larger one. *)
LEMMA LargerSeq ==
  ASSUME NEW A, NEW C, A \subseteq C, NEW q \in Seq(A)
  PROVE  q \in Seq(C)
<1>1. \A i \in 1 .. Len(q) : q[i] \in C
      OBVIOUS
<1>2. Len(q) \in Nat /\ q = [i \in 1 .. Len(q) |-> q[i]]
      OBVIOUS
<1> QED BY <1>1, <1>2

(* What the host does leaves the listener's part alone: it only adds frames. *)
LEMMA MoreAir ==
  ASSUME WindowInv, ListenerInv, air \subseteq air',
         UNCHANGED <<echoes, phase, backlog, highest, bits, challenges, opened, replays>>
  PROVE  WindowInv' /\ ListenerInv'
<1>1. WindowInv'
      BY DEF WindowInv
<1>2. backlog' \in Seq(air')
      BY LargerSeq DEF ListenerInv
<1>3. opened' = opened /\ phase' = phase /\ backlog' = backlog
      OBVIOUS
<1>4. phase' = "prepared" =>
       /\ \A c \in S!Range(opened') : \E f \in air' : f.ctr = c /\ f.nonce # 0
       /\ \A i \in 1 .. Len(backlog') : backlog'[i].nonce = 0
      BY <1>3 DEF ListenerInv
<1>5. echoes' \subseteq challenges' /\ replays' = {}
      BY DEF ListenerInv
<1> QED BY <1>1, <1>2, <1>4, <1>5 DEF ListenerInv

(* A new sealer starts apart from those that sealed what is in the air. *)
LEMMA NewSealerKeeps ==
  ASSUME SealingConstants, SealingInv, S!NewSealer
  PROVE  SealingInv'
<1>1. PICK s \in fresh : counter' = s /\ fresh' = fresh \ {s}
      BY DEF S!NewSealer
<1>2. left' = MaxFrames /\ nonce' = nonce + 1 /\ air' = air
      BY DEF S!NewSealer
<1>3. UNCHANGED <<echoes, phase, backlog, highest, bits, challenges, opened, replays>>
      BY DEF S!NewSealer, S!window
<1>4. s \in Starts /\ s \in Nat \ {0} /\ MaxFrames \in Nat
      BY <1>1 DEF SealingInv, SealerInv, SealingConstants, StartsAreApart
<1>5. counter' + left' - MaxFrames = s
      BY <1>1, <1>2, <1>4
<1>6. SealerInv'
      BY <1>1, <1>2, <1>4, <1>5 DEF SealingInv, SealerInv
<1>7. ASSUME NEW f \in air
      PROVE  \E t \in Starts \ fresh' : t <= f.ctr /\ f.ctr < t + MaxFrames /\ t # s
  <2>1. PICK t \in Starts \ fresh : t <= f.ctr /\ f.ctr < t + MaxFrames
        BY DEF SealingInv, AirInv
  <2>2. t # s /\ t \in Starts \ fresh'
        BY <1>1, <2>1
  <2> QED BY <2>1, <2>2
<1>8. AirInv'
  <2>1. \A f \in air' : \E t \in Starts \ fresh' :
          /\ t <= f.ctr /\ f.ctr < t + MaxFrames
          /\ t = counter' + left' - MaxFrames => f.ctr < counter'
        BY <1>2, <1>5, <1>7
  <2>2. air' \subseteq [ctr : Nat \ {0}, nonce : Nat] /\ \A f, g \in air' : f.ctr = g.ctr => f = g
        BY <1>2 DEF SealingInv, AirInv
  <2> QED BY <2>1, <2>2 DEF AirInv
<1>9. WindowInv' /\ ListenerInv'
      BY <1>2, <1>3, MoreAir DEF SealingInv
<1> QED BY <1>6, <1>8, <1>9 DEF SealingInv

(* A frame takes the next counter, which no frame of the air has. *)
LEMMA SentKeeps ==
  ASSUME SealingConstants, SealingInv, NEW n \in Nat, S!Sent(n)
  PROVE  SealingInv'
<1> DEFINE new == [ctr |-> counter, nonce |-> n]
<1>1. left > 0 /\ left' = left - 1 /\ counter' = counter + 1 /\ air' = air \cup {new}
      BY DEF S!Sent
<1>2. fresh' = fresh /\ nonce' = nonce
      BY DEF S!Sent
<1>3. UNCHANGED <<echoes, phase, backlog, highest, bits, challenges, opened, replays>>
      BY DEF S!Sent, S!window
<1>4. /\ counter \in Nat \ {0} /\ left \in 0 .. MaxFrames /\ fresh \subseteq Starts /\ nonce \in Nat \ {0}
      /\ counter + left - MaxFrames \in Starts \ fresh /\ MaxFrames \in Nat
      BY DEF SealingInv, SealerInv, SealingConstants
<1>5. PICK s \in Starts \ fresh : s = counter + left - MaxFrames
      BY <1>4
<1>6. s \in Nat \ {0}
      BY DEF SealingConstants, StartsAreApart
<1>7. counter' + left' - MaxFrames = s
      BY <1>1, <1>4, <1>5
<1>8. SealerInv'
      BY <1>1, <1>2, <1>4, <1>5, <1>7 DEF SealerInv
<1>9. new \in [ctr : Nat \ {0}, nonce : Nat] /\ new.ctr = counter
      BY <1>4
<1>10. s <= new.ctr /\ new.ctr < s + MaxFrames
      BY <1>1, <1>4, <1>5, <1>6, <1>9
<1>11. ASSUME NEW f \in air
       PROVE  /\ f.ctr # counter
              /\ \E t \in Starts \ fresh : /\ t <= f.ctr /\ f.ctr < t + MaxFrames
                                           /\ t = s => f.ctr < counter
  <2>1. PICK t \in Starts \ fresh : /\ t <= f.ctr /\ f.ctr < t + MaxFrames
                                    /\ t = s => f.ctr < counter
        BY <1>5 DEF SealingInv, AirInv
  <2>2. t = s \/ t + MaxFrames <= s \/ s + MaxFrames <= t
        BY DEF SealingConstants, StartsAreApart
  <2>3. t \in Nat
        BY DEF SealingConstants, StartsAreApart
  <2>4. f.ctr \in Nat
        BY DEF SealingInv, AirInv
  <2>5. f.ctr # counter
        BY <1>4, <1>6, <1>9, <1>10, <2>1, <2>2, <2>3, <2>4
  <2> QED BY <2>1, <2>5
<1> HIDE DEF new
<1>12. ASSUME NEW f \in air'
       PROVE  \E t \in Starts \ fresh' :
                /\ t <= f.ctr /\ f.ctr < t + MaxFrames
                /\ t = counter' + left' - MaxFrames => f.ctr < counter'
  <2>1. CASE f \in air
    <3>1. PICK t \in Starts \ fresh : /\ t <= f.ctr /\ f.ctr < t + MaxFrames
                                      /\ t = s => f.ctr < counter
          BY <1>11, <2>1
    <3>2. f.ctr \in Nat
          BY <2>1 DEF SealingInv, AirInv
    <3>3. t = s => f.ctr < counter'
          BY <1>1, <1>4, <3>1, <3>2
    <3> QED BY <1>2, <1>7, <3>1, <3>3
  <2>2. CASE f = new
    <3>1. f.ctr < counter'
          BY <1>1, <1>4, <1>9, <2>2
    <3> QED BY <1>2, <1>5, <1>7, <1>10, <2>2, <3>1
  <2> QED BY <1>1, <2>1, <2>2
<1>13. \A f, g \in air' : f.ctr = g.ctr => f = g
  <2>1. \A f, g \in air : f.ctr = g.ctr => f = g
        BY DEF SealingInv, AirInv
  <2> QED BY <1>1, <1>9, <1>11, <2>1
<1>14. air' \subseteq [ctr : Nat \ {0}, nonce : Nat]
      BY <1>1, <1>9 DEF SealingInv, AirInv
<1>15. AirInv'
      BY <1>12, <1>13, <1>14 DEF AirInv
<1>16. WindowInv' /\ ListenerInv'
      BY <1>1, <1>3, MoreAir DEF SealingInv
<1> QED BY <1>8, <1>15, <1>16 DEF SealingInv

(* A reconnection of the socket and the echo of a challenge touch no frame. *)
LEMMA HostBooksKeep ==
  ASSUME SealingConstants, SealingInv, S!Reconnect \/ S!EchoArrives
  PROVE  SealingInv'
<1>1. /\ counter' = counter /\ left' = left /\ fresh' = fresh /\ air' = air
      /\ nonce' = nonce \/ nonce' = nonce + 1
      BY DEF S!Reconnect, S!EchoArrives
<1>2. UNCHANGED <<echoes, phase, backlog, highest, bits, challenges, opened, replays>>
      BY DEF S!Reconnect, S!EchoArrives, S!window
<1>3. SealerInv'
      BY <1>1 DEF SealingInv, SealerInv
<1>4. AirInv'
      BY <1>1 DEF SealingInv, AirInv
<1>5. WindowInv' /\ ListenerInv'
      BY <1>1, <1>2, MoreAir DEF SealingInv
<1> QED BY <1>3, <1>4, <1>5 DEF SealingInv

(* The parts of the invariant the viewer changes, from what a step does to them. *)
LEMMA ViewerKeeps ==
  ASSUME SealingInv, UNCHANGED <<counter, left, fresh, nonce, air>>, WindowInv',
         echoes' \subseteq challenges', replays' = {}, backlog' \in Seq(air),
         phase' = "prepared" =>
           /\ \A c \in S!Range(opened') : \E f \in air : f.ctr = c /\ f.nonce # 0
           /\ \A i \in 1 .. Len(backlog') : backlog'[i].nonce = 0
  PROVE  SealingInv'
<1>1. SealerInv'
      BY DEF SealingInv, SealerInv
<1>2. AirInv'
      BY DEF SealingInv, AirInv
<1>3. air' = air
      OBVIOUS
<1>4. ListenerInv'
      BY <1>3 DEF ListenerInv
<1> QED BY <1>1, <1>2, <1>4 DEF SealingInv

(* A datagram arrives at whoever owns the socket. *)
LEMMA ArrivesKeeps ==
  ASSUME SealingConstants, SealingInv, S!Arrives
  PROVE  SealingInv'
<1>1. PICK f \in air : S!Listen(f) \/ S!Receive(f) \/ S!Suspended(f)
      BY DEF S!Arrives
<1>2. UNCHANGED <<counter, left, fresh, nonce, air>> /\ phase' = phase
      BY DEF S!Arrives, S!host
<1>3. /\ WindowInv /\ AirInv /\ echoes \subseteq challenges /\ replays = {} /\ backlog \in Seq(air)
      /\ phase = "prepared" =>
           /\ \A c \in S!Range(opened) : \E g \in air : g.ctr = c /\ g.nonce # 0
           /\ \A i \in 1 .. Len(backlog) : backlog[i].nonce = 0
      BY DEF SealingInv, ListenerInv
<1>4. CASE S!Listen(f) /\ f.nonce # 0
  <2>1. S!OpenChallenge(f) /\ S!Echoed(f) /\ backlog' = backlog
        BY <1>4 DEF S!Listen
  <2>2. /\ WindowInv' /\ S!Range(opened') \subseteq S!Range(opened) \cup {f.ctr}
        /\ challenges' = challenges \cup {f.nonce} /\ replays' = replays
        BY <1>3, <2>1, OpenChallengeKeeps
  <2>3. echoes' \subseteq challenges'
        BY <1>3, <1>4, <2>1, <2>2 DEF S!Echoed
  <2>4. backlog' \in Seq(air) /\ replays' = {}
        BY <1>3, <2>1, <2>2
  <2>5. phase = "prepared" =>
          \A c \in S!Range(opened') : \E g \in air : g.ctr = c /\ g.nonce # 0
        BY <1>3, <1>4, <2>2
  <2>6. phase = "prepared" => \A i \in 1 .. Len(backlog') : backlog'[i].nonce = 0
        BY <1>3, <2>1
  <2> QED BY <1>2, <2>2, <2>3, <2>4, <2>5, <2>6, ViewerKeeps
<1>5. CASE S!Listen(f) /\ f.nonce = 0
  <2>1. /\ highest' = highest /\ bits' = bits /\ opened' = opened
        /\ challenges' = challenges /\ replays' = replays /\ echoes' = echoes
        /\ backlog' = S!Buffered(f) /\ phase = "prepared"
        BY <1>5 DEF S!Listen, S!Classified, S!window
  <2>2. WindowInv'
        BY <1>3, <2>1 DEF WindowInv
  <2>3. /\ S!Buffered(f) \in Seq(air)
        /\ \A i \in 1 .. Len(S!Buffered(f)) : S!Buffered(f)[i].nonce = 0
        BY <1>3, <1>5, <2>1, BufferKeeps
  <2>4. backlog' \in Seq(air) /\ \A i \in 1 .. Len(backlog') : backlog'[i].nonce = 0
        BY <2>1, <2>3
  <2>5. echoes' \subseteq challenges' /\ replays' = {}
        BY <1>3, <2>1
  <2>6. \A c \in S!Range(opened') : \E g \in air : g.ctr = c /\ g.nonce # 0
        BY <1>3, <2>1
  <2> QED BY <1>2, <2>2, <2>4, <2>5, <2>6, ViewerKeeps
<1>6. CASE S!Receive(f) \/ (S!Suspended(f) /\ S!Check(f.ctr))
  <2>1. S!Open(f) /\ S!Echoed(f) /\ backlog' = backlog /\ phase # "prepared"
        BY <1>6 DEF S!Receive, S!Suspended
  <2>2. /\ WindowInv' /\ challenges \subseteq challenges' /\ (f.nonce # 0 => f.nonce \in challenges')
        /\ replays' = replays
        BY <1>3, <2>1, OpenKeeps
  <2>3. echoes' \subseteq challenges'
        BY <1>3, <2>1, <2>2 DEF S!Echoed
  <2>4. backlog' \in Seq(air) /\ replays' = {} /\ phase' # "prepared"
        BY <1>2, <1>3, <2>1, <2>2
  <2> QED BY <1>2, <2>2, <2>3, <2>4, ViewerKeeps
<1>7. CASE S!Suspended(f) /\ ~S!Check(f.ctr)
  <2>1. S!OpenChallenge(f) /\ S!Echoed(f) /\ backlog' = backlog /\ phase # "prepared"
        BY <1>7 DEF S!Suspended
  <2>2. WindowInv' /\ challenges' = challenges \cup {f.nonce} /\ replays' = replays
        BY <1>3, <2>1, OpenChallengeKeeps
  <2>3. echoes' \subseteq challenges'
        BY <1>3, <2>1, <2>2 DEF S!Echoed
  <2>4. backlog' \in Seq(air) /\ replays' = {} /\ phase' # "prepared"
        BY <1>2, <1>3, <2>1, <2>2
  <2> QED BY <1>2, <2>2, <2>3, <2>4, ViewerKeeps
<1> QED BY <1>1, <1>4, <1>5, <1>6, <1>7

(* The backlog goes through the window in its order. *)
LEMMA DrainKeeps ==
  ASSUME SealingConstants, SealingInv, S!Drain
  PROVE  SealingInv'
<1>1. /\ UNCHANGED <<counter, left, fresh, nonce, air>> /\ echoes' = echoes
      /\ phase' = "active" /\ backlog # <<>> /\ backlog' = Tail(backlog)
      BY DEF S!Drain, S!host
<1>2. /\ WindowInv /\ AirInv /\ echoes \subseteq challenges /\ replays = {} /\ backlog \in Seq(air)
      BY DEF SealingInv, ListenerInv
<1>3. backlog' \in Seq(air) /\ Head(backlog) \in air
      BY <1>1, <1>2
<1>4. PICK f \in air : f = Head(backlog)
      BY <1>3
<1>5. CASE S!Open(f)
  <2>1. WindowInv' /\ challenges \subseteq challenges' /\ replays' = replays
        BY <1>2, <1>5, OpenKeeps
  <2>2. echoes' \subseteq challenges' /\ replays' = {} /\ phase' # "prepared"
        BY <1>1, <1>2, <2>1
  <2> QED BY <1>1, <1>3, <2>1, <2>2, ViewerKeeps
<1>6. CASE ~S!Open(f)
  <2>1. /\ highest' = highest /\ bits' = bits /\ opened' = opened
        /\ challenges' = challenges /\ replays' = replays
        BY <1>4, <1>6 DEF S!Drain, S!window
  <2>2. WindowInv'
        BY <1>2, <2>1 DEF WindowInv
  <2>3. echoes' \subseteq challenges' /\ replays' = {} /\ phase' # "prepared"
        BY <1>1, <1>2, <2>1
  <2> QED BY <1>1, <1>3, <2>2, <2>3, ViewerKeeps
<1> QED BY <1>5, <1>6

(* A renderer claims the socket; its surface goes and comes. *)
LEMMA SurfaceKeeps ==
  ASSUME SealingInv, S!Claim \/ S!Detach \/ S!Attach
  PROVE  SealingInv'
<1>1. /\ UNCHANGED <<counter, left, fresh, nonce, air>> /\ phase' \in {"active", "suspended"}
      /\ UNCHANGED <<echoes, highest, bits, opened, challenges, replays>>
      /\ backlog' = backlog \/ backlog' = <<>>
      BY DEF S!Claim, S!Detach, S!Attach, S!host, S!window
<1>2. /\ WindowInv /\ echoes \subseteq challenges /\ replays = {} /\ backlog \in Seq(air)
      BY DEF SealingInv, ListenerInv
<1>3. WindowInv'
      BY <1>1, <1>2 DEF WindowInv
<1>4. backlog' \in Seq(air)
  <2>1. CASE backlog' = backlog
        BY <1>2, <2>1
  <2>2. CASE backlog' = <<>>
        BY <2>2
  <2> QED BY <1>1, <2>1, <2>2
<1>5. echoes' \subseteq challenges' /\ replays' = {} /\ phase' # "prepared"
      BY <1>1, <1>2
<1> QED BY <1>1, <1>3, <1>4, <1>5, ViewerKeeps

(* Every step keeps the invariant. *)
LEMMA SealingStepKeeps ==
  ASSUME SealingConstants, SealingInv, S!Next
  PROVE  SealingInv'
<1>1. nonce \in Nat
      BY DEF SealingInv, SealerInv
<1>2. CASE S!NewSealer
      BY <1>2, NewSealerKeeps
<1>3. CASE S!Reconnect \/ S!EchoArrives
      BY <1>3, HostBooksKeep
<1>4. CASE S!SendChallenge
  <2>1. S!Sent(nonce)
        BY <1>4 DEF S!SendChallenge
  <2> QED BY <1>1, <2>1, SentKeeps
<1>5. CASE S!SendMedia
  <2>1. S!Sent(0)
        BY <1>5 DEF S!SendMedia
  <2> QED BY <2>1, SentKeeps
<1>6. CASE S!Arrives
      BY <1>6, ArrivesKeeps
<1>7. CASE S!Drain
      BY <1>7, DrainKeeps
<1>8. CASE S!Claim \/ S!Detach \/ S!Attach
      BY <1>8, SurfaceKeeps
<1> QED BY <1>2, <1>3, <1>4, <1>5, <1>6, <1>7, <1>8 DEF S!Next

(* What is promised follows. *)
LEMMA SealingPromises ==
  ASSUME SealingConstants, SealingInv
  PROVE  DatagramsOpenOnce
<1>1. /\ opened \in Seq(Nat) /\ S!IsInjective(opened)
      /\ highest \in Nat /\ S!Range(opened) \subseteq Nat
      /\ \A c \in S!Range(opened) : c <= highest
      /\ highest > 0 => highest \in S!Range(opened)
      /\ \A age \in 1 .. S!Width - 1 :
           age <= highest => (Has(bits, age) <=> highest - age \in S!Range(opened) \/ age = highest)
      BY DEF SealingInv, WindowInv, Exact
<1>2. S!Width \in Nat
      BY DEF SealingConstants, S!Width
<1>3. S!WindowIsExact
  <2>1. ASSUME NEW age \in 1 .. S!Width - 1, age < highest
        PROVE  Has(bits, age) <=> highest - age \in S!Range(opened)
    <3>1. age <= highest /\ age # highest
          BY <1>1, <1>2, <2>1
    <3> QED BY <1>1, <3>1
  <2> QED BY <2>1 DEF S!WindowIsExact, Has
<1>4. S!EarlyMediaIsKept
  <2> SUFFICES ASSUME phase = "prepared", NEW i \in DOMAIN backlog,
                      backlog[i].ctr + S!Width > highest
               PROVE  S!Check(backlog[i].ctr)
      BY DEF S!EarlyMediaIsKept
  <2>1. backlog \in Seq(air) /\ i \in 1 .. Len(backlog)
        BY DEF SealingInv, ListenerInv
  <2>2. PICK f \in air : f = backlog[i] /\ f.nonce = 0
        BY <2>1 DEF SealingInv, ListenerInv
  <2>3. f.ctr \in Nat \ {0}
        BY AirTypes DEF SealingInv
  <2>4. f.ctr \notin S!Range(opened)
    <3> SUFFICES ASSUME f.ctr \in S!Range(opened) PROVE FALSE
        OBVIOUS
    <3>1. PICK g \in air : g.ctr = f.ctr /\ g.nonce # 0
          BY DEF SealingInv, ListenerInv
    <3>2. g = f
          BY <3>1 DEF SealingInv, AirInv
    <3> QED BY <2>2, <3>1, <3>2
  <2>5. PICK c \in Nat \ {0} : c = f.ctr
        BY <2>3
  <2>6. c + S!Width > highest /\ c \notin S!Range(opened)
        BY <2>2, <2>4, <2>5
  <2>7. CASE c > highest
        BY <2>2, <2>5, <2>7 DEF S!Check, S!CheckIn
  <2>8. CASE ~(c > highest)
    <3>1. c # highest
          BY <1>1, <2>6
    <3>2. highest - c \in 1 .. S!Width - 1 /\ highest - c <= highest /\ highest - c # highest
          BY <1>1, <1>2, <2>6, <2>8, <3>1
    <3>3. highest - (highest - c) = c
          BY <1>1
    <3>4. ~Has(bits, highest - c)
          BY <1>1, <2>6, <3>2, <3>3
    <3>5. S!CheckIn(highest, bits, c)
          BY <3>2, <3>4 DEF S!CheckIn, Has
    <3> QED BY <2>2, <2>5, <3>5 DEF S!Check
  <2> QED BY <2>7, <2>8
<1>5. S!AnsweredNeverResets
      BY DEF SealingInv, ListenerInv, S!AnsweredNeverResets
<1> QED BY <1>1, <1>3, <1>4, <1>5 DEF DatagramsOpenOnce, S!DatagramsOpenOnce, S!AcceptedOnce

(* The invariant holds at the start. *)
LEMMA SealingStarts ==
  ASSUME SealingConstants, S!Init
  PROVE  SealingInv
<1>1. counter \in Starts /\ left = MaxFrames /\ fresh = Starts \ {counter} /\ nonce = 1
      BY DEF S!Init
<1>2. air = {} /\ echoes = {} /\ backlog = <<>> /\ challenges = {} /\ replays = {}
      BY DEF S!Init
<1>3. highest = 0 /\ bits = S!Blank /\ opened = <<>>
      BY DEF S!Init
<1>4. counter \in Nat \ {0} /\ MaxFrames \in Nat
      BY <1>1 DEF SealingConstants, StartsAreApart
<1>5. counter + left - MaxFrames = counter
      BY <1>1, <1>4
<1>6. SealerInv
      BY <1>1, <1>4, <1>5 DEF SealerInv
<1>7. AirInv
      BY <1>2 DEF AirInv
<1>8. opened \in Seq(Nat) /\ S!Range(opened) = {} /\ S!IsInjective(opened)
  <2>1. <<>> \in Seq(Nat) /\ DOMAIN <<>> = {}
        OBVIOUS
  <2> QED BY <1>3, <2>1 DEF S!Range, S!IsInjective
<1>9. WindowInv
      BY <1>3, <1>8, BlankIsExact DEF WindowInv, SealingConstants
<1>10. backlog \in Seq(air) /\ Len(backlog) = 0
      BY <1>2
<1>11. ListenerInv
      BY <1>2, <1>8, <1>10 DEF ListenerInv
<1> QED BY <1>6, <1>7, <1>9, <1>11 DEF SealingInv

(* The replay window is exact through every shift, jump and reset: no datagram is accepted   *)
(* twice between two resets, a challenge that was answered resets nothing, and the media the *)
(* listener kept is still acceptable when the renderer claims the socket.                    *)
THEOREM DatagramsAreOpenedOnce ==
  ASSUME SealingConstants
  PROVE  Spec => []DatagramsOpenOnce
<1>1. Init => SealingInv
      BY SealingStarts DEF Init
<1>2. SealingInv /\ [Next]_vars => SealingInv'
  <2> SUFFICES ASSUME SealingInv, [Next]_vars PROVE SealingInv'
      OBVIOUS
  <2>1. CASE SealingStep
        BY <2>1, SealingStepKeeps DEF SealingStep
  <2>2. CASE SessionStep \/ DuplexStep \/ UNCHANGED vars
    <3>1. UNCHANGED sealingVars
          BY <2>2 DEF SessionStep, DuplexStep, vars
    <3>2. UNCHANGED <<counter, left, fresh, nonce, air>>
          BY <3>1 DEF sealingVars
    <3>3. UNCHANGED <<echoes, phase, backlog, highest, bits, challenges, opened, replays>>
          BY <3>1 DEF sealingVars
    <3>4. SealerInv'
          BY <3>2 DEF SealingInv, SealerInv
    <3>5. AirInv'
          BY <3>2 DEF SealingInv, AirInv
    <3>6. WindowInv' /\ ListenerInv'
          BY <3>2, <3>3, MoreAir DEF SealingInv
    <3> QED BY <3>4, <3>5, <3>6 DEF SealingInv
  <2> QED BY <2>1, <2>2 DEF Next
<1>3. SealingInv => DatagramsOpenOnce
      BY SealingPromises
<1> QED BY <1>1, <1>2, <1>3, PTL DEF Spec
=============================================================================
