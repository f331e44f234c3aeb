------------------------------ MODULE MediaSealing ------------------------------
(* Sealed media datagrams: the host's sealer with its counter, the reachability    *)
(* challenge, the viewer's replay window and what it does with challenges and      *)
(* early media before, during and between the times a renderer owns the socket.    *)
(* Encryption is perfect: a frame is its counter and its contents, and only frames *)
(* the host sealed open.                                                           *)
EXTENDS Naturals, Sequences, FiniteSets, SequencesExt

CONSTANTS WordBits, Words, \* the bitmap: 64 bits by 128 words in the code
          Starts,          \* counters a sealer may start at, a free choice of each sealer
          MaxFrames,       \* frames one sealer sends
          MaxChallenges,   \* challenges of the host: sealers made anew and reconnections
          BacklogCap       \* PREPARED_BACKLOG_CAP

VARIABLES
  counter,    \* of the last frame the current sealer sent
  left,       \* frames it may still send
  fresh,      \* starts no sealer has used
  nonce,      \* of the host's current challenge
  proven,     \* the host has seen the echo of its challenge
  air,        \* datagrams on the network: [ctr, nonce], nonce 0 for media
  echoes,     \* nonces the viewer has sent back
  phase,      \* who owns the viewer's socket: "prepared", "active", "suspended"
  backlog,    \* sealed datagrams kept for the renderer
  highest, bits, \* ReplayWindow: bits[w] is the set of positions set in word w
  challenges, \* nonces of challenges the viewer remembers
  opened,     \* counters accepted since the window was new, in order (history)
  replays     \* nonces already known that made the window new (history)

vars == <<counter, left, fresh, nonce, proven, air, echoes, phase, backlog, highest, bits, challenges, opened, replays>>
host == <<counter, left, fresh, nonce, proven>>
window == <<highest, bits>>

Width == WordBits * Words
WordIndexes == 0 .. Words - 1
Blank == [w \in WordIndexes |-> {}]

\* ReplayWindow::check
CheckIn(high, map, c) ==
  \/ c > high
  \/ /\ high - c \in 1 .. Width - 1
     /\ (high - c) % WordBits \notin map[(high - c) \div WordBits]
Plant(map, age) == [map EXCEPT ![age \div WordBits] = @ \cup {age % WordBits}]

\* slip: the words are copied from the low end, over sources that are still needed
LowFirst(from) == [i \in 1 .. Words - from |-> from + i - 1]
\* words are moved from the high end, so that each source is read before it is written
HighFirst(from) == [i \in 1 .. Words - from |-> Words - i]

\* shift_bits, in place
ShiftBits(map, shift) ==
  LET wordShift == shift \div WordBits
      bitShift == shift % WordBits
      move(m, i) ==
        LET src == i - wordShift
        IN [m EXCEPT ![i] = {b + bitShift : b \in {b \in m[src] : b + bitShift < WordBits}}
                            \cup IF src >= 1 THEN {b + bitShift - WordBits : b \in {b \in m[src - 1] : b + bitShift >= WordBits}}
                                 ELSE {}]
      moved == FoldLeft(move, map, HighFirst(wordShift))
  IN IF wordShift >= Words THEN Blank
     ELSE [w \in WordIndexes |-> IF w < wordShift THEN {} ELSE moved[w]]

\* the former highest counter was not recorded as a bit: it is planted at its new age
Advance(map, delta) == Plant(ShiftBits(map, delta), delta)

\* ReplayWindow::accept
AcceptIn(high, map, c) ==
  IF c > high THEN [highest |-> c, bits |-> IF c - high >= Width THEN Blank ELSE Advance(map, c - high)]
  ELSE [highest |-> high, bits |-> IF high - c \in 1 .. Width - 1 THEN Plant(map, high - c) ELSE map]

Check(c) == CheckIn(highest, bits, c)
Accept(c) ==
  LET w == AcceptIn(highest, bits, c)
  IN highest' = w.highest /\ bits' = w.bits /\ opened' = Append(opened, c)
\* reset_receive_window, then the frame that proved the restart
AcceptAnew(c) ==
  LET w == AcceptIn(0, Blank, c)
  IN highest' = w.highest /\ bits' = w.bits /\ opened' = <<c>>

Init ==
  /\ counter \in Starts /\ left = MaxFrames /\ fresh = Starts \ {counter}
  /\ nonce = 1 /\ proven = FALSE /\ air = {} /\ echoes = {}
  /\ phase = "prepared" /\ backlog = <<>>
  /\ highest = 0 /\ bits = Blank /\ challenges = {} /\ opened = <<>> /\ replays = {}

----------------------------------------------------------------------------
(* The host. *)

\* the start of a backend is tried again: a new sealer under the same key
NewSealer ==
  /\ nonce < MaxChallenges /\ \E s \in fresh : counter' = s /\ fresh' = fresh \ {s}
  /\ left' = MaxFrames /\ nonce' = nonce + 1 /\ proven' = FALSE
  /\ UNCHANGED <<air, echoes, phase, backlog, window, challenges, opened, replays>>
\* the media socket of a running session is connected again: the sealer goes on
Reconnect ==
  /\ nonce < MaxChallenges /\ proven /\ nonce' = nonce + 1 /\ proven' = FALSE
  /\ UNCHANGED <<counter, left, fresh, air, echoes, phase, backlog, window, challenges, opened, replays>>

Sent(n) ==
  /\ left > 0 /\ left' = left - 1 /\ counter' = counter + 1
  /\ air' = air \cup {[ctr |-> counter, nonce |-> n]}
  /\ UNCHANGED <<fresh, nonce, proven, echoes, phase, backlog, window, challenges, opened, replays>>
SendChallenge == ~proven /\ Sent(nonce)
SendMedia == proven /\ Sent(0)
EchoArrives ==
  /\ ~proven /\ nonce \in echoes /\ proven' = TRUE
  /\ UNCHANGED <<counter, left, fresh, nonce, air, echoes, phase, backlog, window, challenges, opened, replays>>

----------------------------------------------------------------------------
(* The viewer. *)

\* slip: a challenge the renderer opens is not remembered
RemembersNothing(f) == challenges
\* record_authenticated_challenge
Remembered(f) == IF f.nonce = 0 THEN challenges ELSE challenges \cup {f.nonce}

\* MediaSessionCrypto::open and open_into
Open(f) == Check(f.ctr) /\ Accept(f.ctr) /\ challenges' = Remembered(f) /\ UNCHANGED replays

\* open_challenge: only an unknown challenge may make the window new
OpenChallenge(f) ==
  /\ f.nonce # 0 /\ challenges' = challenges \cup {f.nonce}
  /\ IF f.nonce \in challenges THEN UNCHANGED <<window, opened, replays>>
     ELSE IF Check(f.ctr) THEN Accept(f.ctr) /\ UNCHANGED replays
     ELSE /\ AcceptAnew(f.ctr)
          /\ replays' = IF f.nonce \in echoes THEN replays \cup {f.nonce} ELSE replays
Echoed(f) == echoes' = IF f.nonce = 0 THEN echoes ELSE echoes \cup {f.nonce}

Buffered(f) == IF Len(backlog) >= BacklogCap THEN Append(Tail(backlog), f) ELSE Append(backlog, f)

\* authenticate_packet leaves the window alone
Classified(f) == UNCHANGED <<window, opened>>

\* the listener before a renderer: challenges are answered, media is kept sealed
Listen(f) ==
  /\ phase = "prepared"
  /\ IF f.nonce # 0 THEN OpenChallenge(f) /\ Echoed(f) /\ UNCHANGED backlog
     ELSE Classified(f) /\ backlog' = Buffered(f) /\ UNCHANGED <<challenges, replays, echoes>>
\* the renderer, once the backlog is drained
Receive(f) == phase = "active" /\ backlog = <<>> /\ Open(f) /\ Echoed(f) /\ UNCHANGED backlog
\* without a surface only small datagrams are opened; a refused one may be a challenge
Suspended(f) ==
  /\ phase = "suspended" /\ f.nonce # 0 /\ Echoed(f) /\ UNCHANGED backlog
  /\ IF Check(f.ctr) THEN Open(f) ELSE OpenChallenge(f)

\* the network delivers late, out of order, more than once or not at all
Arrives ==
  /\ \E f \in air : Listen(f) \/ Receive(f) \/ Suspended(f)
  /\ UNCHANGED <<host, air, phase>>
Claim ==
  /\ phase = "prepared" /\ phase' = "active"
  /\ UNCHANGED <<host, air, echoes, backlog, window, challenges, opened, replays>>
\* the backlog goes through the window in the order of its arrival
Drain ==
  /\ phase = "active" /\ backlog # <<>> /\ backlog' = Tail(backlog)
  /\ \/ Open(Head(backlog))
     \/ ~Check(Head(backlog).ctr) /\ UNCHANGED <<window, opened, challenges, replays>>
  /\ UNCHANGED <<host, air, echoes, phase>>
\* the surface goes and comes; buffered media belonged to the one that went
Detach ==
  /\ phase = "active" /\ phase' = "suspended" /\ backlog' = <<>>
  /\ UNCHANGED <<host, air, echoes, window, challenges, opened, replays>>
Attach ==
  /\ phase = "suspended" /\ phase' = "active"
  /\ UNCHANGED <<host, air, echoes, backlog, window, challenges, opened, replays>>

Next == NewSealer \/ Reconnect \/ SendChallenge \/ SendMedia \/ EchoArrives
        \/ Arrives \/ Claim \/ Drain \/ Detach \/ Attach
Spec == Init /\ [][Next]_vars

----------------------------------------------------------------------------
SealTypeOK ==
  /\ bits \in [WordIndexes -> SUBSET (0 .. WordBits - 1)] /\ phase \in {"prepared", "active", "suspended"}
  /\ Len(backlog) <= BacklogCap /\ challenges \subseteq 1 .. nonce

\* The bitmap is exactly the set of recently accepted counters, through every shift, jump and
\* reset: a counter below the highest is refused if and only if it was accepted or is too old.
WindowIsExact ==
  \A age \in 1 .. Width - 1 : age < highest =>
    (age % WordBits \in bits[age \div WordBits] <=> highest - age \in Range(opened))

\* Between two resets no datagram is accepted twice, whatever the network repeats.
AcceptedOnce == IsInjective(opened)

\* A challenge that has been answered once never makes the window new again, whoever owned the
\* socket when it came the first time and whoever owns it when its repetition arrives.
AnsweredNeverResets == replays = {}

\* Early media the listener kept is still acceptable when the renderer claims the socket, unless
\* the window has moved past it or the frame arrived twice.
EarlyMediaIsKept ==
  phase = "prepared" =>
    \A i \in DOMAIN backlog : backlog[i].ctr + Width > highest => Check(backlog[i].ctr)

\* The bitmap is the set of accepted counters, so that none is accepted twice; an answered
\* challenge resets nothing; early media is kept.
DatagramsOpenOnce ==
  /\ WindowIsExact
  /\ AcceptedOnce
  /\ AnsweredNeverResets
  /\ EarlyMediaIsKept
=============================================================================
