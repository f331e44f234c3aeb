----------------------------- MODULE InputWire -----------------------------
(***************************************************************************)
(* What travels on the input plane (native/android-viewer/src/             *)
(* input_protocol.rs): events and the datagrams that carry them.  Payloads *)
(* are abstracted to the key an event holds down or lets go.  An event     *)
(* carries the span lo..hi of the producer calls it stands for, so the     *)
(* properties can speak of order, loss and duplication.                    *)
(***************************************************************************)
EXTENDS Naturals

CONSTANTS
    Keys,    \* keys and buttons that can be held
    NoKey    \* the key field of an event that holds nothing

ASSUME WireAssumption == NoKey \notin Keys

Kinds == {"down", "up", "scroll", "text", "lang", "release"}

Event == [op : Kinds, key : Keys \cup {NoKey}, lo : Nat, hi : Nat]

(* ReleaseAll; `at` is the number of producer calls made before it. *)
Release(at) == [op |-> "release", key |-> NoKey, lo |-> at, hi |-> at]

(* Every sealed datagram has its own counter and is opened at most once:   *)
(* the attempt and the sequence space it was sent in tell copies apart.    *)
(* Receivers see kind, seq, ev and id only.                                *)
Datagram == [kind : {"none", "move", "reliable"}, seq : Nat, ev : Event,
             id : Nat, attempt : Nat, space : Nat]

ReliableDatagram(p, space) ==
    [kind |-> "reliable", seq |-> p.seq, ev |-> p.ev, id |-> 0,
     attempt |-> p.attempts, space |-> space]

MoveDatagram(seq, id, space) ==
    [kind |-> "move", seq |-> seq, ev |-> Release(0), id |-> id,
     attempt |-> 1, space |-> space]

NoDatagram ==
    [kind |-> "none", seq |-> 0, ev |-> Release(0), id |-> 0,
     attempt |-> 0, space |-> 0]
=============================================================================
