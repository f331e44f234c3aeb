------------------------------- MODULE FrameFeed -------------------------------
(* What the renderer promises the decoder, which keeps the pictures later ones  *)
(* refer to: a delta is fed only right after its predecessor, a keyframe at any   *)
(* time, and a decoder that was flushed or replaced begins with a keyframe.        *)
EXTENDS Naturals

CONSTANT IdSpace

VARIABLE fed   \* the access unit fed last, if what it refers to is there

Numbers == 0 .. IdSpace - 1

Init == fed = {}

Start == \E id \in Numbers : fed' = {[id |-> id, key |-> TRUE]}
Continue == \E f \in fed : fed' = {[id |-> (f.id + 1) % IdSpace, key |-> FALSE]}
Lose == fed' = {}

Next == Start \/ Continue \/ Lose

Spec == Init /\ [][Next]_fed
================================================================================
