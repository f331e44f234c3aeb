------------------------------- MODULE KmOwner -------------------------------
(***************************************************************************)
(* What keyboard and mouse sharing promises about ownership: the physical  *)
(* input of one end goes to the other end in one direction at a time, and  *)
(* it changes direction only by returning to the local screens first.      *)
(***************************************************************************)
VARIABLE owner

Owners == {"local", "macToAndroid", "androidToMac"}

Init == owner = "local"

Take(d) == owner = "local" /\ owner' = d

GiveBack == owner # "local" /\ owner' = "local"

Next == GiveBack \/ \E d \in Owners \ {"local"} : Take(d)

Spec == Init /\ [][Next]_owner
=============================================================================
