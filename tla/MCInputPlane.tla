---------------------------- MODULE MCInputPlane ----------------------------
(* Instances of InputPlane for TLC; the bounds are in the .cfg files. *)
EXTENDS InputPlane
=============================================================================
