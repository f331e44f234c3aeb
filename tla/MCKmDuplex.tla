----------------------------- MODULE MCKmDuplex -----------------------------
(* Instances of KmDuplex for TLC; the bounds are in the .cfg files. *)
EXTENDS KmDuplex
=============================================================================
