---------------------------- MODULE MCSourceGrants ----------------------------
(* Instances of SourceGrants for TLC; the bounds are in the .cfg files. *)
EXTENDS SourceGrants
=============================================================================
