---------------------------- MODULE MCSplitPipeline ----------------------------
(* The split stream on two pairs in flight.                                      *)
EXTENDS SplitPipeline
================================================================================
