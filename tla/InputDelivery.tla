---------------------------- MODULE InputDelivery ----------------------------
(***************************************************************************)
(* What the reliable input plane promises, whatever the network does: the  *)
(* host executes producer calls in their order, each at most once, and it  *)
(* never skips one without having released everything it held in between.  *)
(***************************************************************************)
EXTENDS Naturals

VARIABLES
    pushed,     \* reliable producer calls so far
    done,       \* the last one the host executed
    resynced    \* a ReleaseAll was executed since

deliveryVars == <<pushed, done, resynced>>

Init == pushed = 0 /\ done = 0 /\ resynced = TRUE

Submit == pushed' = pushed + 1 /\ UNCHANGED <<done, resynced>>

Resync == resynced' = TRUE /\ UNCHANGED <<pushed, done>>

(* Calls lo..hi are executed as one event (hi > lo for a merged scroll). *)
Execute(lo, hi) ==
    /\ done < lo /\ lo <= hi /\ hi <= pushed
    /\ lo = done + 1 \/ resynced
    /\ done' = hi
    /\ resynced' = FALSE
    /\ UNCHANGED pushed

Next ==
    \/ Submit
    \/ Resync
    \/ \E lo, hi \in 1..pushed : Execute(lo, hi)

Spec == Init /\ [][Next]_deliveryVars
=============================================================================
