------------------------------- MODULE Sublists -------------------------------
(* Parts of a sequence in its own order, as a filter or a removal leaves them.  *)
(* The standard SelectSeq has no definition the proofs could expand.             *)
EXTENDS Naturals, Sequences, FiniteSets

\* the elements at the indexes in I
AtIndexes(s, I) ==
  [n \in 1 .. Cardinality(I) |-> s[CHOOSE i \in I : Cardinality({j \in I : j <= i}) = n]]

\* the elements that pass a test
Selected(s, Test(_)) == AtIndexes(s, {i \in 1 .. Len(s) : Test(s[i])})
================================================================================
