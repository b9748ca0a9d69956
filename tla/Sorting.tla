------------------------------- MODULE Sorting -------------------------------
(***************************************************************************)
(* Array.prototype.sort, where what is compared never ties: a finite set   *)
(* listed in the order of a strict comparison.                             *)
(***************************************************************************)
EXTENDS Naturals, FiniteSets

\* The elements of S in the order of Before: as many come before the n-th as
\* there are places in front of it.
Sorted(S, Before(_, _)) ==
  [n \in 1 .. Cardinality(S) |->
     CHOOSE x \in S : Cardinality({y \in S : Before(y, x)}) = n - 1]
=============================================================================
