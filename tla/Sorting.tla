------------------------------- MODULE Sorting --------------------------------
(* Sorting, as Python's sorted and the ORDER BY of a query do it.           *)
EXTENDS Integers, FiniteSets

(* The elements of S in the order of their ranks, which count from 0.      *)
Enumerated(S, rank) == [k \in 1 .. Cardinality(S) |-> CHOOSE x \in S : rank[x] = k - 1]

(* The elements of S, each once, in the strict total order Before: the     *)
(* rank of an element is the number of those that come before it.          *)
SortedBy(S, Before(_, _)) ==
  Enumerated(S, [x \in S |-> Cardinality({y \in S : Before(y, x)})])
=============================================================================
