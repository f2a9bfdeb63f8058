------------------------------- MODULE Sorting -------------------------------
(***************************************************************************)
(* std::sort, by a key that differs from element to element.               *)
(***************************************************************************)
EXTENDS Integers, FiniteSets

(* How many elements of S have a key up to that of x.                      *)
Rank(S, key, x) == Cardinality({y \in S : key[y] =< key[x]})

(* The elements of the finite set S, the one with the least key first.     *)
SortedBy(S, key) ==
    [i \in 1..Cardinality(S) |-> CHOOSE x \in S : Rank(S, key, x) = i]

Ascending(S) == SortedBy(S, [x \in S |-> x])
=============================================================================
