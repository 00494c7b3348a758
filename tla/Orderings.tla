------------------------------ MODULE Orderings ------------------------------
(***************************************************************************)
(* Sets and lists in order: what package sort leaves, what an ORDER BY     *)
(* yields and what a loop with a condition picks from a list.              *)
(***************************************************************************)
EXTENDS Integers, Sequences, FiniteSets

\* The members of S in the order whose pairs are those of before: each has as many
\* before it as its place says.
InOrder(S, before) ==
  [n \in 1 .. Cardinality(S) |->
     CHOOSE x \in S : Cardinality({y \in S : <<y, x>> \in before}) = n - 1]

Ascending(S) == InOrder(S, {p \in S \X S : p[1] < p[2]})

\* The rows of a list at the given places, in the given order.
Kept(rows, places) == [n \in DOMAIN places |-> rows[places[n]]]

=============================================================================
