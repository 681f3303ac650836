----------------------------- MODULE Ascending -----------------------------
(***************************************************************************)
(* A finite set of numbers in ascending order, as a sequence: what a query *)
(* with ORDER BY returns, and what EIA serves page by page.                *)
(***************************************************************************)
EXTENDS Integers, FiniteSets

\* The place of a number in a set.
Rank(x, S) == Cardinality({y \in S : y <= x})

Ascending(S) == [i \in 1..Cardinality(S) |-> CHOOSE x \in S : Rank(x, S) = i]
=============================================================================
