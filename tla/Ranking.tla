------------------------------ MODULE Ranking ------------------------------
(***************************************************************************)
(* A finite set in the order that below says, where below[x] is the set of   *)
(* the members that come before x.                                           *)
(***************************************************************************)
EXTENDS Integers, FiniteSets

Ranked(S, below) ==
    [k \in 1..Cardinality(S) |-> CHOOSE x \in S : Cardinality(below[x]) = k - 1]

\* Numbers in their order
InOrder(numbers) == Ranked(numbers, [i \in numbers |-> {j \in numbers : j < i}])
=============================================================================
