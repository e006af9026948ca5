------------------------------- MODULE MCHints -------------------------------
(***************************************************************************)
(* Small instances of HintEnumeration: the numbers of hints of each type,   *)
(* and which types are not enumerated by bisection.                         *)
(***************************************************************************)
EXTENDS HintEnumeration

\* Four hints of the type that is bisected and two of the one that is enumerated in
\* segments, so that the sub-states end at different times.
FourAndTwo == [t \in HintTypes |-> IF t = 1 THEN 1..4 ELSE 1..2]
Five == [t \in HintTypes |-> 1..5]

NoType == {}
SecondType == {2}
EveryType == HintTypes
=============================================================================
