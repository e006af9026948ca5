---------------------------- MODULE MCScheduler ----------------------------
(***************************************************************************)
(* Small instances of Scheduler: the passes, their hint types and the       *)
(* shapes of their enumerations.                                            *)
(***************************************************************************)
EXTENDS SchedulerProperties

CONSTANTS special, untyped

AllTypes == {special, untyped}
SpecialTypes == {special}
NoTypes == [p \in Passes |-> {}]
NoPasses == {}

\* Pass 1 produces special hints for pass 2, as MakefilePass does for
\* RmUnusedFilesPass.  Types that no pass declares as an input are all alike;
\* untyped hints, which both passes may find, stand for them.
FeederInputs == [p \in Passes |-> IF p = 2 THEN {special} ELSE {}]
FeederOutputs == [p \in Passes |-> IF p = 1 THEN {special} ELSE {}]

\* Binary search over two hints: both, the first, the second.
BinaryCovers == [q \in Pos |-> IF q = 1 THEN Pos ELSE {q}]

OneGain == {1}
TwoGains == {0, 1}
FirstPass == {1}
AllPasses == Passes
=============================================================================
