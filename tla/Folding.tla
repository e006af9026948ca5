------------------------------ MODULE Folding ------------------------------
(***************************************************************************)
(* cvise/utils/folding.py: how FoldingManager composes the successful      *)
(* transformations of one batch of jobs into a "fold", one attempt that     *)
(* applies all of them at once.                                             *)
(*                                                                         *)
(* The module has no state of its own: the manager's fields are passed in   *)
(* as arguments, and Scheduler keeps them.  A hint state is an arbitrary    *)
(* value; a fold is the tuple of its sub-states, in the order in which the  *)
(* code happens to walk through the set it makes the tuple from.  Lists of   *)
(* which only membership matters are sets; the failed folds are a list of    *)
(* sets, for a combination that fails twice is sampled twice.                *)
(***************************************************************************)
EXTENDS Naturals, FiniteSets, Functions

CONSTANTS
    FoldInterval,    \* the 5 of "job_order // 5": jobs per allowed fold
    JobCountFactor   \* FoldingManager.JOB_COUNT_FACTOR

ASSUME FoldingAssumption == FoldInterval \in Nat \ {0} /\ JobCountFactor \in Nat

\* Half of the sub-states, rounded up, is banned for each failed fold.
Half(S) == (Cardinality(S) + 1) \div 2

\* Every set of banned states the random samples can add up to: for each item
\* of the list of failed folds one sample of Half its sub-states outside the
\* forcelist.
Bans(failed, force) ==
    LET Sample(i) == {B \in SUBSET (failed[i] \ force) :
                         Cardinality(B) = Half(failed[i] \ force)}
        picks == {c \in [DOMAIN failed -> SUBSET (UNION Range(failed))] :
                     \A i \in DOMAIN failed : c[i] \in Sample(i)}
    IN  {UNION Range(c) : c \in picks}

\* A combination is worth a fold if it has more states than the best success. A
\* faulty variant is content with as many.
AsGood(S, force) == Cardinality(S) >= Cardinality(force)
WorthTrying(S, force) == Cardinality(S) > Cardinality(force)

\* tuple(to_fold): nothing is promised about the order in which a set is walked
\* through, neither between two sets with the same elements.
Orders(S) == Bijection(1 .. Cardinality(S), S)

\* maybe_prepare_folding_job: the folds it may return; <<>> stands for None, the
\* answer when the combination is not better or its tuple was attempted before.
PrepareFold(candidates, failed, attempted, force, jobOrder) ==
    LET offered == {candidates \ ban : ban \in Bans(failed, force)}
        better == {S \in offered : WorthTrying(S, force)}
        tuples == UNION {Orders(S) : S \in better}
    IN  IF Cardinality(candidates) < 2 \/ Cardinality(attempted) > jobOrder \div FoldInterval
        THEN {<<>>}
        ELSE (tuples \ attempted) \cup {<<>> : S \in offered \ better}
                                 \cup {<<>> : f \in tuples \cap attempted}

\* continue_attempting_folds
ContinueAttemptingFolds(jobOrder, parallelTests, passCount) ==
    jobOrder < JobCountFactor * (IF parallelTests >= passCount THEN parallelTests
                                                               ELSE passCount)
=============================================================================
