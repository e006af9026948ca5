----------------------------- MODULE Reduction -----------------------------
(***************************************************************************)
(* What the reduction promises, whatever passes, jobs and batches it is     *)
(* made of: a test case goes from one version to the next only by adopting  *)
(* a variant that was made from the present version and then found          *)
(* interesting, and no attempt on an earlier version is still under way     *)
(* when the next one begins.  This is the specification of the loop of      *)
(* run_parallel_tests and process_result in cvise/utils/testing.py, which   *)
(* Scheduler is checked to implement.                                       *)
(***************************************************************************)
EXTENDS Naturals

VARIABLES
    version,    \* <<test case, reductions made so far>>
    attempts,   \* the attempts under way: [id, base], base a version
    best        \* the interesting variant to adopt, an attempt, or Nothing

Nothing == [id |-> 0, base |-> <<0, 0>>]

Init ==
    version = <<0, 0>> /\ attempts = {} /\ best = Nothing

\* An attempt is always made on the present version.
Begin ==
    /\ \E a \in attempts' : a.base = version /\ attempts' = attempts \cup {a}
    /\ UNCHANGED <<version, best>>

\* Attempts end, one way or another.
End ==
    /\ attempts' \subseteq attempts
    /\ UNCHANGED <<version, best>>

\* An attempt under way turns out interesting, and better than the best so far.
Succeed ==
    /\ best' \in attempts
    /\ UNCHANGED <<version, attempts>>

\* The best variant is adopted, once nothing is under way.
Adopt ==
    /\ best # Nothing /\ best.base = version /\ attempts = {}
    /\ version' = <<version[1], version[2] + 1>>
    /\ best' = Nothing
    /\ UNCHANGED attempts

\* The work turns to another test case.
Turn ==
    /\ best = Nothing /\ attempts = {}
    /\ version'[1] = version[1] + 1 /\ version'[2] \in {0, version[2]}
    /\ UNCHANGED <<attempts, best>>

\* The program is interrupted.
GiveUpAll ==
    attempts' = {} /\ best' = Nothing /\ UNCHANGED version

Next == Begin \/ End \/ Succeed \/ Adopt \/ Turn \/ GiveUpAll

Spec == Init /\ [][Next]_<<version, attempts, best>>
=============================================================================
