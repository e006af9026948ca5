---------------------------- MODULE Interruption ----------------------------
(***************************************************************************)
(* The main thread under signals: the loop of run_parallel_tests with its    *)
(* checkpoints and its blocking wait (cvise/utils/testing.py), the           *)
(* replacement of the test case after a success, and the way out through     *)
(* run_passes, composed of SignalMonitor and Replacement.                    *)
(*                                                                         *)
(* What the loop does with its jobs is in Scheduler; here a look at the      *)
(* results brings a success or not.                                          *)
(***************************************************************************)
EXTENDS SignalMonitor, Replacement

CONSTANT MaxSignals   \* bound on the number of signals

ASSUME InterruptionAssumption == MaxSignals \in Nat

VARIABLES
    pc,        \* place of the main thread
    arrived,   \* number of signals so far
    notified,  \* whether the wait was told that the signals' future is resolved
    pending    \* whether a job's result is there

loopVars == <<pc, arrived, notified, pending>>
vars == <<signalVars, replaceVars, loopVars>>

Running == {"loop", "wait", "install", "blocked", "woken", "handle", "replace"}
Ended == {"exited", "failed"}

SwapInv ==
    /\ ReplaceInv
    /\ observed \subseteq Signals /\ future \in Signals \cup {NoSignal}
    /\ pc \in Running \cup {"exiting"} \cup Ended
    /\ arrived \in 0..MaxSignals /\ notified \in BOOLEAN /\ pending \in BOOLEAN
    /\ IF pc = "replace" THEN step # "idle" ELSE step \in {"idle", "returned", "raised"}
    /\ pc \in Running \ {"replace"} => step = "idle"

Init ==
    /\ SignalInit /\ ReplaceInit
    /\ pc = "loop" /\ arrived = 0 /\ notified = FALSE /\ pending = FALSE

At(from, to) == pc = from /\ pc' = to

\* sigmonitor.maybe_raise_exc(), at the head of the loop and after wait()
Checkpoint(from, to) ==
    /\ At(from, IF Pending = NoSignal THEN to ELSE "exiting")
    /\ UNCHANGED <<signalVars, replaceVars, arrived, notified, pending>>

LoopCheckpoint == Checkpoint("loop", "wait")
WaitCheckpoint == Checkpoint("woken", "handle")

\* wait(): looks at the futures, returns if one is done, and else asks all of
\* them to be told.
WaitLooks ==
    /\ At("wait", IF pending \/ future # NoSignal THEN "woken" ELSE "install")
    /\ UNCHANGED <<signalVars, replaceVars, arrived, notified, pending>>

WaitInstalls ==
    /\ At("install", "blocked")
    /\ notified' = FALSE
    /\ UNCHANGED <<signalVars, replaceVars, arrived, pending>>

\* A job ends, or its time is up.
JobDone ==
    /\ pc \in Running /\ ~pending
    /\ pending' = TRUE
    /\ UNCHANGED <<signalVars, replaceVars, pc, arrived, notified>>

Wake ==
    /\ notified \/ pending
    /\ At("blocked", "woken")
    /\ UNCHANGED <<signalVars, replaceVars, arrived, notified, pending>>

\* process_done_futures without a success, or with one
HandleFailure ==
    /\ At("handle", "loop")
    /\ pending' = FALSE
    /\ UNCHANGED <<signalVars, replaceVars, arrived, notified>>

HandleSuccess ==
    /\ pending
    /\ At("handle", "replace")
    /\ Call
    /\ pending' = FALSE
    /\ UNCHANGED <<signalVars, arrived, notified>>

\* Between two batches another pass run may find a result in the cache.
CacheHit ==
    /\ At("loop", "replace")
    /\ Call
    /\ UNCHANGED <<signalVars, arrived, notified, pending>>

Replace ==
    /\ pc = "replace" /\ ReplaceStep
    /\ UNCHANGED <<signalVars, loopVars>>

Replaced ==
    /\ At("replace", "loop")
    /\ Reset
    /\ UNCHANGED <<signalVars, arrived, notified, pending>>

\* run_passes catches the exceptions of signals; an OSError ends the program.
ReplaceRaised ==
    /\ step = "raised"
    /\ At("replace", IF exc[Len(exc)] \in Errors THEN "failed" ELSE "exiting")
    /\ UNCHANGED <<signalVars, replaceVars, arrived, notified, pending>>

\* No pass has anything left to do.
Finish ==
    /\ At("loop", "exited")
    /\ UNCHANGED <<signalVars, replaceVars, arrived, notified, pending>>

\* terminate_all, remove_roots, sys.exit
Exit ==
    /\ At("exiting", "exited")
    /\ UNCHANGED <<signalVars, replaceVars, arrived, notified, pending>>

\* A signal arrives; the handler runs in the main thread, between any two of
\* its steps. A repeated one leaves the replacement, the loop, or the cleaning
\* up on the way out.
Signal(s) ==
    /\ pc \notin Ended /\ arrived < MaxSignals
    /\ arrived' = arrived + 1
    /\ OnSignal(s)
    /\ notified' = (notified \/ (pc = "blocked" /\ future = NoSignal))
    /\ IF ~Repeated THEN UNCHANGED <<pc, replaceVars>>
       ELSE IF pc = "replace" /\ InReplacement THEN Interrupted(s) /\ UNCHANGED pc
       ELSE /\ pc' = IF pc = "exiting" THEN "exited" ELSE "exiting"
            /\ UNCHANGED replaceVars
    /\ UNCHANGED pending

\* Nothing is left to be done.
Terminated == pc \in Ended /\ UNCHANGED vars

Main ==
    \/ LoopCheckpoint \/ WaitCheckpoint \/ WaitLooks \/ WaitInstalls \/ Wake
    \/ HandleFailure \/ HandleSuccess \/ CacheHit \/ Replace \/ Replaced
    \/ ReplaceRaised \/ Finish \/ Exit

Next == Main \/ JobDone \/ (\E s \in Signals : Signal(s)) \/ Terminated

Spec == Init /\ [][Next]_vars

\* The main thread goes on while it can, and every job ends or runs into its
\* timeout (workaround_missing_timeouts).  It finds its results in the cache only
\* so many times in a row: a category of passes is repeated only while the test
\* case shrinks.
FairSpec ==
    /\ Spec
    /\ WF_vars(Main) /\ WF_vars(JobDone)
    /\ SF_vars(LoopCheckpoint \/ Finish)

-----------------------------------------------------------------------------
(* Properties *)

Whole == {"before", "after"}

\* A file test case is there, whole, at every moment: also to the
\* interestingness tests of jobs that are still being cancelled, and if the
\* program is killed or fails ("We use the fact that a rename is atomic").
FileAlwaysThere == kind = "file" => place["dest"] \in Whole

\* The handlers of the replacement do what they promise for one exception; one
\* that comes while they are at work may stop them.
OneException == Len(exc) <= 1

\* If a directory test case is not in its place, the old one is whole in the
\* temporary directory beside it, wherever the program is killed.  The one way to
\* lose it is that the second rename fails by itself: then the temporary directory
\* is deleted with the original in it.
NeverLost ==
    OneException =>
        \/ place["dest"] \in Whole \/ place["backup"] = "before"
        \/ SwapFailed /\ step # "cleanup"

\* When the program has ended, by a signal or an error, the test case is in its
\* place, but for the error of the second rename: "attempt to bring back the
\* original directory" (_replace_dir_test_case_atomically).
InPlaceAtEnd ==
    pc \in Ended /\ OneException => place["dest"] \in Whole \/ SwapFailed

\* "Verifies whether the directory replacement operation is atomic"
\* (test_replace_dir_atomicity): after one exception, whichever it is, the old or
\* the new version is in place.
SwapIsAtomic == step = "raised" /\ OneException => place["dest"] \in Whole

\* What replace_test_case_atomically made beside the test case is gone when it
\* returns or has raised: "Make sure the directory is cleaned up even if the
\* creation was aborted halfway or __exit__ failed".
NothingLeftBeside ==
    step \in {"returned", "raised"} /\ OneException =>
        ~tmp /\ place["fresh"] = "nothing" /\ place["backup"] = "nothing"

\* A return without an exception means that the new version is in place, and
\* that a cache entry it was copied from is still there for the next hit.
ReturnMeansReplaced ==
    step = "returned" =>
        place["dest"] = "after" /\ (~move => place["source"] = "after")

\* A signal that was noted ends the program, although its handler may run
\* between the look of wait() at the futures and its waiting for them, where the
\* future tells nobody: then the next result or timeout does it.
SignalEndsProgram == observed # {} ~> pc \in Ended
=============================================================================
