------------------------- MODULE InterruptionProofs -------------------------
(***************************************************************************)
(* Whatever signals and errors interrupt the replacement of a test case, it  *)
(* is not lost.                                                            *)
(***************************************************************************)
EXTENDS Interruption, SequenceTheorems, TLAPS

USE DEF Places, Versions, Exceptions, Errors, Steps

\* Whether the second rename failed is told by the exceptions alone.
LEMMA SwapFailedFrame == exc' = exc => (SwapFailed' <=> SwapFailed)
BY DEF SwapFailed

LEMMA InitInv == Init => SwapInv
<1> SUFFICES ASSUME Init PROVE SwapInv
  OBVIOUS
<1>1. exc = <<>> /\ <<>> \in Seq(Exceptions)
  BY DEF Init, ReplaceInit
<1>2. arrived \in 0..MaxSignals
  BY InterruptionAssumption DEF Init
<1> QED
  BY <1>1, <1>2 DEF Init, ReplaceInit, SignalInit, SwapInv, ReplaceInv, ReplaceType, InNormalCourse,
     BeforeSwap, Running, Ended, Signals

\* Raising an exception makes the chain one longer.
LEMMA Chained ==
  ASSUME exc \in Seq(Exceptions), NEW e \in Exceptions
  PROVE  /\ Append(exc, e) \in Seq(Exceptions)
         /\ Append(exc, e) # <<>>
         /\ Len(Append(exc, e)) = Len(exc) + 1
         /\ Len(exc) \in Nat
         /\ Len(exc) = 0 => exc = <<>>
  OBVIOUS

\* The steps of the replacement that go on normally, or handle an exception.
LEMMA StepInv ==
  ASSUME ReplaceInv,
         \/ CreateTemp \/ FillByRename \/ FillByCopy \/ CopyDone \/ UnlinkSource
         \/ Retire \/ Install \/ LeaveTry \/ Leave \/ Undo \/ CleanUp \/ AbnormalCleanUp
  PROVE  ReplaceInv' /\ step' # "idle"
<1> USE SwapFailedFrame DEF ReplaceInv, ReplaceType, InNormalCourse, BeforeSwap, Put, Rename, GoTo
<1>1. CASE CreateTemp
  BY <1>1 DEF CreateTemp
<1>2. CASE FillByRename
  BY <1>2 DEF FillByRename, AfterFill
<1>3. CASE FillByCopy
  BY <1>3 DEF FillByCopy, CopyTarget
<1>4. CASE CopyDone
  BY <1>4 DEF CopyDone, CopyTarget, AfterFill
<1>5. CASE UnlinkSource
  BY <1>5 DEF UnlinkSource, AfterFill
<1>6. CASE Retire
  BY <1>6 DEF Retire
<1>7. CASE Install
  BY <1>7 DEF Install
<1>8. CASE LeaveTry
  BY <1>8 DEF LeaveTry
<1>9. CASE Leave
  BY <1>9 DEF Leave, DeleteTemp, Emptied
<1>10. CASE Undo
  BY <1>10 DEF Undo
<1>11. CASE CleanUp
  BY <1>11 DEF CleanUp, DeleteTemp, Emptied
<1>12. CASE AbnormalCleanUp
  BY <1>12 DEF AbnormalCleanUp, DeleteTemp, Emptied
<1> QED
  BY <1>1, <1>2, <1>3, <1>4, <1>5, <1>6, <1>7, <1>8, <1>9, <1>10, <1>11, <1>12

\* A system call that fails.
LEMMA FailsInv ==
  ASSUME ReplaceInv, Fails
  PROVE  ReplaceInv' /\ step' # "idle"
<1> DEFINE e == IF step = "install" /\ kind = "dir" THEN "renameerror" ELSE "oserror"
<1>1. exc' = Append(exc, e) /\ e \in Exceptions
  BY DEF Fails, Raise
<1>2. exc' \in Seq(Exceptions) /\ exc' # <<>>
  BY <1>1, Chained DEF ReplaceInv, ReplaceType
<1>3. /\ Len(exc') <= 1 => exc = <<>> /\ (SwapFailed' <=> e = "renameerror")
      /\ InNormalCourse
  <2>1. Len(exc') <= 1 => exc = <<>>
    BY <1>1, Chained DEF ReplaceInv, ReplaceType
  <2>2. exc = <<>> => (SwapFailed' <=> e = "renameerror")
    BY <1>1 DEF SwapFailed
  <2> QED BY <2>1, <2>2 DEF Fails, InNormalCourse
<1>4. step' = Outside(e)
  BY DEF Fails, Raise, Handler
<1> QED
  BY <1>2, <1>3, <1>4 DEF ReplaceInv, ReplaceType, InNormalCourse, BeforeSwap, Fails, Raise, Handler, Outside,
     InSwap, InReplacement

\* An exception from a signal.
LEMMA InterruptedInv ==
  ASSUME ReplaceInv, NEW s \in Signals, Interrupted(s)
  PROVE  ReplaceInv' /\ step' # "idle"
<1>1. exc' = Append(exc, s) /\ s \in Exceptions /\ s \notin Errors
  BY DEF Interrupted, Raise, Signals
<1>2. /\ exc' \in Seq(Exceptions) /\ exc' # <<>>
      /\ Len(exc') <= 1 => exc = <<>> /\ ~SwapFailed'
  <2>1. exc' \in Seq(Exceptions) /\ exc' # <<>> /\ (Len(exc') <= 1 => exc = <<>>)
    BY <1>1, Chained DEF ReplaceInv, ReplaceType
  <2>2. exc = <<>> => ~SwapFailed'
    BY <1>1 DEF SwapFailed
  <2> QED BY <2>1, <2>2
<1>3. /\ step' = IF InSwap THEN "undo" ELSE Outside(s)
      /\ kind' = kind /\ move' = move /\ InReplacement
  BY <1>1 DEF Interrupted, Raise, Handler
<1>4. /\ place' \in [Places -> Versions] /\ tmp' \in BOOLEAN
      /\ place'["dest"] = place["dest"]
      /\ kind = "file" \/ step \notin {"leave", "cleanup", "abnormal"} => place' = place
  BY DEF Interrupted, ReplaceInv, ReplaceType
<1>5. step' \notin {"idle", "create", "retire", "installed", "install", "unlink", "leave", "returned"}
  BY <1>3 DEF Outside
<1> QED
  BY <1>2, <1>3, <1>4, <1>5 DEF ReplaceInv, ReplaceType, InNormalCourse, BeforeSwap, Outside,
     InSwap, InReplacement

LEMMA NextInv == SwapInv /\ [Next]_vars => SwapInv'
<1> SUFFICES ASSUME SwapInv, [Next]_vars PROVE SwapInv'
  OBVIOUS
<1> USE DEF Running, Ended, signalVars, loopVars
<1>1. CASE \/ LoopCheckpoint \/ WaitCheckpoint \/ WaitLooks \/ WaitInstalls \/ Wake
           \/ HandleFailure \/ Finish \/ Exit \/ JobDone \/ ReplaceRaised
           \/ UNCHANGED vars
  <2>1. UNCHANGED replaceVars /\ UNCHANGED <<observed, future, arrived>>
    BY <1>1 DEF LoopCheckpoint, WaitCheckpoint, Checkpoint, WaitLooks, WaitInstalls, Wake,
       HandleFailure, Finish, Exit, JobDone, ReplaceRaised, At, vars
  <2>2. ReplaceInv'
    BY <2>1, SwapFailedFrame DEF SwapInv, ReplaceInv, ReplaceType, InNormalCourse, BeforeSwap, replaceVars
  <2>3. notified' \in BOOLEAN /\ pending' \in BOOLEAN
    BY <1>1 DEF SwapInv, LoopCheckpoint, WaitCheckpoint, Checkpoint, WaitLooks, WaitInstalls, Wake,
       HandleFailure, Finish, Exit, JobDone, ReplaceRaised, vars
  <2>4. \/ pc' = pc
        \/ pc \in Running \ {"replace"} /\ pc' \in (Running \ {"replace"}) \cup {"exiting", "exited"}
        \/ pc = "exiting" /\ pc' = "exited"
        \/ pc = "replace" /\ step = "raised" /\ pc' \in {"failed", "exiting"}
    BY <1>1 DEF LoopCheckpoint, WaitCheckpoint, Checkpoint, WaitLooks, WaitInstalls, Wake,
       HandleFailure, Finish, Exit, JobDone, ReplaceRaised, At, vars
  <2>5. step' = step
    BY <2>1 DEF replaceVars
  <2> QED
    BY <2>1, <2>2, <2>3, <2>4, <2>5 DEF SwapInv
<1>2. CASE HandleSuccess \/ CacheHit
  <2>1. Call /\ pc' = "replace" /\ UNCHANGED <<observed, future, arrived, notified>> /\ pending' \in BOOLEAN
    BY <1>2 DEF HandleSuccess, CacheHit, At, SwapInv
  <2>2. ReplaceInv' /\ step' # "idle"
    BY <2>1, SwapFailedFrame DEF Call, Put, SwapInv, ReplaceInv, ReplaceType, InNormalCourse, BeforeSwap
  <2> QED
    BY <2>1, <2>2 DEF SwapInv
<1>3. CASE Replace
  <2>1. ReplaceStep /\ pc = "replace"
    BY <1>3 DEF Replace
  <2>2. ReplaceInv' /\ step' # "idle"
    BY <2>1, StepInv, FailsInv DEF ReplaceStep, SwapInv
  <2> QED
    BY <1>3, <2>2 DEF SwapInv, Replace
<1>4. CASE Replaced
  <2>1. ReplaceInv' /\ step' = "idle" /\ pc' = "loop"
    BY <1>4, SwapFailedFrame DEF Replaced, At, Reset, GoTo, SwapInv, ReplaceInv, ReplaceType, InNormalCourse, BeforeSwap
  <2> QED
    BY <1>4, <2>1 DEF SwapInv, Replaced
<1>5. ASSUME NEW s \in Signals, Signal(s) PROVE SwapInv'
  <2>1. /\ observed' \subseteq Signals /\ future' \in Signals \cup {NoSignal}
        /\ arrived' \in 0..MaxSignals /\ notified' \in BOOLEAN /\ pending' \in BOOLEAN
    BY <1>5, InterruptionAssumption DEF Signal, OnSignal, SwapInv
  <2>2. CASE UNCHANGED replaceVars
    <3>1. ReplaceInv'
      BY <2>2, SwapFailedFrame DEF SwapInv, ReplaceInv, ReplaceType, InNormalCourse, BeforeSwap, replaceVars
    <3>2. step' = step /\ (pc' = pc \/ (~(pc = "replace" /\ InReplacement) /\ pc' \in {"exiting", "exited"}))
      BY <1>5, <2>2 DEF Signal, replaceVars
    <3>3. pc' # "replace" => step \in {"idle", "returned", "raised"}
      BY <3>2 DEF SwapInv, InReplacement, ReplaceInv, ReplaceType
    <3> QED
      BY <2>1, <3>1, <3>2, <3>3 DEF SwapInv
  <2>3. CASE ~UNCHANGED replaceVars
    <3>1. pc = "replace" /\ Interrupted(s) /\ UNCHANGED pc
      BY <1>5, <2>3 DEF Signal
    <3>2. ReplaceInv' /\ step' # "idle"
      BY <3>1, InterruptedInv DEF SwapInv
    <3> QED
      BY <2>1, <3>1, <3>2 DEF SwapInv
  <2> QED BY <2>2, <2>3
<1> QED
  BY <1>1, <1>2, <1>3, <1>4, <1>5 DEF Next, Main, Terminated

\* What lies where at each step of the replacement, whatever interrupts it
\* (replace_test_case_atomically).
THEOREM SwapInvariant == Spec => []SwapInv
<1> QED BY InitInv, NextInv, PTL DEF Spec

\* A file test case is there and whole at every moment, for any number of signals
\* and failing system calls.
THEOREM FileIsAlwaysThere == Spec => []FileAlwaysThere
<1>1. SwapInv => FileAlwaysThere
  BY DEF SwapInv, ReplaceInv, FileAlwaysThere, Whole
<1> QED BY SwapInvariant, <1>1, PTL

\* A directory test case survives one exception anywhere, but for the failure of
\* the second rename, after which it is whole until the temporary directory goes.
THEOREM DirectoryIsNeverLost == Spec => []NeverLost
<1>1. SwapInv => NeverLost
  BY DEF SwapInv, ReplaceInv, ReplaceType, NeverLost, Whole, OneException, InNormalCourse, BeforeSwap
<1> QED BY SwapInvariant, <1>1, PTL

\* ... and is in its place when the program has ended, with the same exception.
THEOREM DirectoryIsInPlace == Spec => []InPlaceAtEnd
<1>1. SwapInv => InPlaceAtEnd
  BY DEF SwapInv, ReplaceInv, ReplaceType, InPlaceAtEnd, Whole, OneException, InNormalCourse,
     BeforeSwap, Ended
<1> QED BY SwapInvariant, <1>1, PTL

\* What was made beside the test case is gone after a return, and after one
\* exception.
THEOREM NothingIsLeftBeside == Spec => []NothingLeftBeside
<1>1. SwapInv => NothingLeftBeside
  BY DEF SwapInv, ReplaceInv, NothingLeftBeside, OneException
<1> QED BY SwapInvariant, <1>1, PTL

\* A return means that the new version is in place, and a cached one still in the
\* cache.
THEOREM ReturnsAreReplacements == Spec => []ReturnMeansReplaced
<1>1. SwapInv => ReturnMeansReplaced
  BY DEF SwapInv, ReplaceInv, ReturnMeansReplaced, InNormalCourse
<1> QED BY SwapInvariant, <1>1, PTL
=============================================================================
