----------------------------- MODULE Scheduler -----------------------------
(***************************************************************************)
(* The core of C-Vise, cvise/utils/testing.py: TestManager schedules the    *)
(* init, transform and fold jobs of several passes on a pool of workers,    *)
(* handles their results, commits the best reduction of each batch of jobs  *)
(* to the test case and decides which passes start over.                    *)
(*                                                                         *)
(* One thread (the main process) runs all of this; the worker processes     *)
(* only make the results arrive in any combination, so that the model lets  *)
(* each job be still running, timed out, failed or finished at the moment   *)
(* the main thread looks at it.  "pc" is the place of that thread:          *)
(*                                                                         *)
(*   next      run_passes: the loop over the test cases                     *)
(*   round     run_passes_for_test_case: the loop over batches              *)
(*   loop      run_parallel_tests: the condition of its main loop           *)
(*   schedule  maybe_schedule_job, priorities 1 and 2 (init, restart)       *)
(*   fill      maybe_schedule_job, priorities 3 and 4 (fold, transform)     *)
(*   wait      concurrent.futures.wait                                      *)
(*   handle    process_done_futures, at the first job after "cursor"        *)
(*   drain     run_parallel_tests: cancelling what still runs               *)
(*   commit    process_result                                               *)
(*   finished, exited, crashed: run_passes returned, was interrupted by a   *)
(*             signal, or let an exception of a job through                 *)
(*                                                                         *)
(* Data.  Jobs are numbered by "order", and a temporary directory is named  *)
(* after the job it was made for.  A pass state is the directory its hints  *)
(* were written to and a position in the enumeration; position 0 is a state *)
(* that holds special hints only, root 0 (NoState) is None.                 *)
(***************************************************************************)
EXTENDS Folding, Sequences

CONSTANTS
    N,               \* number of passes
    HintBased,       \* the passes that are HintBasedPass
    Types,           \* hint types
    Special,         \* those that begin with "@"
    Untyped,         \* the empty hint type
    Inputs, Outputs, \* input_hint_types() and output_hint_types() of each pass
    SupportsDir,     \* the passes that support directories as test cases
    MaxPos,          \* length of the longest enumeration (a bound)
    Covers,          \* Covers[q]: the positions whose hints are among those of q
    Gains,           \* how much a reduction removes (a bound)
    ParallelTests,   \* parallel_tests
    Interleaving,    \* run_passes' argument
    MaxTimeouts,     \* MAX_TIMEOUTS
    GiveUp,          \* GIVEUP_CONSTANT
    RestartInterval, \* RESTART_JOB_INTERVAL
    SkipAfter,       \* skip_after_n_transforms, 0 when not requested
    TestCases        \* number of test cases

Passes == 1..N
Pos == 0..MaxPos

ASSUME SchedulerAssumption ==
    /\ N \in Nat \ {0}
    /\ HintBased \subseteq Passes
    /\ SupportsDir \subseteq Passes
    /\ Untyped \in Types \ Special
    /\ Special \subseteq Types
    /\ Inputs \in [Passes -> SUBSET Types]
    /\ Outputs \in [Passes -> SUBSET Types]
    /\ \A p \in Passes \ HintBased : Inputs[p] = {} /\ Outputs[p] = {}
    /\ \A p \in Passes : Untyped \notin Inputs[p]   \* inputs are declared outputs
    /\ MaxPos \in Nat \ {0}
    /\ Covers \in [Pos -> SUBSET Pos]
    /\ Gains \subseteq Nat
    /\ ParallelTests \in Nat \ {0}
    /\ Interleaving \in BOOLEAN
    /\ N = 1 \/ Interleaving          \* asserted by run_passes
    /\ MaxTimeouts \in Nat \ {0}
    /\ GiveUp \in Nat
    /\ RestartInterval \in Nat
    /\ SkipAfter \in Nat
    /\ TestCases \in Nat

VARIABLES
    \* PassContext, one field per variable
    stage, enabled, root, state, taken, succeeded, counter, lastSuccess,
    batchCounter, running, defunct, timeouts, paths,
    \* TestManager
    jobs, order, batchOrder, lastRestart, queue, candidate, dirs,
    \* FoldingManager
    foldCandidates, failedFolds, attemptedFolds,
    \* local variables of the main thread
    pc, readyTypes, cursor, finished, testCase, successes

counts == <<counter, lastSuccess, batchCounter>>
health == <<defunct, timeouts>>
ctxVars == <<stage, enabled, root, state, taken, succeeded, counts, running, health, paths>>
mgrVars == <<jobs, order, batchOrder, lastRestart, queue, candidate, dirs>>
foldVars == <<foldCandidates, failedFolds, attemptedFolds>>
loopVars == <<readyTypes, cursor, finished, testCase, successes>>
vars == <<ctxVars, mgrVars, foldVars, loopVars, pc>>

-----------------------------------------------------------------------------
(* Values *)

State == [root : Nat, pos : Pos]
NoState == [root |-> 0, pos |-> 0]

\* A dictionary entry of running_transform_order_to_state
Running == [order : Nat, state : State]

\* kind: JobType, with the fold jobs (pass_id None, here pass 0) told apart.
\* state: the state transformed, or the one init starts from; subs: the hint
\* states a fold applies; reads: the bundles' directories init is given;
\* given: the succeeded_state argument of advance_on_success;
\* folder: the order its directory is named after, 0 once handed over.
Job == [order : Nat, kind : {"init", "transform", "fold"}, pass : 0..N,
        state : State, given : State, subs : SUBSET State, reads : SUBSET Nat,
        count : Nat, folder : Nat]

Candidate == [order : Nat, pass : 0..N, state : State, subs : SUBSET State, gain : Nat]
NoCandidate == [order |-> 0, pass |-> 0, state |-> NoState, subs |-> {}, gain |-> 0]

JobDir(o) == <<"job", o>>
BestDir(o) == <<"best", o>>
FolderDirs(js) == {JobDir(j.folder) : j \in {i \in js : i.folder # 0}}
RootDirs == {JobDir(root[p]) : p \in {q \in Passes : root[q] # 0}}
CandidateDirs == IF candidate = NoCandidate THEN {} ELSE {BestDir(candidate.order)}

-----------------------------------------------------------------------------
(* Pass contexts *)

JobsInCurrentBatch(p) == counter[p] - batchCounter[p]
JobsSinceLastSuccess(p) == counter[p] - lastSuccess[p]
Usable(p) == enabled[p] /\ ~defunct[p]

\* can_init_now, for a given assignment of stages (a restart checks it for
\* the stage it is about to set)
CanInitFrom(p, st, ready) ==
    /\ Usable(p)
    /\ st = "before_init"
    /\ p \in HintBased => Inputs[p] \subseteq ready

CanInitNow(p, ready) == CanInitFrom(p, stage[p], ready)

CanTransformIn(p, states) ==
    Usable(p) /\ stage[p] = "enumerating" /\ states[p] # NoState

CanTransformNow(p) == CanTransformIn(p, state)
CanStartJobNow(p, ready) == CanInitNow(p, ready) \/ CanTransformNow(p)

\* A faulty restart rule: any exhausted pass, initialized or not.
CanRestartAnytime(p) == state[p] = NoState /\ paths[p] \ Special # {}

CanScheduleForRestart(p) ==
    stage[p] = "enumerating" /\ state[p] = NoState /\ paths[p] \ Special # {}

\* Whether p generates input data for another pass that is still in use.
Feeds(p, q) == p # q /\ {p, q} \subseteq HintBased /\ Usable(q) /\ Outputs[p] \cap Inputs[q] # {}

\* should_reinit_after_test_case_update, given the pass' new state
ShouldReinit(p, s) ==
    \/ stage[p] = "enumerating" /\ s # NoState
    \/ \E q \in Passes : Feeds(p, q)

\* get_fully_initialized_hint_types
ReadyHintTypes ==
    LET outputs(ps) == UNION {Outputs[p] : p \in ps}
        ready == {p \in HintBased : stage[p] = "enumerating"}
    IN  outputs(ready) \ outputs(HintBased \ ready)

\* A faulty advance: the end of the enumeration is not noticed.
AdvancePastEnd(s) == IF s.pos = 0 THEN NoState ELSE [s EXCEPT !.pos = @ + 1]

\* HintState.advance, and the advance() of a legacy pass
Advance(s) ==
    IF s.pos \in {0, MaxPos} THEN NoState ELSE [s EXCEPT !.pos = @ + 1]

\* advance_while_subset_of_succeeded: the first state from s on that is not
\* part of a success of this batch (always s itself for a legacy pass)
AdvanceWhileSubset(p, s) ==
    LET old(q) == \E t \in succeeded[p] : t.root = s.root /\ 0 \notin {q, t.pos} /\ q \in Covers[t.pos]
        new == {q \in s.pos..MaxPos : ~old(q)}
    IN  IF p \notin HintBased THEN s
        ELSE IF new = {} THEN NoState
        ELSE [s EXCEPT !.pos = CHOOSE q \in new : \A r \in new : q <= r]

\* What the init job j can return: None, or a state in the job's directory
\* together with the hint types it holds.  A pass that starts over from a state
\* (advance_on_success) keeps its place in the enumeration and ignores regular
\* types that were not there before.
InitResults(j) ==
    LET p == j.pass
        made(q, T) == [state |-> [root |-> j.order, pos |-> q], paths |-> T]
        possible == Outputs[p] \cup {Untyped}
        types == IF j.state = NoState THEN possible
                                      ELSE possible \cap (paths[p] \cup Special)
        from == IF j.state.pos = 0 THEN 1 ELSE j.state.pos
    IN  {[state |-> NoState, paths |-> {}]} \cup
        IF p \in HintBased
        THEN {made(0, T) : T \in SUBSET (types \cap Special) \ {{}}} \cup
             {made(q, T) : q \in from..MaxPos, T \in {U \in SUBSET types : U \ Special # {}}}
        ELSE {made(q, {}) : q \in from..MaxPos}
-----------------------------------------------------------------------------
(* run_passes and run_passes_for_test_case *)

Init ==
    /\ stage = [p \in Passes |-> "before_init"]
    /\ enabled = [p \in Passes |-> TRUE]
    /\ root = [p \in Passes |-> 0]
    /\ state = [p \in Passes |-> NoState]
    /\ taken = [p \in Passes |-> NoState]
    /\ succeeded = [p \in Passes |-> {}]
    /\ counter = [p \in Passes |-> 0]
    /\ lastSuccess = [p \in Passes |-> 0]
    /\ batchCounter = [p \in Passes |-> 0]
    /\ running = [p \in Passes |-> {}]
    /\ defunct = [p \in Passes |-> FALSE]
    /\ timeouts = [p \in Passes |-> 0]
    /\ paths = [p \in Passes |-> {}]
    /\ jobs = {} /\ order = 1 /\ batchOrder = 1 /\ lastRestart = 0
    /\ queue = <<>> /\ candidate = NoCandidate /\ dirs = {}
    /\ foldCandidates = {} /\ failedFolds = <<>> /\ attemptedFolds = {}
    /\ readyTypes = {} /\ cursor = 0 /\ finished = {} /\ testCase = 0 /\ successes = 0
    /\ pc = "next"

\* A fresh list of PassContext.create(pass); the old contexts are dropped.
FreshContexts(on) ==
    /\ stage' = [p \in Passes |-> "before_init"]
    /\ enabled' = [p \in Passes |-> p \in on]
    /\ root' = [p \in Passes |-> 0]
    /\ state' = [p \in Passes |-> NoState]
    /\ taken' = [p \in Passes |-> NoState]
    /\ succeeded' = [p \in Passes |-> {}]
    /\ counter' = [p \in Passes |-> 0]
    /\ lastSuccess' = [p \in Passes |-> 0]
    /\ batchCounter' = [p \in Passes |-> 0]
    /\ running' = [p \in Passes |-> {}]
    /\ defunct' = [p \in Passes |-> FALSE]
    /\ timeouts' = [p \in Passes |-> 0]
    /\ paths' = [p \in Passes |-> {}]

\* The next test case: empty, found in the cache (both return at once), a file,
\* or a directory, for which only some of the passes are enabled.
StartTestCase ==
    /\ pc = "next" /\ testCase < TestCases
    /\ testCase' = testCase + 1
    /\ \/ UNCHANGED <<ctxVars, jobs, lastRestart, queue, successes, pc>>
       \/ /\ FreshContexts(Passes)
          /\ jobs' = {} /\ lastRestart' = 0 /\ queue' = <<>> /\ successes' = 0
          /\ UNCHANGED pc
       \/ /\ \E on \in {Passes, SupportsDir} : FreshContexts(on)
          /\ jobs' = {} /\ lastRestart' = 0 /\ queue' = <<>> /\ successes' = 0
          /\ pc' = "round"
    /\ UNCHANGED <<order, batchOrder, candidate, dirs, foldVars, readyTypes, cursor,
                   finished>>

\* remove_roots, after the last test case
FinishRun ==
    /\ pc = "next" /\ testCase = TestCases
    /\ dirs' = dirs \ (RootDirs \cup CandidateDirs)
    /\ root' = [p \in Passes |-> 0]
    /\ candidate' = NoCandidate
    /\ pc' = "finished"
    /\ UNCHANGED <<stage, enabled, state, taken, succeeded, counts, running, health,
                   paths, jobs, order, batchOrder, lastRestart, queue, foldVars,
                   loopVars>>

\* The loop over batches asks with the hint types that were ready when the
\* contexts had just been created: none.
AnyPassCanStart(ready) == \E p \in Passes : CanStartJobNow(p, ready)

LeaveRound ==
    /\ pc = "round" /\ ~AnyPassCanStart({})
    /\ pc' = "next"
    /\ UNCHANGED <<ctxVars, mgrVars, foldVars, loopVars>>

-----------------------------------------------------------------------------
(* run_parallel_tests: the beginning of a batch and the main loop *)

\* The passes the batch adds to the restart queue: those that may be restarted
\* and are not in it, in the order of the passes.
Restartable ==
    {p \in Passes : CanScheduleForRestart(p) /\ \A i \in DOMAIN queue : queue[i] # p}

\* The increasing sequences of all the elements of a set of passes: just one.
InOrder(ps) ==
    {s \in [1..Cardinality(ps) -> ps] : \A i, k \in 1..Cardinality(ps) : i < k => s[i] < s[k]}

StartBatch ==
    /\ pc = "round" /\ AnyPassCanStart({})
    /\ batchOrder' = order
    /\ IF Interleaving
       THEN /\ foldCandidates' = {} /\ failedFolds' = <<>> /\ attemptedFolds' = {}
            /\ \E added \in InOrder(Restartable) : queue' = queue \o added
       ELSE UNCHANGED <<foldVars, queue>>
    /\ running' = [p \in Passes |-> {}]
    /\ succeeded' = [p \in Passes |-> {}]
    /\ batchCounter' = counter
    /\ stage' = [p \in Passes |-> IF stage[p] = "in_init" THEN "before_init" ELSE stage[p]]
    /\ readyTypes' = ReadyHintTypes'
    /\ pc' = "loop"
    /\ UNCHANGED <<enabled, root, state, taken, counter, lastSuccess, health, paths,
                   jobs, order, lastRestart, candidate, dirs, cursor, finished,
                   testCase, successes>>

\* readyTypes is computed once, before the loop.
LoopWithoutInits == jobs # {} \/ \E p \in Passes : CanTransformIn(p, state)   \* faulty
LoopCondition == jobs # {} \/ AnyPassCanStart(readyTypes)

TestLoop ==
    /\ pc = "loop"
    /\ pc' = IF LoopCondition THEN "schedule" ELSE "drain"
    /\ UNCHANGED <<ctxVars, mgrVars, foldVars, loopVars>>

FreeWorker == Cardinality(jobs) < ParallelTests

AllWorkersBusy ==
    /\ pc = "schedule" /\ ~FreeWorker
    /\ pc' = "wait"
    /\ UNCHANGED <<ctxVars, mgrVars, foldVars, loopVars>>

-----------------------------------------------------------------------------
(* maybe_schedule_job *)

\* schedule_init.  The bundles handed to the job
\* are those the other passes hold of the types p consumes.
InitJob(p) ==
    LET sources == {q \in HintBased : stage[q] = "enumerating" /\ paths[q] \cap Inputs[p] # {}}
    IN  [order |-> order, kind |-> "init", pass |-> p, state |-> state[p],
         given |-> IF state[p] = NoState THEN NoState ELSE taken[p],
         subs |-> {}, reads |-> {root[q] : q \in sources \ {p}},
         count |-> counter[p], folder |-> order]

ScheduleInit(p) ==
    /\ jobs' = jobs \cup {InitJob(p)}
    /\ dirs' = dirs \cup {JobDir(order)}
    /\ counter' = [counter EXCEPT ![p] = @ + 1]
    /\ stage' = [stage EXCEPT ![p] = "in_init"]
    /\ order' = order + 1
    /\ UNCHANGED <<enabled, root, state, taken, succeeded, lastSuccess, batchCounter,
                   running, health, paths>>

\* 1. the first pass that waits for its initialization and can have it
InitPass ==
    /\ pc = "schedule" /\ FreeWorker
    /\ \E p \in Passes :
          /\ CanInitNow(p, ReadyHintTypes)
          /\ \A q \in 1..(p - 1) : ~CanInitNow(q, ReadyHintTypes)
          /\ ScheduleInit(p)
    /\ UNCHANGED <<batchOrder, lastRestart, queue, candidate, foldVars, loopVars, pc>>

NoPassToInit == \A p \in Passes : ~CanInitNow(p, ReadyHintTypes)

RestartDue ==
    queue # <<>> /\ (lastRestart = 0 \/ order - lastRestart >= RestartInterval)

\* 2. the pass at the head of the restart queue; one that cannot be initialized
\* (because it is disabled or defunct, or lacks its inputs) leaves the queue all
\* the same.
RestartPass ==
    /\ pc = "schedule" /\ FreeWorker /\ NoPassToInit /\ RestartDue
    /\ queue' = Tail(queue)
    /\ IF CanInitFrom(Head(queue), "before_init", ReadyHintTypes)
       THEN /\ ScheduleInit(Head(queue))
            /\ lastRestart' = order
            /\ UNCHANGED pc
       ELSE /\ stage' = [stage EXCEPT ![Head(queue)] = "before_init"]
            /\ pc' = "fill"
            /\ UNCHANGED <<enabled, root, state, taken, succeeded, counts, running,
                           health, paths, jobs, order, lastRestart, dirs>>
    /\ UNCHANGED <<batchOrder, candidate, foldVars, loopVars>>

NoInitNorRestart ==
    /\ pc = "schedule" /\ FreeWorker /\ NoPassToInit /\ ~RestartDue
    /\ pc' = "fill"
    /\ UNCHANGED <<ctxVars, mgrVars, foldVars, loopVars>>

\* What maybe_prepare_folding_job may answer; <<>> when no fold is attempted.
PossibleFolds ==
    IF Interleaving
    THEN PrepareFold(foldCandidates, failedFolds, attemptedFolds, candidate.subs,
                     order - batchOrder)
    ELSE {<<>>}

\* schedule_fold
FoldJob(f) ==
    [order |-> order, kind |-> "fold", pass |-> 0, state |-> NoState, given |-> NoState,
     subs |-> Range(f), reads |-> {}, count |-> 0, folder |-> order]

ScheduleFold(f) ==
    /\ jobs' = jobs \cup {FoldJob(f)}
    /\ dirs' = dirs \cup {JobDir(order)}
    /\ order' = order + 1
    /\ UNCHANGED ctxVars

\* 3. a fold of the successes of this batch
FoldSuccesses ==
    /\ pc = "fill"
    /\ \E f \in PossibleFolds \ {<<>>} :
          /\ attemptedFolds' = attemptedFolds \cup {f}
          /\ ScheduleFold(f)
    /\ pc' = "schedule"
    /\ UNCHANGED <<batchOrder, lastRestart, queue, candidate, foldCandidates,
                   failedFolds, loopVars>>

\* Before a transformation is chosen, every enumeration skips the states that
\* are part of a success of this batch.
Skipped ==
    [p \in Passes |-> IF CanTransformNow(p) THEN AdvanceWhileSubset(p, state[p]) ELSE state[p]]

\* The pass with the fewest jobs in this batch, the first of them on a tie.
NextInTurn(p) ==
    /\ CanTransformIn(p, Skipped)
    /\ \A q \in Passes : CanTransformIn(q, Skipped) =>
          \/ JobsInCurrentBatch(p) < JobsInCurrentBatch(q)
          \/ JobsInCurrentBatch(p) = JobsInCurrentBatch(q) /\ p <= q

\* schedule_transform
TransformJob(p) ==
    [order |-> order, kind |-> "transform", pass |-> p, state |-> Skipped[p],
     given |-> NoState, subs |-> {}, reads |-> {}, count |-> counter[p], folder |-> order]

ScheduleTransform(p) ==
    /\ jobs' = jobs \cup {TransformJob(p)}
    /\ dirs' = dirs \cup {JobDir(order)}
    /\ running' = [running EXCEPT ![p] = @ \cup {[order |-> order, state |-> Skipped[p]]}]
    /\ counter' = [counter EXCEPT ![p] = @ + 1]
    /\ state' = [Skipped EXCEPT ![p] = Advance(@)]
    /\ order' = order + 1
    /\ UNCHANGED <<stage, enabled, root, taken, succeeded, lastSuccess, batchCounter,
                   health, paths>>

\* 4. the next transformation, in round-robin order
TransformPass ==
    /\ pc = "fill" /\ <<>> \in PossibleFolds
    /\ \E p \in Passes : NextInTurn(p) /\ ScheduleTransform(p)
    /\ pc' = "schedule"
    /\ UNCHANGED <<batchOrder, lastRestart, queue, candidate, foldVars, loopVars>>

\* A faulty variant: it does not look whether there is anything to wait for.
WaitAlways ==
    /\ pc = "fill" /\ <<>> \in PossibleFolds
    /\ \A p \in Passes : ~CanTransformIn(p, Skipped)
    /\ state' = Skipped
    /\ pc' = "wait"
    /\ UNCHANGED <<stage, enabled, root, taken, succeeded, counts, running, health,
                   paths, mgrVars, foldVars, loopVars>>

\* Nothing to do for the free workers: wait for the running jobs, or leave the
\* loop when there are none.
NothingToSchedule ==
    /\ pc = "fill" /\ <<>> \in PossibleFolds
    /\ \A p \in Passes : ~CanTransformIn(p, Skipped)
    /\ state' = Skipped
    /\ pc' = IF jobs = {} THEN "drain" ELSE "wait"
    /\ UNCHANGED <<stage, enabled, root, taken, succeeded, counts, running, health,
                   paths, mgrVars, foldVars, loopVars>>
-----------------------------------------------------------------------------
(* process_done_futures: the jobs are visited in the order they were started *)

Unseen == {j \in jobs : j.order > cursor}
NextJob(j) == j \in Unseen /\ \A i \in Unseen : j.order <= i.order

\* wait() returned: at least one of the futures is done.
ResultsArrive ==
    /\ pc = "wait" /\ jobs # {}
    /\ pc' = "handle"
    /\ UNCHANGED <<ctxVars, mgrVars, foldVars, loopVars>>

StillRunning(j) ==
    /\ pc = "handle" /\ NextJob(j)
    /\ finished # {} \/ Unseen # {j}
    /\ cursor' = j.order
    /\ UNCHANGED <<ctxVars, mgrVars, foldVars, readyTypes, finished, testCase,
                   successes, pc>>

\* A job that is done is released after all the others have been looked at.
Seen(j) ==
    /\ pc = "handle" /\ NextJob(j)
    /\ cursor' = j.order
    /\ finished' = finished \cup {j.order}
    /\ UNCHANGED <<readyTypes, testCase, successes>>

NotPopped(j) == running   \* faulty

\* running_transform_order_to_state.pop(job.order)
Popped(j) ==
    IF j.pass = 0 THEN running
    ELSE [running EXCEPT ![j.pass] = {r \in @ : r.order # j.order}]

\* handle_timed_out_job; a job cancelled for a missing timeout is no different
HandleTimeout(j) ==
    /\ Seen(j)
    /\ IF j.pass = 0
       THEN UNCHANGED ctxVars
       ELSE /\ timeouts' = [timeouts EXCEPT ![j.pass] = @ + 1]
            /\ running' = IF j.kind = "transform" THEN Popped(j) ELSE running
            /\ defunct' = [defunct EXCEPT ![j.pass] = @ \/ timeouts'[j.pass] >= MaxTimeouts]
            /\ UNCHANGED <<stage, enabled, root, state, taken, succeeded, counts,
                           paths>>
    /\ UNCHANGED <<mgrVars, foldVars, pc>>

\* handle_finished_init_job: the job's directory becomes the pass' one.
HandleInit(j) ==
    /\ Seen(j) /\ j.kind = "init"
    /\ \E r \in InitResults(j) :
          /\ stage' = [stage EXCEPT ![j.pass] = "enumerating"]
          /\ state' = [state EXCEPT ![j.pass] = r.state]
          /\ paths' = [paths EXCEPT ![j.pass] = r.paths]
    /\ dirs' = dirs \ (IF root[j.pass] = 0 THEN {} ELSE {JobDir(root[j.pass])})
    /\ root' = [root EXCEPT ![j.pass] = j.folder]
    /\ jobs' = (jobs \ {j}) \cup {[j EXCEPT !.folder = 0]}
    /\ UNCHANGED <<enabled, taken, succeeded, counts, running, health, order,
                   batchOrder, lastRestart, queue, candidate, foldVars, pc>>

\* handle_finished_transform_job, one action per outcome.  A state without
\* regular hints makes the worker answer STOP.
HasHints(j) == j.kind = "fold" \/ j.state.pos # 0

\* STOP: the pass answered STOP or ERROR, or the directories for bug reports
\* have run out.  For a fold, the code asserts that this does not happen.
HandleStop(j) ==
    /\ Seen(j) /\ j.kind = "transform"
    /\ running' = Popped(j)
    /\ state' = [state EXCEPT ![j.pass] = NoState]
    /\ UNCHANGED <<stage, enabled, root, taken, succeeded, counts, health, paths,
                   mgrVars, foldVars, pc>>

\* on_transform_job_failure: the failed folds are remembered.
Failed(j) ==
    /\ failedFolds' = IF Interleaving /\ j.kind = "fold" THEN Append(failedFolds, j.subs)
                      ELSE failedFolds
    /\ UNCHANGED <<foldCandidates, attemptedFolds>>

\* IGNORE of a variant that is interesting, but unchanged or too much smaller
HandleUseless(j) ==
    /\ Seen(j) /\ j.kind # "init" /\ HasHints(j)
    /\ running' = Popped(j)
    /\ Failed(j)
    /\ UNCHANGED <<stage, enabled, root, state, taken, succeeded, counts, health,
                   paths, mgrVars, pc>>

\* The variant is not interesting: IGNORE, or, after too many jobs without a
\* success, the pass is given up.
GivesUp(j) ==
    j.kind = "transform" /\ ~defunct[j.pass] /\ JobsSinceLastSuccess(j.pass) > GiveUp

HandleFailure(j) ==
    /\ Seen(j) /\ j.kind # "init" /\ HasHints(j)
    /\ running' = Popped(j)
    /\ IF GivesUp(j)
       THEN /\ defunct' = [defunct EXCEPT ![j.pass] = TRUE]
            /\ state' = [state EXCEPT ![j.pass] = NoState]
            /\ UNCHANGED foldVars
       ELSE Failed(j) /\ UNCHANGED <<defunct, state>>
    /\ UNCHANGED <<stage, enabled, root, taken, succeeded, counts, timeouts, paths,
                   mgrVars, pc>>

\* The hints of a fold could not be applied together (PassResult.INVALID): no
\* fold state comes back, hence nothing is remembered.
HandleInvalidFold(j) ==
    /\ Seen(j) /\ j.kind = "fold"
    /\ UNCHANGED <<ctxVars, mgrVars, foldVars, pc>>

\* SuccessCandidate.better_than; gain stands for the size removed and, after
\* it, for the number of instances
BetterThan(new, old) ==
    IF (new.pass = 0) = (old.pass = 0) THEN new.gain > old.gain ELSE new.pass = 0

\* maybe_update_success_candidate: the better candidate takes over the variant's
\* files in a directory of its own; the worse one's directory is deleted.
UpdateCandidate(new) ==
    IF candidate # NoCandidate /\ ~BetterThan(new, candidate)
    THEN UNCHANGED <<candidate, dirs>>
    ELSE /\ candidate' = new
         /\ dirs' = (dirs \ CandidateDirs) \cup {BestDir(new.order)}

\* ACCEPT
HandleSuccess(j) ==
    LET p == j.pass
        hints == IF j.kind = "fold" THEN j.subs
                 ELSE IF p \in HintBased THEN {j.state} ELSE {}
    IN  /\ Seen(j) /\ j.kind # "init" /\ HasHints(j)
        /\ running' = Popped(j)
        /\ \E g \in Gains : UpdateCandidate([order |-> j.order, pass |-> p, state |-> j.state,
                                             subs |-> hints, gain |-> g])
        /\ foldCandidates' = IF Interleaving /\ j.kind = "transform"
                             THEN foldCandidates \cup hints ELSE foldCandidates
        /\ IF j.kind = "fold"
           THEN UNCHANGED <<succeeded, lastSuccess>>
           ELSE /\ succeeded' = [succeeded EXCEPT ![p] = @ \cup {j.state}]
                /\ lastSuccess' = [lastSuccess EXCEPT ![p] = IF @ >= j.count THEN @ ELSE j.count]
        /\ UNCHANGED <<stage, enabled, root, state, taken, counter, batchCounter,
                       health, paths, jobs, order, batchOrder, lastRestart, queue,
                       failedFolds, attemptedFolds, pc>>

\* The job raised an exception (its worker died, a pass' new() failed, or a bug
\* of a pass is to be fatal), which nothing catches.
WorkerError(j) ==
    /\ Seen(j)
    /\ pc' = "crashed"
    /\ UNCHANGED <<ctxVars, mgrVars, foldVars>>

\* A faulty variant: folds are waited for when there will be none.
ProceedAfterFolds ==
    /\ candidate # NoCandidate
    /\ ~ContinueAttemptingFolds(order - batchOrder, ParallelTests, N)

\* should_proceed_with_success_candidate
ShouldProceed ==
    /\ candidate # NoCandidate
    /\ Interleaving => ~ContinueAttemptingFolds(order - batchOrder, ParallelTests, N)

\* release_job of every finished job, then the check whether to go on.
ReleaseFinished ==
    LET done == {j \in jobs : j.order \in finished}
    IN  /\ pc = "handle" /\ Unseen = {}
        /\ jobs' = jobs \ done
        /\ dirs' = dirs \ FolderDirs(done)
        /\ cursor' = 0 /\ finished' = {}
        /\ pc' = IF ShouldProceed THEN "drain" ELSE "loop"
        /\ UNCHANGED <<ctxVars, order, batchOrder, lastRestart, queue, candidate, foldVars,
                       readyTypes, testCase, successes>>

-----------------------------------------------------------------------------
(* The end of a batch *)

\* Faulty variants: the directories are not deleted; the jobs go on.
DrainWithoutDeleting ==
    /\ pc = "drain"
    /\ jobs' = {}
    /\ pc' = IF candidate = NoCandidate THEN "next" ELSE "commit"
    /\ UNCHANGED <<ctxVars, order, batchOrder, lastRestart, queue, candidate, dirs,
                   foldVars, loopVars>>

DrainNothing ==
    /\ pc = "drain"
    /\ pc' = IF candidate = NoCandidate THEN "next" ELSE "commit"
    /\ UNCHANGED <<ctxVars, mgrVars, foldVars, loopVars>>

\* What still runs is cancelled and released.
DrainJobs ==
    /\ pc = "drain"
    /\ jobs' = {}
    /\ dirs' = dirs \ FolderDirs(jobs)
    /\ pc' = IF candidate = NoCandidate THEN "next" ELSE "commit"
    /\ UNCHANGED <<ctxVars, order, batchOrder, lastRestart, queue, candidate,
                   foldVars, loopVars>>

\* process_result, for the pass p: its next state is the success itself when no
\* earlier state is still being checked, and else the earliest of those.
EarliestRunning(p) == CHOOSE r \in running[p] : \A s \in running[p] : r.order <= s.order

\* A faulty variant: the enumeration goes on from the success, although earlier
\* states are still being checked.
NotRewound(p) == IF candidate.pass = p THEN candidate.state ELSE state[p]

RewoundState(p) ==
    IF candidate.pass = p /\ (running[p] = {} \/ candidate.order <= EarliestRunning(p).order)
    THEN candidate.state
    ELSE IF running[p] # {} THEN EarliestRunning(p).state
    ELSE state[p]

\* A faulty variant: not recorded for a pass that is rewound.
TakenUnlessRewound(p) ==
    IF candidate.pass = p /\ running[p] = {} THEN candidate.state ELSE NoState

\* taken_succeeded_state
TakenState(p) == IF candidate.pass = p THEN candidate.state ELSE NoState

\* The candidate replaces the test case.  The loop over batches ends when
\* enough transformations succeeded, and may end because the user skips the
\* pass, the test case has grown too much or max_transforms is reached.
ProcessResult ==
    /\ pc = "commit"
    /\ state' = [p \in Passes |-> RewoundState(p)]
    /\ taken' = [p \in Passes |-> TakenState(p)]
    /\ stage' = [p \in Passes |-> IF ShouldReinit(p, RewoundState(p)) THEN "before_init"
                                  ELSE stage[p]]
    /\ running' = [p \in Passes |-> {}]
    /\ dirs' = dirs \ CandidateDirs
    /\ candidate' = NoCandidate
    /\ successes' = successes + 1
    /\ \/ pc' = "next"
       \/ (SkipAfter = 0 \/ successes' < SkipAfter) /\ pc' = "round"
    /\ UNCHANGED <<enabled, root, succeeded, counts, health, paths, jobs, order,
                   batchOrder, lastRestart, queue, foldVars, readyTypes, cursor,
                   finished, testCase>>

\* A signal is noticed at the top of the main loop and after wait():
\* terminate_all and remove_roots.
Interrupt ==
    /\ \/ pc = "loop" /\ LoopCondition
       \/ pc = "wait"
    /\ jobs' = {}
    /\ dirs' = dirs \ (FolderDirs(jobs) \cup RootDirs \cup CandidateDirs)
    /\ root' = [p \in Passes |-> 0]
    /\ candidate' = NoCandidate
    /\ pc' = "exited"
    /\ UNCHANGED <<stage, enabled, state, taken, succeeded, counts, running, health,
                   paths, order, batchOrder, lastRestart, queue, foldVars, loopVars>>

\* run_passes has ended, one way or the other.
Terminated == pc \in {"finished", "exited", "crashed"} /\ UNCHANGED vars

-----------------------------------------------------------------------------
HandleJob(j) ==
    \/ StillRunning(j) \/ HandleTimeout(j) \/ HandleInit(j) \/ HandleStop(j)
    \/ HandleUseless(j) \/ HandleFailure(j) \/ HandleInvalidFold(j) \/ HandleSuccess(j)
    \/ WorkerError(j)

Step ==
    \/ StartTestCase \/ FinishRun \/ LeaveRound
    \/ StartBatch \/ TestLoop \/ AllWorkersBusy
    \/ InitPass \/ RestartPass \/ NoInitNorRestart
    \/ FoldSuccesses \/ TransformPass \/ NothingToSchedule
    \/ ResultsArrive \/ ReleaseFinished \/ \E j \in jobs : HandleJob(j)
    \/ DrainJobs \/ ProcessResult

Next == Step \/ Interrupt \/ Terminated

Spec == Init /\ [][Next]_vars

\* The main thread never stops while it can run, and wait() returns, because
\* every job is resolved or cancelled by its timeout.  No signal need come.
FairSpec == Spec /\ WF_vars(Step)
=============================================================================
