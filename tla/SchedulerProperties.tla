------------------------ MODULE SchedulerProperties ------------------------
(***************************************************************************)
(* What Scheduler is to guarantee: the properties the model checker checks  *)
(* and the theorems of SchedulerProofs prove.                               *)
(***************************************************************************)
EXTENDS Scheduler

Ended == {"finished", "exited"}
PC == {"next", "round", "loop", "schedule", "fill", "wait", "handle", "drain",
       "commit", "crashed"} \cup Ended

\* The variables keep to the values PassContext, Job and TestManager declare.
TypeOK ==
    /\ stage \in [Passes -> {"before_init", "in_init", "enumerating"}]
    /\ enabled \in [Passes -> BOOLEAN]
    /\ root \in [Passes -> Nat]
    /\ state \in [Passes -> State]
    /\ taken \in [Passes -> State]
    /\ succeeded \in [Passes -> SUBSET State]
    /\ counter \in [Passes -> Nat]
    /\ lastSuccess \in [Passes -> Nat]
    /\ batchCounter \in [Passes -> Nat]
    /\ running \in [Passes -> SUBSET Running]
    /\ defunct \in [Passes -> BOOLEAN]
    /\ timeouts \in [Passes -> Nat]
    /\ paths \in [Passes -> SUBSET Types]
    /\ jobs \subseteq Job
    /\ order \in Nat \ {0} /\ batchOrder \in Nat \ {0} /\ lastRestart \in Nat
    /\ queue \in Seq(Passes)
    /\ candidate \in Candidate
    /\ dirs \subseteq {"job", "best"} \X Nat
    /\ foldCandidates \subseteq State
    /\ failedFolds \in Seq(SUBSET State)
    /\ \A f \in attemptedFolds : Range(f) \subseteq State
    /\ pc \in PC
    /\ readyTypes \subseteq Types
    /\ cursor \in Nat /\ finished \subseteq Nat /\ testCase \in Nat /\ successes \in Nat

-----------------------------------------------------------------------------
(* Work is always about the current test case *)

\* Jobs whose result the main thread has yet to look at.
Pending == {j \in jobs : j.order \notin finished}

\* run_parallel_tests and process_result: every job in flight and the success
\* candidate were started after the last reduction was committed, and every
\* hint they apply or are given was generated after it.  A result about an
\* older version of the test case would undo or corrupt the reduction, and
\* nothing in the code checks versions: it follows from which passes are
\* re-initialized and from the jobs cancelled at the end of a batch.
FreshWork ==
    /\ \A j \in Pending :
          /\ j.order >= batchOrder
          /\ j.kind = "transform" => j.state.root >= batchOrder
          /\ \A s \in j.subs : s.root >= batchOrder
          /\ \A d \in j.reads : d >= batchOrder
    /\ candidate # NoCandidate => candidate.order >= batchOrder

\* handle_finished_init_job deletes the pass' previous directory while other
\* jobs run: no job still running may need it.  A transformation reads its own
\* pass' hints, a fold those of many passes, and an init job the bundles of the
\* passes it depends on.
InputsAlive ==
    \A j \in Pending :
       /\ j.kind = "transform" => JobDir(j.state.root) \in dirs
       /\ \A s \in j.subs : JobDir(s.root) \in dirs
       /\ \A d \in j.reads : JobDir(d) \in dirs

\* running_transform_order_to_state and the list of jobs tell the same story:
\* otherwise a pop() fails, or a state is rewound to that nobody was checking.
RunningMatchesJobs ==
    pc \in {"loop", "schedule", "fill", "wait", "handle"} =>
       \A p \in Passes : running[p] =
          {[order |-> j.order, state |-> j.state] :
              j \in {i \in Pending : i.kind = "transform" /\ i.pass = p}}

-----------------------------------------------------------------------------
(* Temporary directories *)

\* Every temporary directory has exactly one owner - a job, a pass or the
\* success candidate - and exists exactly as long: delete_dir never misses one
\* (it asserts that) and none is leaked while a test case is reduced.
TempDirsOwned ==
    /\ TestCases <= 1 => dirs = FolderDirs(jobs) \cup RootDirs \cup CandidateDirs
    /\ FolderDirs(jobs) \cup RootDirs \cup CandidateDirs \subseteq dirs
    /\ FolderDirs(jobs) \cap RootDirs = {}
    /\ \A p, q \in Passes : root[p] = root[q] /\ root[p] # 0 => p = q

-----------------------------------------------------------------------------
(* Scheduling *)

\* The two assertions of maybe_schedule_job about the pass it takes from the
\* restart queue, which spans batches in which passes are re-initialized, and
\* what makes a restart harmless: nothing of the pass is running.
QueueSound ==
    pc \notin Ended =>
       /\ \A i, k \in DOMAIN queue : queue[i] = queue[k] => i = k
       /\ \A i \in DOMAIN queue :
             /\ stage[queue[i]] = "enumerating" /\ state[queue[i]] = NoState
             /\ running[queue[i]] = {}
             /\ candidate.pass # queue[i]

\* ClangBinarySearchPass.advance_on_success reads a field of succeeded_state:
\* when passes run one at a time it is always given one, however the batches
\* before it ended.
SucceededStateSupplied ==
    ~Interleaving => \A j \in jobs :
        j.kind = "init" /\ j.state # NoState => j.given # NoState

\* When passes run one at a time, no job is started any more once there is a
\* success candidate (should_proceed_with_success_candidate).
FirstSuccessIsTaken ==
    [][~Interleaving /\ candidate # NoCandidate => order' = order]_vars

\* process_result: whatever was still being checked when the candidate was
\* chosen will be checked again - the next state of the pass is not beyond it
\* in the same enumeration, and the pass is re-initialized to continue there.
NothingUncheckedIsSkipped ==
    [][pc = "commit" =>
         \A p \in Passes : \A r \in running[p] :
            /\ state'[p].root = r.state.root
            /\ state'[p].pos <= r.state.pos
            /\ stage'[p] = "before_init"]_vars

\* maybe_prepare_folding_job: a fold that is attempted adds to everything the
\* best success so far applies, and consists of successes.
FoldExtendsBest ==
    [][\A j \in jobs' \ jobs : j.kind = "fold" =>
          /\ candidate.subs \subseteq j.subs /\ candidate.subs # j.subs
          /\ j.subs \subseteq foldCandidates]_vars

\* "If maybe_schedule_job() couldn't schedule any work (e.g. because states
\* were exhausted)" (run_parallel_tests): a test case is left for lack of a
\* success only when no pass has anything more to do.
WorkExhausted ==
    [][pc = "drain" /\ pc' = "next" =>
         \A p \in Passes : ~CanStartJobNow(p, ReadyHintTypes)]_vars

\* The same for the passes that take no hints of other passes: whatever the
\* stale set of ready types in run_parallel_tests says, none of them is left
\* idle with states to try.
IndependentWorkExhausted ==
    [][pc = "drain" /\ pc' = "next" =>
         \A p \in Passes : Inputs[p] = {} => ~CanStartJobNow(p, ReadyHintTypes)]_vars

-----------------------------------------------------------------------------
(***************************************************************************)
(* The inductive invariant behind FreshWork, InputsAlive and QueueSound.    *)
(* Its idea is the set of passes that were initialized in this batch: as    *)
(* long as the batch lasts they keep their directory, only they are         *)
(* enumerated, and everything in flight uses their directories alone.  An   *)
(* initialized pass left from an earlier batch has nothing to enumerate and *)
(* feeds no pass in use, because process_result re-initializes all others;  *)
(* only such passes are in the restart queue.                               *)
(***************************************************************************)
Current(p) == stage[p] = "enumerating" /\ root[p] >= batchOrder
CurrentRoots == {root[p] : p \in {q \in Passes : Current(q)}}
FeedsNone(p) == \A q \in Passes : ~Feeds(p, q)

JobsInv ==
    /\ batchOrder <= order
    /\ \A j \in jobs : batchOrder <= j.order /\ j.order < order /\ j.folder \in {0, j.order}
    /\ \A i, j \in jobs : i.order = j.order => i = j
    /\ \A j \in jobs : (j.kind = "fold") = (j.pass = 0)
    /\ \A o \in finished : o <= cursor
    /\ pc \notin {"handle", "crashed"} => finished = {} /\ cursor = 0
    /\ pc \in {"next", "round", "commit"} \cup Ended => jobs = {}

PendingInv ==
    /\ \A j \in Pending :
          /\ j.folder = j.order
          /\ j.kind = "init" => stage[j.pass] = "in_init"
          /\ j.kind = "transform" => Current(j.pass) /\ j.state.root = root[j.pass]
          /\ \A s \in j.subs : s.root \in CurrentRoots
          /\ j.reads \subseteq CurrentRoots
    /\ \A i, j \in Pending : i.kind = "init" /\ j.kind = "init" /\ i.pass = j.pass => i = j

ContextsInv ==
    pc \notin Ended =>
       \A p \in Passes :
          /\ root[p] < order
          /\ paths[p] \subseteq Outputs[p] \cup {Untyped}
          /\ \A r \in running[p] : Current(p) /\ r.state.root = root[p]
          /\ stage[p] = "enumerating" =>
                /\ state[p] # NoState => state[p].root = root[p]
                /\ root[p] < batchOrder \/ pc = "round" => state[p] = NoState /\ FeedsNone(p)

QueueInv ==
    pc \notin Ended =>
       /\ \A i, k \in DOMAIN queue : queue[i] = queue[k] => i = k
       /\ \A i \in DOMAIN queue :
             stage[queue[i]] = "enumerating" /\ root[queue[i]] < batchOrder

CandidateInv ==
    /\ candidate # NoCandidate =>
          /\ batchOrder <= candidate.order /\ candidate.order < order
          /\ candidate.pass # 0 => Current(candidate.pass)
    /\ pc \in {"next", "round"} \cup Ended => candidate = NoCandidate
    /\ pc = "commit" => candidate # NoCandidate

FoldInv ==
    /\ pc \notin {"next", "round"} \cup Ended =>
          \A s \in foldCandidates : s.root \in CurrentRoots
    /\ ~Interleaving => foldCandidates = {}

DirsInv ==
    pc \notin Ended =>
       /\ \A p \in Passes : root[p] # 0 => JobDir(root[p]) \in dirs
       /\ \A p, q \in Passes : root[p] = root[q] /\ root[p] # 0 => p = q
       /\ \A j \in jobs : j.folder # 0 =>
             JobDir(j.folder) \in dirs /\ \A p \in Passes : root[p] # j.folder

IndInv ==
    /\ TypeOK /\ JobsInv /\ PendingInv /\ ContextsInv /\ QueueInv /\ CandidateInv
    /\ FoldInv /\ DirsInv

\* The invariant behind NothingUncheckedIsSkipped: a pass' jobs are started in
\* the order of its enumeration, so that whatever was started after the candidate
\* is beyond it, and what comes next is beyond everything that was started.
EnumerationInv ==
    pc \notin {"next", "round", "crashed"} \cup Ended => \A p \in Passes :
       /\ \A j \in Pending : j.kind = "transform" /\ j.pass = p =>
             [order |-> j.order, state |-> j.state] \in running[p]
       /\ \A r \in running[p] :
             r.order < order /\ (state[p] # NoState => r.state.pos <= state[p].pos)
       /\ \A r, s \in running[p] : r.order <= s.order => r.state.pos <= s.state.pos
       /\ candidate.pass = p =>
             /\ candidate.state.root = root[p]
             /\ state[p] # NoState => candidate.state.pos <= state[p].pos
             /\ \A r \in running[p] :
                   candidate.order <= r.order => candidate.state.pos <= r.state.pos

\* The invariant behind TempDirsOwned.  Before the first test case there is no
\* directory; later test cases begin with the roots of the earlier ones left.
OwnedInv ==
    /\ CandidateDirs \subseteq dirs
    /\ pc \in Ended => \A p \in Passes : root[p] = 0
    /\ testCase = 0 => pc \in {"next"} \cup Ended /\ dirs = {}
    /\ TestCases <= 1 => dirs \subseteq FolderDirs(jobs) \cup RootDirs \cup CandidateDirs

\* The invariant behind FoldExtendsBest: whatever the candidate and the folds in
\* flight apply is among the successes of this batch.  Without interleaving there
\* are no folds.
FoldPartsInv ==
    /\ IsFiniteSet(foldCandidates)
    /\ Interleaving =>
          /\ candidate.subs \subseteq foldCandidates
          /\ \A j \in jobs : j.kind = "fold" => j.subs \subseteq foldCandidates
    /\ ~Interleaving =>
          /\ \A j \in jobs : j.kind # "fold"
          /\ candidate # NoCandidate => candidate.pass # 0

\* The invariant behind FirstSuccessIsTaken: the main loop is not entered again
\* with a candidate.
OneSuccessInv ==
    ~Interleaving /\ candidate # NoCandidate =>
       pc \in {"handle", "drain", "commit", "crashed"}

\* The invariant behind SucceededStateSupplied: a pass that has a state and waits
\* for its initialization, or for the end of it, was rewound by a success.
SuppliedInv ==
    ~Interleaving =>
       /\ \A j \in jobs : j.kind = "init" /\ j.state # NoState => j.given # NoState
       /\ \A p \in Passes :
             stage[p] # "enumerating" /\ state[p] # NoState => taken[p] # NoState

\* The invariant behind IndependentWorkExhausted, for the passes without inputs.
ExhaustedInv ==
    \A p \in Passes : Inputs[p] = {} =>
       /\ pc = "fill" => ~CanInitNow(p, {})
       /\ pc = "drain" /\ candidate = NoCandidate => ~CanStartJobNow(p, {})

-----------------------------------------------------------------------------
(* The abstract specification *)

\* An attempt of Reduction is a job or the candidate; it is made on the version
\* of the test case that was current when its batch began.
Version == <<testCase, successes>>
BaseOf(o) == IF o >= batchOrder THEN Version ELSE <<0, 0>>
AttemptOf(o) == [id |-> o, base |-> BaseOf(o)]
Attempts == {AttemptOf(j.order) : j \in jobs}
Best == IF candidate = NoCandidate THEN [id |-> 0, base |-> <<0, 0>>]
        ELSE AttemptOf(candidate.order)
Abstract == INSTANCE Reduction WITH version <- Version, attempts <- Attempts, best <- Best

\* The scheduler implements Reduction: every version of the test case is made
\* from the one before it, by the candidate, with nothing left running.
ReductionSpec == Abstract!Spec

-----------------------------------------------------------------------------
(* Progress *)

\* Every batch comes to an end: run_parallel_tests returns (or the program is
\* interrupted), whatever the workers answer or fail to answer.
BatchEnds ==
    pc = "loop" ~> pc \in {"next", "commit", "crashed", "exited"}
=============================================================================
