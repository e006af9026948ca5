--------------------------- MODULE SchedulerCommit ---------------------------
(***************************************************************************)
(* Machine-checked proofs about what committing a success does.             *)
(*                                                                         *)
(* Scheduler implements Reduction: for any passes, workers and batches, the *)
(* test case goes from version to version only by adopting a variant of the *)
(* present version, with nothing that was made from it still under way.     *)
(*                                                                         *)
(* No state of a pass is skipped unchecked: when a success is committed,    *)
(* process_result rewinds every pass to a state that is not beyond any that *)
(* was still being checked.                                                 *)
(***************************************************************************)
EXTENDS SchedulerProofs

-----------------------------------------------------------------------------
(* Refinement *)

mapped == <<Version, Attempts, Best>>

\* Everything in flight was started on the present version.
LEMMA BasesAreCurrent ==
  ASSUME TypeOK, Parts
  PROVE  /\ \A j \in jobs : BaseOf(j.order) = Version
         /\ candidate # NoCandidate => BaseOf(candidate.order) = Version /\ candidate.order # 0
         /\ Attempts = {[id |-> j.order, base |-> Version] : j \in jobs}
<1>1. \A j \in jobs : j.order >= batchOrder
  BY JobFacts DEF TypeOK
<1>2. candidate # NoCandidate => candidate.order >= batchOrder /\ candidate.order # 0
  BY CandidatePass DEF Parts, CandidateInv, TypeOK
<1> QED BY <1>1, <1>2 DEF BaseOf, AttemptOf, Attempts

LEMMA InitMaps == Init => Abstract!Init
BY DEF Init, Abstract!Init, Version, Attempts, Best, Abstract!Nothing

\* Steps that are invisible, or end attempts.
LEMMA EndMaps ==
  ASSUME TypeOK, Parts, UNCHANGED <<testCase, successes, batchOrder, candidate>>,
         \A i \in jobs' : \E j \in jobs : i.order = j.order
  PROVE  [Abstract!Next]_mapped
<1>1. Version' = Version /\ (\A o : BaseOf(o)' = BaseOf(o))
  BY DEF Version, BaseOf
<1>2. Best' = Best
  BY <1>1 DEF Best, AttemptOf
<1>3. Attempts' \subseteq Attempts
  BY <1>1 DEF Attempts, AttemptOf
<1> QED BY <1>1, <1>2, <1>3 DEF Abstract!Next, Abstract!End, mapped

\* Starting a job begins an attempt.
LEMMA BeginMaps ==
  ASSUME TypeOK, Parts, UNCHANGED <<testCase, successes, batchOrder, candidate>>,
         NEW j, j.order = order, jobs' = jobs \cup {j}
  PROVE  [Abstract!Next]_mapped
<1>1. Version' = Version /\ (\A o : BaseOf(o)' = BaseOf(o))
  BY DEF Version, BaseOf
<1>2. Best' = Best
  BY <1>1 DEF Best, AttemptOf
<1>3. order >= batchOrder
  BY DEF Parts, JobsInv, TypeOK
<1>4. AttemptOf(order).base = Version
  BY <1>3 DEF AttemptOf, BaseOf
<1>5. Attempts' = Attempts \cup {AttemptOf(order)}
  BY <1>1 DEF Attempts, AttemptOf
<1> QED BY <1>1, <1>2, <1>4, <1>5 DEF Abstract!Next, Abstract!Begin

\* The next test case.
LEMMA StartTestCaseMaps ==
  ASSUME TypeOK, Parts, StartTestCase PROVE [Abstract!Next]_mapped
<1>1. /\ jobs = {} /\ jobs' = {} /\ candidate = NoCandidate /\ candidate' = NoCandidate
      /\ testCase' = testCase + 1 /\ successes' \in {0, successes}
  BY DEF StartTestCase, Parts, JobsInv, CandidateInv
<1>2. Attempts = {} /\ Attempts' = {} /\ Best = Abstract!Nothing /\ Best' = Best
  BY <1>1 DEF Attempts, Best, Abstract!Nothing
<1>3. Version'[1] = Version[1] + 1 /\ Version'[2] \in {0, Version[2]}
  BY <1>1 DEF Version
<1> QED BY <1>2, <1>3 DEF Abstract!Next, Abstract!Turn

\* The candidate is adopted.
LEMMA ProcessResultMaps ==
  ASSUME TypeOK, Parts, ProcessResult PROVE [Abstract!Next]_mapped
<1>1. /\ jobs = {} /\ jobs' = {} /\ candidate # NoCandidate /\ candidate' = NoCandidate
      /\ testCase' = testCase /\ successes' = successes + 1
  BY DEF ProcessResult, Parts, JobsInv, CandidateInv
<1>2. Attempts = {} /\ Attempts' = {} /\ Best' = Abstract!Nothing
  BY <1>1 DEF Attempts, Best, Abstract!Nothing
<1>3. Best = [id |-> candidate.order, base |-> Version] /\ candidate.order # 0
  BY <1>1, BasesAreCurrent DEF Best, AttemptOf
<1>4. Best # Abstract!Nothing /\ Best.base = Version
  <2>1. Best.id # 0
    BY <1>3
  <2>2. Abstract!Nothing.id = 0
    BY DEF Abstract!Nothing
  <2> QED BY <1>3, <2>1, <2>2
<1>5. Version' = <<Version[1], Version[2] + 1>>
  BY <1>1 DEF Version
<1> QED BY <1>2, <1>4, <1>5 DEF Abstract!Next, Abstract!Adopt

\* A success may become the candidate.
LEMMA HandleSuccessMaps ==
  ASSUME TypeOK, Parts, NEW j \in jobs, HandleSuccess(j) PROVE [Abstract!Next]_mapped
<1> DEFINE hints == IF j.kind = "fold" THEN j.subs
                    ELSE IF j.pass \in HintBased THEN {j.state} ELSE {}
<1>1. UNCHANGED <<testCase, successes, batchOrder, jobs>>
  BY DEF HandleSuccess, Seen
<1>2. PICK g \in Gains : UpdateCandidate([order |-> j.order, pass |-> j.pass, state |-> j.state,
                                         subs |-> hints, gain |-> g])
  BY DEF HandleSuccess
<1> HIDE DEF hints
<1>3. candidate' = candidate \/ candidate'.order = j.order
  BY <1>2 DEF UpdateCandidate
<1>4. Version' = Version /\ Attempts' = Attempts /\ (\A o : AttemptOf(o)' = AttemptOf(o))
  BY <1>1 DEF Version, Attempts, AttemptOf, BaseOf
<1>5. CASE candidate' = candidate
  BY <1>4, <1>5 DEF mapped, Best
<1>6. CASE candidate' # candidate
  <2>1. j.order # 0 /\ candidate'.order = j.order /\ NoCandidate.order = 0
    BY <1>3, <1>6, JobFacts DEF TypeOK, NoCandidate
  <2>2. Best' = AttemptOf(j.order)
    BY <1>4, <2>1 DEF Best
  <2>3. Best' \in Attempts
    BY <2>2 DEF Attempts
  <2> QED BY <1>4, <2>3 DEF Abstract!Next, Abstract!Succeed
<1> QED BY <1>5, <1>6

LEMMA InterruptMaps ==
  ASSUME TypeOK, Parts, Interrupt PROVE [Abstract!Next]_mapped
<1>1. jobs' = {} /\ candidate' = NoCandidate /\ UNCHANGED <<testCase, successes>>
  BY DEF Interrupt, loopVars
<1> QED BY <1>1 DEF Abstract!Next, Abstract!GiveUpAll, Abstract!Nothing, Version, Attempts, Best

LEMMA HandleJobMaps ==
  ASSUME TypeOK, Parts, NEW j \in jobs, HandleJob(j) PROVE [Abstract!Next]_mapped
<1>1. CASE HandleSuccess(j)
  BY <1>1, HandleSuccessMaps
<1>2. CASE HandleInit(j)
  <2>1. UNCHANGED <<testCase, successes, batchOrder, candidate>>
        /\ jobs' = (jobs \ {j}) \cup {[j EXCEPT !.folder = 0]}
    BY <1>2 DEF HandleInit, Seen
  <2>2. [j EXCEPT !.folder = 0].order = j.order
    BY DEF TypeOK, Job
  <2> QED BY <2>1, <2>2, EndMaps
<1>3. CASE ~HandleSuccess(j) /\ ~HandleInit(j)
  <2>1. UNCHANGED <<testCase, successes, batchOrder, candidate, jobs>>
    BY <1>3 DEF HandleJob, StillRunning, HandleTimeout, HandleStop, HandleUseless, HandleFailure,
                HandleInvalidFold, WorkerError, Seen, mgrVars
  <2> QED BY <2>1, EndMaps
<1> QED BY <1>1, <1>2, <1>3

\* Every step of the scheduler is one of the reduction, or invisible.
LEMMA StepMaps == TypeOK /\ Parts /\ [Next]_vars => [Abstract!Next]_mapped
<1> SUFFICES ASSUME TypeOK, Parts, [Next]_vars PROVE [Abstract!Next]_mapped
  OBVIOUS
<1>1. CASE StartTestCase \/ ProcessResult \/ Interrupt
  BY <1>1, StartTestCaseMaps, ProcessResultMaps, InterruptMaps
<1>2. CASE \E j \in jobs : HandleJob(j)
  BY <1>2, HandleJobMaps
<1>3. CASE InitPass
  <2>1. PICK p \in Passes : ScheduleInit(p)
    BY <1>3 DEF InitPass
  <2>2. jobs' = jobs \cup {InitJob(p)} /\ InitJob(p).order = order
    BY <2>1 DEF ScheduleInit, InitJob
  <2> QED BY <1>3, <2>2, BeginMaps DEF InitPass, loopVars
<1>4. CASE RestartPass
  <2>1. UNCHANGED <<testCase, successes, batchOrder, candidate>>
    BY <1>4 DEF RestartPass, loopVars
  <2>2. CASE ScheduleInit(Head(queue))
    <3>1. jobs' = jobs \cup {InitJob(Head(queue))} /\ InitJob(Head(queue)).order = order
      BY <2>2 DEF ScheduleInit, InitJob
    <3> QED BY <2>1, <3>1, BeginMaps
  <2>3. CASE ~ScheduleInit(Head(queue))
    <3>1. jobs' = jobs
      BY <1>4, <2>3 DEF RestartPass
    <3> QED BY <2>1, <3>1, EndMaps
  <2> QED BY <2>2, <2>3
<1>5. CASE FoldSuccesses
  <2>1. PICK f \in PossibleFolds : jobs' = jobs \cup {FoldJob(f)}
    BY <1>5 DEF FoldSuccesses, ScheduleFold
  <2>2. FoldJob(f).order = order
    BY DEF FoldJob
  <2> QED BY <1>5, <2>1, <2>2, BeginMaps DEF FoldSuccesses, loopVars
<1>6. CASE TransformPass
  <2>1. PICK p \in Passes : jobs' = jobs \cup {TransformJob(p)}
    BY <1>6 DEF TransformPass, ScheduleTransform
  <2>2. TransformJob(p).order = order
    BY DEF TransformJob
  <2> QED BY <1>6, <2>1, <2>2, BeginMaps DEF TransformPass, loopVars
<1>7. CASE ReleaseFinished \/ DrainJobs
  BY <1>7, EndMaps DEF ReleaseFinished, DrainJobs, loopVars
<1>8. CASE FinishRun
  <2>1. candidate = NoCandidate /\ candidate' = NoCandidate
    BY <1>8 DEF FinishRun, Parts, CandidateInv
  <2> QED BY <1>8, <2>1, EndMaps DEF FinishRun, loopVars
<1>9. CASE StartBatch
  <2>1. jobs = {} /\ jobs' = {} /\ candidate = NoCandidate /\ candidate' = NoCandidate
        /\ UNCHANGED <<testCase, successes>>
    BY <1>9 DEF StartBatch, Parts, JobsInv, CandidateInv
  <2> QED BY <2>1 DEF mapped, Version, Attempts, Best
<1>10. CASE \/ LeaveRound \/ TestLoop \/ AllWorkersBusy \/ NoInitNorRestart \/ NothingToSchedule
            \/ ResultsArrive \/ Terminated \/ UNCHANGED vars
  <2>1. UNCHANGED <<mgrVars, loopVars>>
    BY <1>10 DEF LeaveRound, TestLoop, AllWorkersBusy, NoInitNorRestart, NothingToSchedule,
                 ResultsArrive, Terminated, vars
  <2> QED BY <2>1, EndMaps DEF mgrVars, loopVars
<1> QED BY <1>1, <1>2, <1>3, <1>4, <1>5, <1>6, <1>7, <1>8, <1>9, <1>10 DEF Next, Step

\* The scheduler implements the reduction it is to carry out.
THEOREM ImplementsReduction == Spec => ReductionSpec
<1>1. IndInv /\ [Next]_vars => [Abstract!Next]_<<Version, Attempts, Best>>
  BY StepMaps DEF IndInv, Parts, mapped
<1> QED BY <1>1, InitMaps, IndInvInvariant, PTL DEF Spec, ReductionSpec, Abstract!Spec

-----------------------------------------------------------------------------
(* Enumerations only go forward *)

LEMMA AdvanceForward ==
  ASSUME NEW s \in State, Advance(s) # NoState
  PROVE  s.pos <= Advance(s).pos
BY SchedulerAssumption DEF Advance, State, NoState, Pos

LEMMA AdvanceWhileSubsetForward ==
  ASSUME NEW p \in Passes, NEW s \in State, AdvanceWhileSubset(p, s) # NoState
  PROVE  s.pos <= AdvanceWhileSubset(p, s).pos
<1> DEFINE old(q) == \E t \in succeeded[p] : t.root = s.root /\ 0 \notin {q, t.pos} /\ q \in Covers[t.pos]
           new == {q \in s.pos..MaxPos : ~old(q)}
           least == CHOOSE q \in new : \A r \in new : q <= r
<1>1. s.pos \in Nat /\ MaxPos \in Nat
  BY SchedulerAssumption DEF State, Pos
<1>2. \A q \in new : q \in Nat /\ s.pos <= q
  BY <1>1
<1>3. AdvanceWhileSubset(p, s) = IF p \notin HintBased THEN s
                                 ELSE IF new = {} THEN NoState
                                 ELSE [s EXCEPT !.pos = least]
  BY DEF AdvanceWhileSubset
<1>4. new # {} => least \in new
  <2>1. new \in SUBSET Nat
    BY <1>2
  <2> HIDE DEF new
  <2>2. new # {} => \E q \in new : \A r \in new : q <= r
    BY <2>1, MinExists
  <2> QED BY <2>2
<1> HIDE DEF new, least
<1>5. CASE p \notin HintBased
  BY <1>1, <1>3, <1>5
<1>6. CASE p \in HintBased
  <2>1. new # {} /\ AdvanceWhileSubset(p, s) = [s EXCEPT !.pos = least]
    BY <1>3, <1>6
  <2>2. [s EXCEPT !.pos = least].pos = least
    BY DEF State
  <2> QED BY <1>2, <1>4, <2>1, <2>2
<1> QED BY <1>5, <1>6

LEMMA SkippedForward ==
  ASSUME TypeOK, NEW p \in Passes, Skipped[p] # NoState
  PROVE  state[p] # NoState /\ state[p].pos <= Skipped[p].pos
<1>1. Skipped[p] = IF CanTransformNow(p) THEN AdvanceWhileSubset(p, state[p]) ELSE state[p]
  BY DEF Skipped
<1>2. state[p] \in State /\ state[p].pos \in Nat
  BY SchedulerAssumption DEF TypeOK, State, Pos
<1>3. CanTransformNow(p) => state[p] # NoState
  BY DEF CanTransformNow, CanTransformIn
<1> QED BY <1>1, <1>2, <1>3, AdvanceWhileSubsetForward
-----------------------------------------------------------------------------
(* EnumerationInv is an invariant *)

\* For one pass.
Forward(p) ==
    /\ \A j \in Pending : j.kind = "transform" /\ j.pass = p =>
          [order |-> j.order, state |-> j.state] \in running[p]
    /\ \A r \in running[p] :
          r.order < order /\ (state[p] # NoState => r.state.pos <= state[p].pos)
    /\ \A r, s \in running[p] : r.order <= s.order => r.state.pos <= s.state.pos
    /\ candidate.pass = p =>
          /\ candidate.state.root = root[p]
          /\ state[p] # NoState => candidate.state.pos <= state[p].pos
          /\ \A r \in running[p] :
                candidate.order <= r.order => candidate.state.pos <= r.state.pos

Quiet == {"next", "round", "crashed"} \cup Ended

LEMMA EnumerationIsForward == EnumerationInv <=> (pc \notin Quiet => \A p \in Passes : Forward(p))
BY DEF EnumerationInv, Forward, Quiet

\* A step that starts nothing, and forgets at most running transformations and
\* states, keeps it.
LEMMA ForwardFrame ==
  ASSUME TypeOK, NEW p \in Passes, Forward(p),
         Pending' \subseteq Pending \/ \A j \in Pending' \ Pending : j.kind # "transform",
         order' >= order, order' \in Nat,
         running'[p] \subseteq running[p],
         state'[p] # NoState => state[p] # NoState /\ state[p].pos <= state'[p].pos,
         state'[p] \in State,
         \A j \in Pending' : j.kind = "transform" /\ j.pass = p =>
            ([order |-> j.order, state |-> j.state] \in running[p] =>
             [order |-> j.order, state |-> j.state] \in running'[p]),
         \/ candidate' = candidate /\ root'[p] = root[p]
         \/ candidate'.pass # p
  PROVE  Forward(p)'
<1>1. \A r \in running[p] : r.order \in Nat
  BY DEF TypeOK, Running
<1>2. order \in Nat
  BY DEF TypeOK
<1>3. \A s \in State : s.pos \in Nat
  BY SchedulerAssumption DEF State, Pos
<1>4. candidate.state \in State /\ state[p] \in State /\ \A r \in running[p] : r.state \in State
  BY DEF TypeOK, Candidate, Running
<1>5. /\ \A j \in Pending' : j.kind = "transform" /\ j.pass = p =>
            [order |-> j.order, state |-> j.state] \in running'[p]
  BY DEF Forward
<1>6. \A r \in running'[p] :
         r.order < order' /\ (state'[p] # NoState => r.state.pos <= state'[p].pos)
  BY <1>1, <1>2, <1>3, <1>4 DEF Forward
<1>7. \A r, s \in running'[p] : r.order <= s.order => r.state.pos <= s.state.pos
  BY DEF Forward
<1>8. candidate'.pass = p =>
         /\ candidate'.state.root = root'[p]
         /\ state'[p] # NoState => candidate'.state.pos <= state'[p].pos
         /\ \A r \in running'[p] :
               candidate'.order <= r.order => candidate'.state.pos <= r.state.pos
  BY <1>3, <1>4 DEF Forward
<1> QED BY <1>5, <1>6, <1>7, <1>8 DEF Forward

\* What is true of the states of every pass, before and after a step.
LEMMA PosFacts ==
  ASSUME TypeOK, NEW p \in Passes
  PROVE  state[p] \in State /\ state[p].pos \in Nat /\ state[p].pos <= state[p].pos
BY SchedulerAssumption DEF TypeOK, State, Pos

\* Starting a job that is not a transformation.
LEMMA StartForward ==
  ASSUME TypeOK, Parts, NEW p \in Passes, Forward(p), NEW j, j.kind # "transform",
         jobs' = jobs \cup {j}, order' = order + 1,
         UNCHANGED <<root, state, running, candidate, finished>>
  PROVE  Forward(p)'
<1>1. Pending \subseteq Pending' /\ Pending' \subseteq Pending \cup {j}
  BY DEF Pending
<1>2. order' >= order /\ order' \in Nat
  BY DEF TypeOK
<1> QED BY <1>1, <1>2, PosFacts, ForwardFrame

LEMMA StartForwardAll ==
  ASSUME TypeOK, Parts, EnumerationInv, InitPass \/ RestartPass \/ FoldSuccesses PROVE EnumerationInv'
<1>1. pc \notin Quiet
  BY DEF InitPass, RestartPass, FoldSuccesses, Quiet, Ended
<1> SUFFICES ASSUME NEW p \in Passes, Forward(p) PROVE Forward(p)'
  BY <1>1, EnumerationIsForward DEF EnumerationInv, Forward, Quiet
<1>2. ASSUME NEW q \in Passes, ScheduleInit(q), UNCHANGED <<candidate, finished>>
      PROVE  Forward(p)'
  <2>1. /\ jobs' = jobs \cup {InitJob(q)} /\ InitJob(q).kind # "transform" /\ order' = order + 1
        /\ UNCHANGED <<root, state, running>>
    BY <1>2 DEF ScheduleInit, InitJob
  <2> QED BY <1>2, <2>1, StartForward
<1>3. CASE InitPass
  BY <1>2, <1>3 DEF InitPass, loopVars
<1>4. CASE RestartPass
  <2>1. UNCHANGED <<candidate, finished>> /\ Head(queue) \in Passes
    BY <1>4, HeadTailProperties DEF RestartPass, RestartDue, loopVars, TypeOK
  <2>2. CASE ScheduleInit(Head(queue))
    BY <1>2, <2>1, <2>2
  <2>3. CASE ~ScheduleInit(Head(queue))
    <3>1. UNCHANGED <<root, state, running, jobs, order>>
      BY <1>4, <2>3 DEF RestartPass
    <3> QED BY <2>1, <3>1 DEF Forward, Pending
  <2> QED BY <2>2, <2>3
<1>5. CASE FoldSuccesses
  <2>1. PICK f \in PossibleFolds : jobs' = jobs \cup {FoldJob(f)}
    BY <1>5 DEF FoldSuccesses, ScheduleFold
  <2>2. /\ FoldJob(f).kind # "transform" /\ order' = order + 1
        /\ UNCHANGED <<root, state, running, candidate, finished>>
    BY <1>5 DEF FoldSuccesses, ScheduleFold, FoldJob, ctxVars, loopVars
  <2> QED BY <2>1, <2>2, StartForward
<1> QED BY <1>3, <1>4, <1>5

\* The next transformation is not behind those that run.
LEMMA TransformForward ==
  ASSUME TypeOK, Parts, EnumerationInv, TransformPass PROVE EnumerationInv'
<1>1. pc \notin Quiet /\ pc = "fill"
  BY DEF TransformPass, Quiet, Ended
<1>2. PICK p \in Passes : CanTransformIn(p, Skipped) /\ ScheduleTransform(p)
  BY DEF TransformPass, NextInTurn
<1> SUFFICES ASSUME NEW q \in Passes, Forward(q) PROVE Forward(q)'
  BY <1>1, EnumerationIsForward DEF EnumerationInv, Forward, Quiet
<1> DEFINE s == Skipped[p]
           r == [order |-> order, state |-> s]
<1>3. /\ jobs' = jobs \cup {TransformJob(p)} /\ order' = order + 1
      /\ running' = [running EXCEPT ![p] = @ \cup {r}]
      /\ state' = [Skipped EXCEPT ![p] = Advance(s)]
      /\ root' = root /\ candidate' = candidate /\ finished' = finished
  BY <1>2 DEF ScheduleTransform, TransformPass, loopVars
<1>4. Skipped \in [Passes -> State]
  BY SkippedType DEF TypeOK
<1>5. s # NoState /\ s \in State
  BY <1>2, <1>4 DEF CanTransformIn
<1>6. order \in Nat /\ order' \in Nat /\ order' >= order
  BY <1>3 DEF TypeOK
<1>7. CASE q # p
  <2>1. state'[q] = Skipped[q] /\ running'[q] = running[q]
    BY <1>3, <1>4, <1>7 DEF TypeOK
  <2>2. \A j \in Pending' : j.kind = "transform" /\ j.pass = q => j \in Pending
    BY <1>3, <1>7 DEF Pending, TransformJob
  <2>3. state'[q] # NoState => state[q] # NoState /\ state[q].pos <= state'[q].pos
    BY <2>1, SkippedForward
  <2>4. \A t \in running[q] : t.order \in Nat /\ t.order < order' /\ t.state.pos \in Nat
    <3>1. running[q] \subseteq Running
      BY DEF TypeOK
    <3>2. \A t \in Running : t.order \in Nat /\ t.state.pos \in Nat
      BY SchedulerAssumption DEF Running, State, Pos
    <3>3. \A t \in running[q] : t.order < order
      BY DEF Forward
    <3> QED BY <1>6, <3>1, <3>2, <3>3
  <2>5. candidate.state.pos \in Nat /\ state[q].pos \in Nat /\ state'[q].pos \in Nat
    <3>1. \A t \in State : t.pos \in Nat
      BY SchedulerAssumption DEF State, Pos
    <3>2. candidate.state \in State /\ state[q] \in State /\ state'[q] \in State
      BY <1>4, <2>1 DEF TypeOK, Candidate
    <3> QED BY <3>1, <3>2
  <2> QED BY <1>3, <2>1, <2>2, <2>3, <2>4, <2>5 DEF Forward
<1>8. CASE q = p
  <2>1. state'[p] = Advance(s) /\ running'[p] = running[p] \cup {r}
    BY <1>3, <1>4 DEF TypeOK
  <2>2. state[p] # NoState /\ state[p].pos <= s.pos
    BY <1>5, SkippedForward
  <2>3. state'[p] # NoState => s.pos <= state'[p].pos
    BY <1>5, <2>1, AdvanceForward
  <2>4. /\ state[p].pos \in Nat /\ s.pos \in Nat /\ state'[p].pos \in Nat
        /\ candidate.state.pos \in Nat /\ candidate.order \in Nat
    <3>1. \A t \in State : t.pos \in Nat
      BY SchedulerAssumption DEF State, Pos
    <3>2. candidate.state \in State /\ candidate.order \in Nat /\ state[p] \in State /\ state'[p] \in State
      BY <1>5, <2>1, AdvanceType DEF TypeOK, Candidate
    <3> QED BY <1>5, <3>1, <3>2
  <2>5. \A t \in running[p] : /\ t.order \in Nat /\ t.order < order /\ t.state.pos \in Nat
                              /\ t.state.pos <= state[p].pos
    BY <1>8, <2>2, SchedulerAssumption DEF Forward, TypeOK, Running, State, Pos
  <2>6. r.order = order /\ r.state = s
    OBVIOUS
  <2>7. TransformJob(p).order = order /\ TransformJob(p).state = s
    BY DEF TransformJob
  <2>8. \A j \in Pending' : j.kind = "transform" /\ j.pass = p =>
           [order |-> j.order, state |-> j.state] \in running'[p]
    BY <1>3, <1>8, <2>1, <2>7 DEF Pending, Forward
  <2> HIDE DEF s, r
  <2>9. \A t \in running'[p] :
           t.order < order' /\ (state'[p] # NoState => t.state.pos <= state'[p].pos)
    BY <1>3, <1>6, <2>1, <2>2, <2>3, <2>4, <2>5, <2>6
  <2>10. \A t, u \in running'[p] : t.order <= u.order => t.state.pos <= u.state.pos
    BY <1>6, <1>8, <2>1, <2>2, <2>4, <2>5, <2>6 DEF Forward
  <2>11. candidate'.pass = p =>
           /\ candidate'.state.root = root'[p]
           /\ state'[p] # NoState => candidate'.state.pos <= state'[p].pos
           /\ \A t \in running'[p] :
                 candidate'.order <= t.order => candidate'.state.pos <= t.state.pos
    BY <1>3, <1>8, <2>1, <2>2, <2>3, <2>4, <2>6 DEF Forward
  <2> QED BY <1>8, <2>8, <2>9, <2>10, <2>11 DEF Forward
<1> QED BY <1>7, <1>8

\* Nothing is started: the enumerations only skip states.
LEMMA NothingForward ==
  ASSUME TypeOK, EnumerationInv, NothingToSchedule PROVE EnumerationInv'
<1>1. /\ pc \notin Quiet /\ state' = Skipped
      /\ UNCHANGED <<root, running, jobs, finished, order, candidate>>
  BY DEF NothingToSchedule, mgrVars, loopVars, Quiet, Ended
<1> SUFFICES ASSUME NEW p \in Passes, Forward(p) PROVE Forward(p)'
  BY <1>1, EnumerationIsForward DEF EnumerationInv, Forward, Quiet
<1>2. Pending' = Pending
  BY <1>1 DEF Pending
<1>3. order' >= order /\ order' \in Nat
  BY <1>1 DEF TypeOK
<1>4. state'[p] \in State
  BY <1>1, SkippedType DEF TypeOK
<1>5. state'[p] # NoState => state[p] # NoState /\ state[p].pos <= state'[p].pos
  BY <1>1, SkippedForward
<1> QED BY <1>1, <1>2, <1>3, <1>4, <1>5, ForwardFrame

\* A step that looks at no job and starts none.
LEMMA StillForward ==
  ASSUME TypeOK, EnumerationInv, pc \notin Quiet,
         Pending' \subseteq Pending, UNCHANGED <<root, state, running, order, candidate>>
  PROVE  EnumerationInv'
BY DEF EnumerationInv, Quiet

-----------------------------------------------------------------------------
(* Handling results *)

\* What every handler does but those of an init job and of a success.
LEMMA HandledForward ==
  ASSUME TypeOK, Parts, EnumerationInv, NEW j \in jobs, Seen(j), pc' = "handle",
         UNCHANGED <<order, batchOrder, jobs, root, candidate>>,
         \A p \in Passes : /\ running'[p] = running[p] \/ running'[p] = Popped(j)[p]
                           /\ state'[p] \in {state[p], NoState}
  PROVE  EnumerationInv'
<1>1. pc \notin Quiet /\ pc' \notin Quiet /\ j.order \in Nat /\ Pending' = Pending \ {j}
  BY SeenParts, JobFacts DEF Seen, Quiet, Ended
<1> SUFFICES ASSUME NEW p \in Passes, Forward(p) PROVE Forward(p)'
  BY <1>1, EnumerationIsForward DEF EnumerationInv, Forward, Quiet
<1>2. order' >= order /\ order' \in Nat
  BY DEF TypeOK
<1>3. NoState \in State /\ state'[p] \in State
  BY PosFacts, NoStateType
<1>4. running'[p] \subseteq running[p]
  BY PoppedSubset
<1>5. state'[p] # NoState => state[p] # NoState /\ state[p].pos <= state'[p].pos
  BY PosFacts
<1>6. \A i \in Pending' : i.order # j.order
  BY <1>1, SeenFacts DEF Pending, Seen
<1>7. \A r \in running[p] : r.order # j.order => r \in running'[p]
  BY DEF Popped, TypeOK
<1>8. \A i \in Pending' : [order |-> i.order, state |-> i.state] \in running[p] =>
                          [order |-> i.order, state |-> i.state] \in running'[p]
  BY <1>6, <1>7
<1> QED BY <1>1, <1>2, <1>3, <1>4, <1>5, <1>8, ForwardFrame

\* The success was running, and is therefore where it should be.
LEMMA SuccessForward ==
  ASSUME TypeOK, Parts, EnumerationInv, NEW j \in jobs, HandleSuccess(j)
  PROVE  EnumerationInv'
<1>1. /\ Seen(j) /\ pc = "handle" /\ pc' = "handle" /\ j.kind # "init" /\ running' = Popped(j)
      /\ UNCHANGED <<root, state, jobs, order, batchOrder>>
  BY DEF HandleSuccess, Seen
<1>2. candidate' = candidate \/ (candidate'.order = j.order /\ candidate'.pass = j.pass
                                 /\ candidate'.state = j.state)
  BY DEF HandleSuccess, UpdateCandidate
<1>3. /\ j \in Pending /\ j.order \in Nat /\ Pending' = Pending \ {j} /\ j.state \in State
      /\ j.kind \in {"init", "transform", "fold"} /\ (j.kind = "fold") = (j.pass = 0)
  BY <1>1, SeenParts, JobFacts DEF Parts, JobsInv, Job
<1>4. pc \notin Quiet /\ pc' \notin Quiet
  BY <1>1 DEF Quiet, Ended
<1> SUFFICES ASSUME NEW p \in Passes, Forward(p) PROVE Forward(p)'
  BY <1>4, EnumerationIsForward DEF EnumerationInv, Forward, Quiet
<1>5. running'[p] \subseteq running[p]
  BY <1>1, PoppedSubset
<1>6. \A i \in Pending' : i.kind = "transform" /\ i.pass = p =>
         [order |-> i.order, state |-> i.state] \in running'[p]
  <2>1. \A i \in Pending' : i \in Pending /\ i.order # j.order
    BY <1>1, <1>3, SeenFacts DEF Pending, Seen
  <2>2. \A r \in running[p] : r.order # j.order => r \in running'[p]
    BY <1>1 DEF Popped, TypeOK
  <2> QED BY <2>1, <2>2 DEF Forward
<1>7. /\ \A r \in running'[p] :
            r.order < order' /\ (state'[p] # NoState => r.state.pos <= state'[p].pos)
      /\ \A r, s \in running'[p] : r.order <= s.order => r.state.pos <= s.state.pos
  BY <1>1, <1>5 DEF Forward
<1>8. candidate'.pass = p =>
         /\ candidate'.state.root = root'[p]
         /\ state'[p] # NoState => candidate'.state.pos <= state'[p].pos
         /\ \A r \in running'[p] :
               candidate'.order <= r.order => candidate'.state.pos <= r.state.pos
  <2>1. CASE candidate' = candidate
    BY <1>1, <1>5, <2>1 DEF Forward
  <2>2. CASE candidate' # candidate /\ j.pass = p
    <3>1. p # 0
      BY SchedulerAssumption DEF Passes
    <3>2. j.kind = "transform" /\ j.state.root = root[p]
      BY <1>1, <1>3, <2>2, <3>1 DEF Parts, PendingInv
    <3> DEFINE old == [order |-> j.order, state |-> j.state]
    <3>3. old \in running[p] /\ old.order = j.order /\ old.state = j.state
      BY <1>3, <2>2, <3>2 DEF Forward
    <3> HIDE DEF old
    <3> QED BY <1>1, <1>2, <1>5, <2>2, <3>2, <3>3 DEF Forward
  <2> QED BY <1>2, <2>1, <2>2
<1> QED BY <1>6, <1>7, <1>8 DEF Forward

\* A pass that was being initialized had nothing running and no success.
LEMMA InitForward ==
  ASSUME TypeOK, Parts, EnumerationInv, NEW j \in jobs, HandleInit(j)
  PROVE  EnumerationInv'
<1>1. /\ Seen(j) /\ NextJob(j) /\ pc = "handle" /\ pc' = "handle" /\ j.kind = "init"
      /\ jobs' = (jobs \ {j}) \cup {[j EXCEPT !.folder = 0]}
      /\ finished' = finished \cup {j.order}
      /\ root' = [root EXCEPT ![j.pass] = j.folder]
      /\ UNCHANGED <<running, order, candidate>>
  BY DEF HandleInit, Seen
<1>2. /\ j \in Pending /\ j \in Job /\ j.pass \in Passes
      /\ \A i \in jobs : i.order = j.order => i = j
  BY <1>1, SeenFacts, JobFacts
<1>3. stage[j.pass] = "in_init" /\ ~Current(j.pass)
  BY <1>1, <1>2 DEF Parts, PendingInv, Current
<1>4. [j EXCEPT !.folder = 0].order = j.order
  BY <1>2 DEF Job
<1>5. Pending' \subseteq Pending \ {j}
  BY <1>1, <1>2, <1>4 DEF Pending
<1>6. pc \notin Quiet /\ pc' \notin Quiet
  BY <1>1 DEF Quiet, Ended
<1> SUFFICES ASSUME NEW p \in Passes, Forward(p) PROVE Forward(p)'
  BY <1>6, EnumerationIsForward DEF EnumerationInv, Forward, Quiet
<1>7. CASE p # j.pass
  <2>1. state'[p] = state[p] /\ root'[p] = root[p]
    BY <1>1, <1>2, <1>7 DEF HandleInit, TypeOK
  <2> QED BY <1>1, <1>5, <2>1 DEF Forward
<1>8. CASE p = j.pass
  <2>1. running[p] = {}
    BY <1>1, <1>3, <1>8 DEF Parts, ContextsInv, Ended
  <2>2. candidate.pass # p
    <3>1. p # 0
      BY SchedulerAssumption DEF Passes
    <3> QED BY <1>3, <1>8, <3>1 DEF Parts, CandidateInv, NoCandidate
  <2>3. \A i \in Pending' : i.kind = "transform" => i.pass # p
    BY <1>3, <1>5, <1>8 DEF Parts, PendingInv
  <2> QED BY <1>1, <2>1, <2>2, <2>3 DEF Forward
<1> QED BY <1>7, <1>8

LEMMA HandleJobForward ==
  ASSUME TypeOK, Parts, EnumerationInv, NEW j \in jobs, HandleJob(j)
  PROVE  EnumerationInv'
<1>1. CASE StillRunning(j)
  <2>1. pc \notin Quiet /\ Pending' \subseteq Pending
    BY <1>1 DEF StillRunning, mgrVars, Pending, Quiet, Ended
  <2> QED BY <1>1, <2>1, StillForward DEF StillRunning, ctxVars, mgrVars
<1>2. CASE HandleTimeout(j)
  <2>1. Seen(j) /\ pc' = "handle" /\ UNCHANGED <<order, batchOrder, jobs, root, candidate, state>>
    BY <1>2 DEF HandleTimeout, Seen, mgrVars, ctxVars
  <2>2. running' = running \/ running' = Popped(j)
    BY <1>2 DEF HandleTimeout, ctxVars
  <2> QED BY <2>1, <2>2, HandledForward
<1>3. CASE HandleInit(j)
  BY <1>3, InitForward
<1>4. CASE HandleStop(j)
  <2>1. /\ Seen(j) /\ pc' = "handle" /\ UNCHANGED <<order, batchOrder, jobs, root, candidate>>
        /\ running' = Popped(j) /\ state' = [state EXCEPT ![j.pass] = NoState]
    BY <1>4 DEF HandleStop, Seen, mgrVars
  <2>2. \A p \in Passes : state'[p] \in {state[p], NoState}
    BY <2>1 DEF TypeOK
  <2> QED BY <2>1, <2>2, HandledForward
<1>5. CASE HandleUseless(j)
  <2>1. /\ Seen(j) /\ pc' = "handle" /\ UNCHANGED <<order, batchOrder, jobs, root, candidate, state>>
        /\ running' = Popped(j)
    BY <1>5 DEF HandleUseless, Seen, mgrVars
  <2> QED BY <2>1, HandledForward
<1>6. CASE HandleFailure(j)
  <2>1. /\ Seen(j) /\ pc' = "handle" /\ UNCHANGED <<order, batchOrder, jobs, root, candidate>>
        /\ running' = Popped(j)
        /\ state' = state \/ state' = [state EXCEPT ![j.pass] = NoState]
    BY <1>6 DEF HandleFailure, Seen, mgrVars
  <2>2. \A p \in Passes : state'[p] \in {state[p], NoState}
    BY <2>1 DEF TypeOK
  <2> QED BY <2>1, <2>2, HandledForward
<1>7. CASE HandleInvalidFold(j)
  <2>1. Seen(j) /\ pc' = "handle" /\ UNCHANGED <<ctxVars, mgrVars>>
    BY <1>7 DEF HandleInvalidFold, Seen
  <2> QED BY <2>1, HandledForward DEF ctxVars, mgrVars
<1>8. CASE HandleSuccess(j)
  BY <1>8, SuccessForward
<1>9. CASE WorkerError(j)
  BY <1>9 DEF WorkerError, EnumerationInv
<1> QED BY <1>1, <1>2, <1>3, <1>4, <1>5, <1>6, <1>7, <1>8, <1>9 DEF HandleJob

-----------------------------------------------------------------------------
(* The invariant, and what process_result makes of it *)

LEMMA StepForward ==
  ASSUME TypeOK, Parts, EnumerationInv, [Next]_vars PROVE EnumerationInv'
<1>1. CASE StartTestCase \/ FinishRun \/ LeaveRound \/ ProcessResult \/ Interrupt
  <2>1. pc' \in Quiet
    BY <1>1 DEF StartTestCase, FinishRun, LeaveRound, ProcessResult, Interrupt, Quiet, Ended
  <2> QED BY <2>1 DEF EnumerationInv, Quiet
<1>2. CASE StartBatch
  <2>1. /\ jobs' = {} /\ running' = [p \in Passes |-> {}] /\ candidate' = NoCandidate
    BY <1>2 DEF StartBatch, Parts, JobsInv, CandidateInv
  <2>2. \A p \in Passes : p # 0
    BY SchedulerAssumption DEF Passes
  <2> QED BY <2>1, <2>2 DEF EnumerationInv, Pending, NoCandidate
<1>3. CASE TestLoop \/ AllWorkersBusy \/ NoInitNorRestart \/ ResultsArrive
  <2>1. pc \notin Quiet /\ UNCHANGED <<ctxVars, mgrVars, loopVars>>
    BY <1>3 DEF TestLoop, AllWorkersBusy, NoInitNorRestart, ResultsArrive, Quiet, Ended
  <2>2. Pending' = Pending
    BY <2>1 DEF Pending, mgrVars, loopVars
  <2> QED BY <2>1, <2>2, StillForward DEF ctxVars, mgrVars
<1>4. CASE InitPass \/ RestartPass \/ FoldSuccesses \/ TransformPass \/ NothingToSchedule
  BY <1>4, StartForwardAll, TransformForward, NothingForward
<1>5. CASE ReleaseFinished
  <2>1. pc \notin Quiet /\ UNCHANGED <<ctxVars, order, candidate>>
    BY <1>5 DEF ReleaseFinished, Quiet, Ended
  <2>2. Pending' = Pending
    BY <1>5 DEF ReleaseFinished, Pending
  <2> QED BY <2>1, <2>2, StillForward DEF ctxVars
<1>6. CASE \E j \in jobs : HandleJob(j)
  BY <1>6, HandleJobForward
<1>7. CASE DrainJobs
  <2>1. pc \notin Quiet /\ UNCHANGED <<ctxVars, order, candidate>> /\ Pending' = {}
    BY <1>7 DEF DrainJobs, Pending, Quiet, Ended
  <2> QED BY <2>1, StillForward DEF ctxVars
<1>8. CASE Terminated \/ UNCHANGED vars
  <2>1. UNCHANGED <<ctxVars, mgrVars, loopVars, pc>>
    BY <1>8 DEF Terminated, vars
  <2> QED BY <2>1 DEF EnumerationInv, Pending, ctxVars, mgrVars, loopVars
<1> QED BY <1>1, <1>2, <1>3, <1>4, <1>5, <1>6, <1>7, <1>8 DEF Next, Step

\* The jobs of a pass are started in the order of its enumeration.
THEOREM EnumerationGoesForward == Spec => []EnumerationInv
<1>1. Init => EnumerationInv
  BY DEF Init, EnumerationInv
<1>2. IndInv /\ EnumerationInv /\ [Next]_vars => EnumerationInv'
  BY StepForward DEF IndInv, Parts
<1> QED BY <1>1, <1>2, IndInvInvariant, PTL DEF Spec

\* The state that process_result gives a pass is not beyond any it was checking.
LEMMA RewoundIsEarliest ==
  ASSUME TypeOK, Parts, EnumerationInv, pc = "commit", NEW p \in Passes, NEW r \in running[p]
  PROVE  /\ RewoundState(p).root = r.state.root /\ RewoundState(p).pos <= r.state.pos
         /\ RewoundState(p) # NoState /\ stage[p] = "enumerating"
<1>1. Current(p) /\ \A s \in running[p] : s.state.root = root[p]
  BY DEF Parts, ContextsInv, Ended
<1>2. root[p] # 0 /\ NoState.root = 0
  BY <1>1 DEF Current, TypeOK, NoState
<1>3. /\ \A s, t \in running[p] : s.order <= t.order => s.state.pos <= t.state.pos
      /\ candidate.pass = p =>
            /\ candidate.state.root = root[p]
            /\ \A s \in running[p] : candidate.order <= s.order => candidate.state.pos <= s.state.pos
  BY DEF EnumerationInv, Ended
<1> DEFINE e == EarliestRunning(p)
<1>4. e \in running[p] /\ \A s \in running[p] : e.order <= s.order
  <2>1. running[p] \in SUBSET Running /\ running[p] # {}
    BY DEF TypeOK
  <2> QED BY <2>1, EarliestRunningExists
<1>5. candidate.order \in Nat /\ e.order \in Nat /\ r.order \in Nat
  <2>1. candidate.order \in Nat /\ running[p] \subseteq Running
    BY DEF TypeOK, Candidate
  <2> QED BY <1>4, <2>1 DEF Running
<1> HIDE DEF e
<1>6. CASE candidate.pass = p /\ candidate.order <= e.order
  <2>1. RewoundState(p) = candidate.state
    BY <1>6 DEF RewoundState, e
  <2>2. candidate.order <= r.order
    BY <1>4, <1>5, <1>6
  <2> QED BY <1>1, <1>2, <1>3, <1>6, <2>1, <2>2 DEF Current
<1>7. CASE ~(candidate.pass = p /\ candidate.order <= e.order)
  <2>1. RewoundState(p) = e.state
    BY <1>7 DEF RewoundState, e
  <2> QED BY <1>1, <1>2, <1>3, <1>4, <2>1 DEF Current
<1> QED BY <1>6, <1>7

\* process_result: what was being checked when a success was committed will be
\* checked again.
THEOREM NothingIsSkipped == Spec => NothingUncheckedIsSkipped
<1>1. TypeOK /\ Parts /\ EnumerationInv /\ [Next]_vars =>
        [pc = "commit" => \A p \in Passes : \A r \in running[p] :
            /\ state'[p].root = r.state.root
            /\ state'[p].pos <= r.state.pos
            /\ stage'[p] = "before_init"]_vars
  <2> SUFFICES ASSUME TypeOK, Parts, EnumerationInv, Next, pc = "commit",
                      NEW p \in Passes, NEW r \in running[p]
               PROVE  /\ state'[p].root = r.state.root
                      /\ state'[p].pos <= r.state.pos
                      /\ stage'[p] = "before_init"
    OBVIOUS
  <2>1. jobs = {}
    BY DEF Parts, JobsInv
  <2>2. ProcessResult
    BY <2>1 DEF Next, Step, Interrupt, Terminated, StartTestCase, FinishRun, LeaveRound, StartBatch,
                TestLoop, AllWorkersBusy, InitPass, RestartPass, NoInitNorRestart, FoldSuccesses,
                TransformPass, NothingToSchedule, ResultsArrive, ReleaseFinished, DrainJobs
  <2>3. state'[p] = RewoundState(p)
        /\ stage'[p] = IF ShouldReinit(p, RewoundState(p)) THEN "before_init" ELSE stage[p]
    BY <2>2 DEF ProcessResult
  <2> QED BY <2>3, RewoundIsEarliest DEF ShouldReinit
<1> QED BY <1>1, IndInvInvariant, EnumerationGoesForward, PTL DEF Spec, NothingUncheckedIsSkipped, IndInv, Parts

-----------------------------------------------------------------------------
(***************************************************************************)
(* The scheduler's books agree with each other, whatever the workers        *)
(* answer: the transformations recorded as running are the jobs in flight,  *)
(* every temporary directory has one owner, folds are made of successes,    *)
(* wait() has something to wait for, and the work that is done is the work  *)
(* there was.                                                              *)
(***************************************************************************)

-----------------------------------------------------------------------------
(* running_transform_order_to_state *)

\* What it should hold for a pass, according to the list of jobs.
Records(p) == {[order |-> j.order, state |-> j.state] :
                  j \in {i \in Pending : i.kind = "transform" /\ i.pass = p}}

Scheduling == {"loop", "schedule", "fill", "wait", "handle"}

LEMMA MatchingIsRecords ==
  RunningMatchesJobs <=> (pc \in Scheduling => \A p \in Passes : running[p] = Records(p))
BY DEF RunningMatchesJobs, Records, Scheduling

\* Two jobs in flight are told apart by their order.
LEMMA RecordsOfOthers ==
  ASSUME TypeOK, Parts, NEW j \in Pending, NEW p \in Passes, Pending' = Pending \ {j}
  PROVE  Records(p)' = {r \in Records(p) : r.order # j.order}
<1>1. \A i \in Pending : i.order = j.order => i = j
  BY DEF Parts, JobsInv, Pending
<1>2. Records(p)' = {[order |-> i.order, state |-> i.state] :
                        i \in {k \in Pending \ {j} : k.kind = "transform" /\ k.pass = p}}
  BY DEF Records
<1> QED BY <1>1, <1>2 DEF Records

\* The job that is handled leaves both books.  A fold and an init job are in
\* neither.
LEMMA HandledMatches ==
  ASSUME TypeOK, Parts, RunningMatchesJobs, NEW j \in jobs, pc = "handle", j \in Pending,
         Pending' = Pending \ {j},
         running' = Popped(j) \/ (running' = running /\ j.kind # "transform")
  PROVE  RunningMatchesJobs'
<1> SUFFICES ASSUME NEW p \in Passes PROVE running'[p] = Records(p)'
  BY DEF RunningMatchesJobs, Records
<1>1. running[p] = Records(p)
  BY MatchingIsRecords DEF Scheduling
<1>2. Records(p)' = {r \in Records(p) : r.order # j.order}
  BY RecordsOfOthers
<1>3. (j.kind = "fold") = (j.pass = 0) /\ j.kind \in {"init", "transform", "fold"}
      /\ p # 0 /\ p \in Passes /\ running \in [Passes -> SUBSET Running]
  <2>1. (j.kind = "fold") = (j.pass = 0)
    BY DEF Parts, JobsInv
  <2>2. j.kind \in {"init", "transform", "fold"} /\ running \in [Passes -> SUBSET Running]
    BY DEF TypeOK, Job
  <2>3. p # 0
    BY SchedulerAssumption DEF Passes
  <2> QED BY <2>1, <2>2, <2>3
<1>4. \A i \in Pending : i.order = j.order => i = j
  BY DEF Parts, JobsInv, Pending
<1>5. ~(j.kind = "transform" /\ j.pass = p) => Records(p)' = Records(p)
  BY <1>2, <1>4 DEF Records
<1>6. CASE running' = running /\ j.kind # "transform"
  BY <1>1, <1>5, <1>6
<1>7. CASE running' = Popped(j) /\ j.pass = p
  <2>1. running'[p] = {r \in running[p] : r.order # j.order}
    BY <1>3, <1>7 DEF Popped
  <2> QED BY <1>1, <1>2, <2>1
<1>8. CASE running' = Popped(j) /\ j.pass # p
  <2>1. running'[p] = running[p]
    BY <1>3, <1>8 DEF Popped
  <2> QED BY <1>1, <1>5, <1>8, <2>1
<1> QED BY <1>6, <1>7, <1>8

LEMMA HandleJobMatches ==
  ASSUME TypeOK, Parts, RunningMatchesJobs, NEW j \in jobs, HandleJob(j)
  PROVE  RunningMatchesJobs'
<1>1. pc = "handle" /\ NextJob(j)
  BY DEF HandleJob, StillRunning, HandleTimeout, HandleInit, HandleStop, HandleUseless, HandleFailure,
         HandleInvalidFold, HandleSuccess, WorkerError, Seen
<1>2. /\ j \in Pending /\ j \in Job /\ (j.kind = "fold") = (j.pass = 0)
      /\ \A i \in jobs : i.order = j.order => i = j
  BY <1>1, SeenFacts, JobFacts DEF Parts, JobsInv
<1>3. ASSUME Seen(j), jobs' = jobs PROVE Pending' = Pending \ {j}
  BY <1>2, <1>3 DEF Seen, Pending
<1>4. CASE StillRunning(j)
  BY <1>1, <1>4 DEF StillRunning, RunningMatchesJobs, Pending, ctxVars, mgrVars
<1>5. CASE HandleTimeout(j)
  <2>1. Pending' = Pending \ {j}
    BY <1>3, <1>5 DEF HandleTimeout, mgrVars
  <2>2. running' = Popped(j) \/ (running' = running /\ j.kind # "transform")
    BY <1>2, <1>5 DEF HandleTimeout, ctxVars
  <2> QED BY <1>1, <1>2, <2>1, <2>2, HandledMatches
<1>6. CASE HandleInit(j)
  <2>1. Seen(j) /\ j.kind = "init" /\ running' = running
        /\ jobs' = (jobs \ {j}) \cup {[j EXCEPT !.folder = 0]}
    BY <1>6 DEF HandleInit
  <2>2. [j EXCEPT !.folder = 0].order = j.order
    BY <1>2 DEF Job
  <2>3. Pending' = Pending \ {j}
    BY <1>2, <2>1, <2>2 DEF Pending, Seen
  <2> QED BY <1>1, <1>2, <2>1, <2>3, HandledMatches
<1>7. CASE HandleStop(j) \/ HandleUseless(j) \/ HandleFailure(j) \/ HandleSuccess(j)
  <2>1. Seen(j) /\ jobs' = jobs /\ running' = Popped(j)
    BY <1>7 DEF HandleStop, HandleUseless, HandleFailure, HandleSuccess, mgrVars
  <2> QED BY <1>1, <1>2, <1>3, <2>1, HandledMatches
<1>8. CASE HandleInvalidFold(j)
  <2>1. Seen(j) /\ jobs' = jobs /\ running' = running /\ j.kind = "fold"
    BY <1>8 DEF HandleInvalidFold, mgrVars, ctxVars
  <2> QED BY <1>1, <1>2, <1>3, <2>1, HandledMatches
<1>9. CASE WorkerError(j)
  BY <1>9 DEF WorkerError, RunningMatchesJobs
<1> QED BY <1>4, <1>5, <1>6, <1>7, <1>8, <1>9 DEF HandleJob

\* A job that is not a transformation is in neither book.
LEMMA StartMatches ==
  ASSUME RunningMatchesJobs, pc \in Scheduling, NEW j, j.kind # "transform",
         jobs' = jobs \cup {j}, UNCHANGED <<running, finished>>
  PROVE  RunningMatchesJobs'
<1> SUFFICES ASSUME NEW p \in Passes PROVE running'[p] = Records(p)'
  BY MatchingIsRecords DEF RunningMatchesJobs, Records
<1>1. {i \in Pending' : i.kind = "transform" /\ i.pass = p} =
      {i \in Pending : i.kind = "transform" /\ i.pass = p}
  BY DEF Pending
<1> QED BY <1>1, MatchingIsRecords DEF Records

LEMMA TransformMatches ==
  ASSUME TypeOK, Parts, RunningMatchesJobs, TransformPass PROVE RunningMatchesJobs'
<1>1. PICK p \in Passes : ScheduleTransform(p)
  BY DEF TransformPass
<1> DEFINE new == TransformJob(p)
           r == [order |-> order, state |-> Skipped[p]]
<1>2. new.order = order /\ new.kind = "transform" /\ new.pass = p /\ new.state = Skipped[p]
  BY DEF TransformJob
<1>3. /\ jobs' = jobs \cup {new} /\ running' = [running EXCEPT ![p] = @ \cup {r}]
      /\ pc = "fill" /\ finished = {} /\ finished' = {}
  BY <1>1 DEF ScheduleTransform, TransformPass, loopVars, Parts, JobsInv
<1>4. Pending' = Pending \cup {new}
  BY <1>3 DEF Pending
<1>5. r = [order |-> new.order, state |-> new.state]
  BY <1>2
<1> HIDE DEF new, r
<1> SUFFICES ASSUME NEW q \in Passes PROVE running'[q] = Records(q)'
  BY DEF RunningMatchesJobs, Records
<1>6. running[q] = Records(q)
  BY <1>3, MatchingIsRecords DEF Scheduling
<1>7. CASE q = p
  <2>1. {i \in Pending' : i.kind = "transform" /\ i.pass = p} =
        {i \in Pending : i.kind = "transform" /\ i.pass = p} \cup {new}
    BY <1>2, <1>4
  <2>2. Records(p)' = Records(p) \cup {r}
    BY <1>5, <2>1 DEF Records
  <2> QED BY <1>3, <1>6, <1>7, <2>2 DEF TypeOK
<1>8. CASE q # p
  <2>1. {i \in Pending' : i.kind = "transform" /\ i.pass = q} =
        {i \in Pending : i.kind = "transform" /\ i.pass = q}
    BY <1>2, <1>4, <1>8
  <2> QED BY <1>3, <1>6, <1>8, <2>1 DEF Records, TypeOK
<1> QED BY <1>7, <1>8

LEMMA StepMatches ==
  ASSUME TypeOK, Parts, RunningMatchesJobs, [Next]_vars PROVE RunningMatchesJobs'
<1>1. CASE StartTestCase \/ FinishRun \/ LeaveRound \/ DrainJobs \/ ProcessResult \/ Interrupt
  BY <1>1 DEF StartTestCase, FinishRun, LeaveRound, DrainJobs, ProcessResult, Interrupt,
              RunningMatchesJobs
<1>2. CASE StartBatch
  <2>1. jobs' = {} /\ running' = [p \in Passes |-> {}]
    BY <1>2 DEF StartBatch, Parts, JobsInv
  <2> QED BY <2>1 DEF RunningMatchesJobs, Pending
<1>3. CASE TestLoop \/ AllWorkersBusy \/ NoInitNorRestart \/ ResultsArrive \/ NothingToSchedule
  <2>1. pc \in Scheduling /\ UNCHANGED <<running, mgrVars, loopVars>>
    BY <1>3 DEF TestLoop, AllWorkersBusy, NoInitNorRestart, ResultsArrive, NothingToSchedule,
                Scheduling, ctxVars
  <2> QED BY <2>1 DEF RunningMatchesJobs, Pending, Scheduling, mgrVars, loopVars
<1>4. ASSUME NEW p \in Passes, ScheduleInit(p), pc \in Scheduling, finished' = finished
      PROVE  RunningMatchesJobs'
  <2>1. jobs' = jobs \cup {InitJob(p)} /\ InitJob(p).kind # "transform" /\ running' = running
    BY <1>4 DEF ScheduleInit, InitJob
  <2> QED BY <1>4, <2>1, StartMatches
<1>5. CASE InitPass
  BY <1>4, <1>5 DEF InitPass, Scheduling, loopVars
<1>6. CASE RestartPass
  <2>1. pc \in Scheduling /\ finished' = finished /\ Head(queue) \in Passes
    BY <1>6, HeadTailProperties DEF RestartPass, RestartDue, Scheduling, loopVars, TypeOK
  <2>2. CASE ~ScheduleInit(Head(queue))
    <3>1. UNCHANGED <<jobs, running>>
      BY <1>6, <2>2 DEF RestartPass
    <3> QED BY <2>1, <3>1 DEF RunningMatchesJobs, Pending, Scheduling
  <2> QED BY <1>4, <2>1, <2>2
<1>7. CASE FoldSuccesses
  <2>1. PICK f \in PossibleFolds : jobs' = jobs \cup {FoldJob(f)}
    BY <1>7 DEF FoldSuccesses, ScheduleFold
  <2>2. FoldJob(f).kind # "transform" /\ UNCHANGED <<running, finished>> /\ pc \in Scheduling
    BY <1>7 DEF FoldSuccesses, ScheduleFold, FoldJob, ctxVars, loopVars, Scheduling
  <2> QED BY <2>1, <2>2, StartMatches
<1>8. CASE TransformPass
  BY <1>8, TransformMatches
<1>9. CASE ReleaseFinished
  <2>1. Pending' = Pending /\ running' = running /\ pc \in Scheduling
    BY <1>9 DEF ReleaseFinished, Pending, ctxVars, Scheduling
  <2> QED BY <2>1 DEF RunningMatchesJobs, Scheduling
<1>10. CASE \E j \in jobs : HandleJob(j)
  BY <1>10, HandleJobMatches
<1>11. CASE Terminated \/ UNCHANGED vars
  <2>1. UNCHANGED <<running, jobs, finished, pc>>
    BY <1>11 DEF Terminated, vars, ctxVars, mgrVars, loopVars
  <2> QED BY <2>1 DEF RunningMatchesJobs, Pending
<1> QED BY <1>1, <1>2, <1>3, <1>5, <1>6, <1>7, <1>8, <1>9, <1>10, <1>11 DEF Next, Step

\* running_transform_order_to_state and the list of jobs tell the same story, in
\* every execution: pop() never fails, and process_result rewinds a pass to a
\* state only if it is being checked.
THEOREM RunningIsRight == Spec => []RunningMatchesJobs
<1>1. Init => RunningMatchesJobs
  BY DEF Init, RunningMatchesJobs
<1>2. IndInv /\ RunningMatchesJobs /\ [Next]_vars => RunningMatchesJobs'
  BY StepMatches DEF IndInv, Parts
<1> QED BY <1>1, <1>2, IndInvInvariant, PTL DEF Spec

-----------------------------------------------------------------------------
(* Temporary directories *)

LEMMA DirNames ==
  /\ \A a, b : JobDir(a) = JobDir(b) <=> a = b
  /\ \A a, b : JobDir(a) # BestDir(b)
BY DEF JobDir, BestDir

\* A step that touches no directory and nothing that owns one.
LEMMA OwnedFrame ==
  ASSUME OwnedInv, UNCHANGED <<jobs, root, candidate, dirs, testCase>>,
         testCase = 0 => pc' = pc, pc' \in Ended => pc \in Ended
  PROVE  OwnedInv'
BY DEF OwnedInv, FolderDirs, RootDirs, CandidateDirs

\* Starting a job makes its directory.
LEMMA StartOwned ==
  ASSUME TypeOK, OwnedInv, NEW j, j.folder = order, pc \notin {"next"} \cup Ended, pc' \notin Ended,
         jobs' = jobs \cup {j}, dirs' = dirs \cup {JobDir(order)},
         UNCHANGED <<root, candidate, testCase>>
  PROVE  OwnedInv'
<1>1. CandidateDirs' = CandidateDirs /\ RootDirs' = RootDirs
  BY DEF CandidateDirs, RootDirs
<1>2. FolderDirs(jobs)' = FolderDirs(jobs) \cup {JobDir(order)}
  <2>1. order # 0
    BY DEF TypeOK
  <2> QED BY <2>1 DEF FolderDirs
<1> QED BY <1>1, <1>2 DEF OwnedInv

\* Jobs that are released take their directories with them.
LEMMA ReleaseOwned ==
  ASSUME TypeOK, OwnedInv, NEW done, pc \notin {"next"} \cup Ended, pc' \notin Ended,
         jobs' = jobs \ done, dirs' = dirs \ FolderDirs(done),
         UNCHANGED <<root, candidate, testCase>>
  PROVE  OwnedInv'
<1>1. CandidateDirs' = CandidateDirs /\ RootDirs' = RootDirs
  BY DEF CandidateDirs, RootDirs
<1>2. FolderDirs(jobs) \subseteq FolderDirs(jobs)' \cup FolderDirs(done)
  BY DEF FolderDirs
<1>3. CandidateDirs \cap FolderDirs(done) = {}
  BY DirNames DEF CandidateDirs, FolderDirs
<1> QED BY <1>1, <1>2, <1>3 DEF OwnedInv

\* An init job hands its directory over to its pass, whose old one is deleted.
LEMMA HandleInitOwned ==
  ASSUME TypeOK, Parts, OwnedInv, NEW j \in jobs, HandleInit(j) PROVE OwnedInv'
<1> DEFINE p == j.pass
           kept == [j EXCEPT !.folder = 0]
<1>1. /\ pc = "handle" /\ pc' = "handle" /\ j.kind = "init"
      /\ root' = [root EXCEPT ![p] = j.folder]
      /\ dirs' = dirs \ (IF root[p] = 0 THEN {} ELSE {JobDir(root[p])})
      /\ jobs' = (jobs \ {j}) \cup {kept}
      /\ UNCHANGED <<candidate, testCase>>
  BY DEF HandleInit, Seen
<1>2. j \in Job /\ p \in Passes /\ root \in [Passes -> Nat]
  BY <1>1, JobFacts DEF TypeOK
<1>3. kept.folder = 0
  BY <1>2 DEF Job
<1> HIDE DEF p, kept
<1>4. CandidateDirs' = CandidateDirs
  BY <1>1 DEF CandidateDirs
<1>5. CandidateDirs \subseteq dirs'
  BY <1>1, DirNames DEF OwnedInv, CandidateDirs
<1>6. ASSUME NEW d \in FolderDirs(jobs)
      PROVE  d \in FolderDirs(jobs)' \cup RootDirs'
  <2>1. PICK i \in jobs : i.folder # 0 /\ d = JobDir(i.folder)
    BY DEF FolderDirs
  <2>2. CASE i = j
    BY <1>1, <1>2, <2>1, <2>2 DEF RootDirs
  <2>3. CASE i # j
    BY <1>1, <2>1, <2>3 DEF FolderDirs
  <2> QED BY <2>2, <2>3
<1>7. ASSUME NEW d \in RootDirs, d \in dirs'
      PROVE  d \in RootDirs'
  <2>1. PICK q \in Passes : root[q] # 0 /\ d = JobDir(root[q])
    BY DEF RootDirs
  <2>2. q # p
    BY <1>1, <1>7, <2>1
  <2> QED BY <1>1, <1>2, <2>1, <2>2 DEF RootDirs
<1>8. dirs' \subseteq dirs
  BY <1>1
<1> QED BY <1>1, <1>4, <1>5, <1>6, <1>7, <1>8 DEF OwnedInv, Ended

\* The better candidate brings its directory, the worse one's is deleted.
LEMMA HandleSuccessOwned ==
  ASSUME TypeOK, Parts, OwnedInv, NEW j \in jobs, HandleSuccess(j) PROVE OwnedInv'
<1> DEFINE hints == IF j.kind = "fold" THEN j.subs
                    ELSE IF j.pass \in HintBased THEN {j.state} ELSE {}
<1>1. /\ pc = "handle" /\ pc' = "handle" /\ UNCHANGED <<jobs, root, testCase>>
  BY DEF HandleSuccess, Seen
<1>2. PICK g \in Gains : UpdateCandidate([order |-> j.order, pass |-> j.pass, state |-> j.state,
                                         subs |-> hints, gain |-> g])
  BY DEF HandleSuccess
<1> HIDE DEF hints
<1>3. FolderDirs(jobs)' = FolderDirs(jobs) /\ RootDirs' = RootDirs
  BY <1>1 DEF FolderDirs, RootDirs
<1>4. CASE UNCHANGED <<candidate, dirs>>
  BY <1>1, <1>4, OwnedFrame DEF OwnedInv, Ended
<1>5. CASE ~UNCHANGED <<candidate, dirs>>
  <2>1. dirs' = (dirs \ CandidateDirs) \cup {BestDir(j.order)} /\ candidate'.order = j.order
    BY <1>2, <1>5 DEF UpdateCandidate
  <2>2. CandidateDirs' = {BestDir(j.order)}
    <3>1. j.order # 0 /\ NoCandidate.order = 0
      BY JobFacts DEF TypeOK, NoCandidate
    <3> QED BY <2>1, <3>1 DEF CandidateDirs
  <2> QED BY <1>1, <1>3, <2>1, <2>2 DEF OwnedInv, Ended
<1> QED BY <1>4, <1>5

LEMMA StepOwned ==
  ASSUME TypeOK, Parts, OwnedInv, [Next]_vars PROVE OwnedInv'
<1>1. CASE StartTestCase
  <2>1. /\ pc = "next" /\ jobs = {} /\ jobs' = {} /\ candidate = NoCandidate
        /\ pc' \in {"next", "round"} /\ testCase' = testCase + 1 /\ testCase < TestCases
        /\ UNCHANGED <<candidate, dirs>>
    BY <1>1 DEF StartTestCase, Parts, JobsInv, CandidateInv
  <2>2. testCase \in Nat /\ TestCases \in Nat
    BY SchedulerAssumption DEF TypeOK
  <2>3. TestCases <= 1 => testCase = 0
    BY <2>1, <2>2
  <2> QED BY <2>1, <2>2, <2>3 DEF OwnedInv, CandidateDirs, Ended
<1>2. CASE FinishRun
  <2>1. /\ jobs = {} /\ jobs' = {} /\ candidate' = NoCandidate /\ pc' = "finished"
        /\ dirs' = dirs \ (RootDirs \cup CandidateDirs) /\ root' = [p \in Passes |-> 0]
        /\ testCase' = testCase
    BY <1>2 DEF FinishRun, Parts, JobsInv, loopVars
  <2> QED BY <2>1 DEF OwnedInv, FolderDirs, RootDirs, CandidateDirs, Ended
<1>3. CASE Interrupt
  <2>1. /\ pc \in {"loop", "wait"} /\ jobs' = {} /\ candidate' = NoCandidate /\ pc' = "exited"
        /\ dirs' = dirs \ (FolderDirs(jobs) \cup RootDirs \cup CandidateDirs)
        /\ root' = [p \in Passes |-> 0] /\ testCase' = testCase
    BY <1>3 DEF Interrupt, loopVars
  <2> QED BY <2>1 DEF OwnedInv, FolderDirs, RootDirs, CandidateDirs, Ended
<1>4. CASE \/ LeaveRound \/ StartBatch \/ TestLoop \/ AllWorkersBusy \/ NoInitNorRestart
           \/ NothingToSchedule \/ ResultsArrive
  <2>1. /\ pc \notin {"next"} \cup Ended /\ pc' \notin Ended
        /\ UNCHANGED <<jobs, root, candidate, dirs, testCase>>
    BY <1>4 DEF LeaveRound, StartBatch, TestLoop, AllWorkersBusy, NoInitNorRestart,
                NothingToSchedule, ResultsArrive, ctxVars, mgrVars, loopVars, Ended
  <2> QED BY <2>1, OwnedFrame DEF OwnedInv
<1>5. ASSUME NEW p \in Passes, ScheduleInit(p), pc = "schedule", pc' = pc,
             UNCHANGED <<candidate, testCase>>
      PROVE  OwnedInv'
  <2>1. /\ jobs' = jobs \cup {InitJob(p)} /\ InitJob(p).folder = order
        /\ dirs' = dirs \cup {JobDir(order)} /\ root' = root
    BY <1>5 DEF ScheduleInit, InitJob
  <2> QED BY <1>5, <2>1, StartOwned DEF Ended
<1>6. CASE InitPass
  BY <1>5, <1>6 DEF InitPass, loopVars
<1>7. CASE RestartPass
  <2>1. pc = "schedule" /\ UNCHANGED <<candidate, testCase>> /\ Head(queue) \in Passes
    BY <1>7, HeadTailProperties DEF RestartPass, RestartDue, loopVars, TypeOK
  <2>2. CASE ScheduleInit(Head(queue)) /\ pc' = pc
    BY <1>5, <2>1, <2>2
  <2>3. CASE ~(ScheduleInit(Head(queue)) /\ pc' = pc)
    <3>1. UNCHANGED <<jobs, root, dirs>> /\ pc' = "fill"
      BY <1>7, <2>3 DEF RestartPass
    <3> QED BY <2>1, <3>1, OwnedFrame DEF OwnedInv, Ended
  <2> QED BY <2>2, <2>3
<1>8. CASE FoldSuccesses
  <2>1. PICK f \in PossibleFolds : ScheduleFold(f)
    BY <1>8 DEF FoldSuccesses
  <2>2. /\ jobs' = jobs \cup {FoldJob(f)} /\ FoldJob(f).folder = order
        /\ dirs' = dirs \cup {JobDir(order)} /\ pc = "fill" /\ pc' = "schedule"
        /\ UNCHANGED <<root, candidate, testCase>>
    BY <1>8, <2>1 DEF FoldSuccesses, ScheduleFold, FoldJob, ctxVars, loopVars
  <2> QED BY <2>2, StartOwned DEF Ended
<1>9. CASE TransformPass
  <2>1. PICK p \in Passes : ScheduleTransform(p)
    BY <1>9 DEF TransformPass
  <2>2. /\ jobs' = jobs \cup {TransformJob(p)} /\ TransformJob(p).folder = order
        /\ dirs' = dirs \cup {JobDir(order)} /\ pc = "fill" /\ pc' = "schedule"
        /\ UNCHANGED <<root, candidate, testCase>>
    BY <1>9, <2>1 DEF TransformPass, ScheduleTransform, TransformJob, loopVars
  <2> QED BY <2>2, StartOwned DEF Ended
<1>10. CASE ReleaseFinished
  BY <1>10, ReleaseOwned DEF ReleaseFinished, ctxVars, Ended
<1>11. CASE DrainJobs
  <2>1. /\ jobs' = jobs \ jobs /\ dirs' = dirs \ FolderDirs(jobs) /\ pc = "drain"
        /\ pc' \in {"next", "commit"} /\ UNCHANGED <<root, candidate, testCase>>
    BY <1>11 DEF DrainJobs, ctxVars, loopVars
  <2> QED BY <2>1, ReleaseOwned DEF Ended
<1>12. CASE ProcessResult
  <2>1. /\ pc = "commit" /\ pc' \in {"next", "round"} /\ candidate' = NoCandidate
        /\ dirs' = dirs \ CandidateDirs /\ UNCHANGED <<jobs, root, testCase>>
    BY <1>12 DEF ProcessResult
  <2> QED BY <2>1 DEF OwnedInv, FolderDirs, RootDirs, CandidateDirs, Ended
<1>13. ASSUME NEW j \in jobs, HandleJob(j) PROVE OwnedInv'
  <2>1. CASE HandleInit(j) \/ HandleSuccess(j)
    BY <2>1, HandleInitOwned, HandleSuccessOwned
  <2>2. CASE ~HandleInit(j) /\ ~HandleSuccess(j)
    <3>1. pc = "handle" /\ pc' \in {"handle", "crashed"} /\ UNCHANGED <<root, mgrVars, testCase>>
      BY <1>13, <2>2 DEF HandleJob, StillRunning, HandleTimeout, HandleStop, HandleUseless,
                         HandleFailure, HandleInvalidFold, WorkerError, Seen, ctxVars
    <3> QED BY <3>1, OwnedFrame DEF OwnedInv, mgrVars, Ended
  <2> QED BY <2>1, <2>2
<1>14. CASE Terminated \/ UNCHANGED vars
  <2>1. UNCHANGED <<jobs, root, candidate, dirs, testCase, pc>>
    BY <1>14 DEF Terminated, vars, ctxVars, mgrVars, loopVars
  <2> QED BY <2>1, OwnedFrame
<1> QED BY <1>1, <1>2, <1>3, <1>4, <1>6, <1>7, <1>8, <1>9, <1>10, <1>11, <1>12, <1>13, <1>14
        DEF Next, Step

THEOREM OwnedInvariant == Spec => []OwnedInv
<1>1. Init => OwnedInv
  BY DEF Init, OwnedInv, CandidateDirs, FolderDirs, RootDirs, Ended
<1>2. IndInv /\ OwnedInv /\ [Next]_vars => OwnedInv'
  BY StepOwned DEF IndInv, Parts
<1> QED BY <1>1, <1>2, IndInvInvariant, PTL DEF Spec

\* Every temporary directory has one owner, and while there is one test case
\* exists exactly as long as its owner does: none is leaked, and delete_dir never
\* misses one.
THEOREM TempDirsAreOwned == Spec => []TempDirsOwned
<1>1. IndInv /\ OwnedInv => TempDirsOwned
  <2> SUFFICES ASSUME IndInv, OwnedInv PROVE TempDirsOwned
    OBVIOUS
  <2>1. TypeOK /\ Parts
    BY DEF IndInv, Parts
  <2>2. CASE pc \in Ended
    <3>1. jobs = {} /\ \A p \in Passes : root[p] = 0
      BY <2>1, <2>2 DEF Parts, JobsInv, OwnedInv
    <3>2. FolderDirs(jobs) = {} /\ RootDirs = {}
      BY <3>1 DEF FolderDirs, RootDirs
    <3> QED BY <3>1, <3>2 DEF OwnedInv, TempDirsOwned
  <2>3. CASE pc \notin Ended
    <3>1. /\ \A p \in Passes : root[p] # 0 => JobDir(root[p]) \in dirs
          /\ \A p, q \in Passes : root[p] = root[q] /\ root[p] # 0 => p = q
          /\ \A j \in jobs : j.folder # 0 =>
                JobDir(j.folder) \in dirs /\ \A p \in Passes : root[p] # j.folder
      BY <2>1, <2>3 DEF Parts, DirsInv
    <3>2. FolderDirs(jobs) \subseteq dirs /\ RootDirs \subseteq dirs
      BY <3>1 DEF FolderDirs, RootDirs
    <3>3. FolderDirs(jobs) \cap RootDirs = {}
      BY <3>1, DirNames DEF FolderDirs, RootDirs
    <3> QED BY <3>1, <3>2, <3>3 DEF OwnedInv, TempDirsOwned
  <2> QED BY <2>2, <2>3
<1> QED BY <1>1, IndInvInvariant, OwnedInvariant, PTL

-----------------------------------------------------------------------------
(* Stopping at the first success *)

\* With one pass at a time a success is followed by nothing but the results of the
\* other jobs that are done, and the end of the batch.
LEMMA StepOneSuccess ==
  ASSUME TypeOK, Parts, OneSuccessInv, [Next]_vars PROVE OneSuccessInv'
<1>1. CASE \/ StartTestCase \/ FinishRun \/ LeaveRound \/ StartBatch \/ TestLoop \/ AllWorkersBusy
           \/ InitPass \/ RestartPass \/ NoInitNorRestart \/ FoldSuccesses \/ TransformPass
           \/ NothingToSchedule \/ ResultsArrive
  <2>1. candidate' = candidate \/ candidate' = NoCandidate
    BY <1>1 DEF StartTestCase, FinishRun, LeaveRound, StartBatch, TestLoop, AllWorkersBusy, InitPass,
                RestartPass, NoInitNorRestart, FoldSuccesses, TransformPass, NothingToSchedule,
                ResultsArrive, mgrVars
  <2>2. pc \notin {"handle", "drain", "commit", "crashed"}
    BY <1>1 DEF StartTestCase, FinishRun, LeaveRound, StartBatch, TestLoop, AllWorkersBusy, InitPass,
                RestartPass, NoInitNorRestart, FoldSuccesses, TransformPass, NothingToSchedule,
                ResultsArrive
  <2> QED BY <2>1, <2>2 DEF OneSuccessInv
<1>2. CASE \E j \in jobs : HandleJob(j)
  BY <1>2 DEF HandleJob, StillRunning, HandleTimeout, HandleInit, HandleStop, HandleUseless,
              HandleFailure, HandleInvalidFold, HandleSuccess, WorkerError, Seen, OneSuccessInv
<1>3. CASE ReleaseFinished
  BY <1>3 DEF ReleaseFinished, ShouldProceed, OneSuccessInv
<1>4. CASE DrainJobs
  BY <1>4 DEF DrainJobs, OneSuccessInv
<1>5. CASE ProcessResult \/ Interrupt
  BY <1>5 DEF ProcessResult, Interrupt, OneSuccessInv
<1>6. CASE Terminated \/ UNCHANGED vars
  BY <1>6 DEF Terminated, vars, mgrVars, OneSuccessInv
<1> QED BY <1>1, <1>2, <1>3, <1>4, <1>5, <1>6 DEF Next, Step

\* should_proceed_with_success_candidate: with one pass at a time no job is started
\* after the first success.
THEOREM FirstSuccessEndsBatch == Spec => FirstSuccessIsTaken
<1>1. Init => OneSuccessInv
  BY DEF Init, OneSuccessInv
<1>2. IndInv /\ OneSuccessInv /\ [Next]_vars => OneSuccessInv'
  BY StepOneSuccess DEF IndInv, Parts
<1>3. OneSuccessInv /\ [Next]_vars =>
        [~Interleaving /\ candidate # NoCandidate => order' = order]_vars
  <2> SUFFICES ASSUME OneSuccessInv, Next, ~Interleaving, candidate # NoCandidate
               PROVE  order' = order
    OBVIOUS
  <2>1. pc \in {"handle", "drain", "commit", "crashed"}
    BY DEF OneSuccessInv
  <2>2. ~InitPass /\ ~RestartPass /\ ~FoldSuccesses /\ ~TransformPass
    BY <2>1 DEF InitPass, RestartPass, FoldSuccesses, TransformPass
  <2>3. CASE \E j \in jobs : HandleJob(j)
    BY <2>3 DEF HandleJob, StillRunning, HandleTimeout, HandleInit, HandleStop, HandleUseless,
                HandleFailure, HandleInvalidFold, HandleSuccess, WorkerError, mgrVars
  <2>4. CASE Terminated
    BY <2>4 DEF Terminated, vars, mgrVars
  <2> QED BY <2>1, <2>2, <2>3, <2>4 DEF Next, Step, StartTestCase, FinishRun, LeaveRound, StartBatch,
             TestLoop, AllWorkersBusy, NoInitNorRestart, NothingToSchedule, ResultsArrive,
             ReleaseFinished, DrainJobs, ProcessResult, Interrupt, mgrVars
<1> QED BY <1>1, <1>2, <1>3, IndInvInvariant, PTL DEF Spec, FirstSuccessIsTaken

-----------------------------------------------------------------------------
(* Folds *)

\* No ban that maybe_prepare_folding_job draws touches the states it must keep.
LEMMA BansSpareForced ==
  ASSUME NEW failed, NEW force, NEW ban \in Bans(failed, force)
  PROVE  ban \cap force = {}
<1> DEFINE Sample(i) == {B \in SUBSET (failed[i] \ force) :
                            Cardinality(B) = Half(failed[i] \ force)}
<1>1. PICK c \in [DOMAIN failed -> SUBSET (UNION Range(failed))] :
         /\ \A i \in DOMAIN failed : c[i] \in Sample(i)
         /\ ban = UNION Range(c)
  BY DEF Bans
<1>2. \A i \in DOMAIN failed : c[i] \cap force = {}
  BY <1>1
<1> QED BY <1>1, <1>2 DEF Range

\* A fold that is attempted holds the successes of the batch without a ban, and
\* more of them than the best success.
LEMMA AttemptedFold ==
  ASSUME NEW f \in PossibleFolds \ {<<>>}
  PROVE  /\ Interleaving
         /\ Cardinality(Range(f)) > Cardinality(candidate.subs)
         /\ Range(f) \subseteq foldCandidates
         /\ candidate.subs \cap foldCandidates \subseteq Range(f)
<1>1. Interleaving
  BY DEF PossibleFolds
<1>2. f \in PrepareFold(foldCandidates, failedFolds, attemptedFolds, candidate.subs,
                        order - batchOrder)
  BY <1>1 DEF PossibleFolds
<1>3. PICK ban \in Bans(failedFolds, candidate.subs) :
         /\ WorthTrying(foldCandidates \ ban, candidate.subs)
         /\ f \in Orders(foldCandidates \ ban)
  BY <1>2 DEF PrepareFold
<1>4. Range(f) = foldCandidates \ ban
  BY <1>3, OrdersRange
<1> QED BY <1>1, <1>3, <1>4, BansSpareForced DEF WorthTrying

\* Steps that only end jobs and leave the candidate or drop it.
LEMMA FoldPartsFrame ==
  ASSUME FoldPartsInv, foldCandidates' = foldCandidates,
         \A j \in jobs' : j \in jobs \/ j.kind # "fold",
         candidate' = candidate \/ candidate' = NoCandidate
  PROVE  FoldPartsInv'
<1>1. NoCandidate.subs = {}
  BY DEF NoCandidate
<1> QED BY <1>1 DEF FoldPartsInv

LEMMA HandleSuccessFoldParts ==
  ASSUME TypeOK, Parts, FoldPartsInv, NEW j \in jobs, HandleSuccess(j) PROVE FoldPartsInv'
<1> DEFINE hints == IF j.kind = "fold" THEN j.subs
                    ELSE IF j.pass \in HintBased THEN {j.state} ELSE {}
<1>1. /\ j.kind # "init" /\ jobs' = jobs
      /\ foldCandidates' = IF Interleaving /\ j.kind = "transform"
                           THEN foldCandidates \cup hints ELSE foldCandidates
  BY DEF HandleSuccess
<1>2. PICK g \in Gains : UpdateCandidate([order |-> j.order, pass |-> j.pass, state |-> j.state,
                                         subs |-> hints, gain |-> g])
  BY DEF HandleSuccess
<1>3. j.kind \in {"init", "transform", "fold"} /\ (j.kind = "fold") = (j.pass = 0)
  BY JobFacts DEF Parts, JobsInv, Job
<1>4. IsFiniteSet(foldCandidates')
  <2>1. IsFiniteSet(foldCandidates) /\ IsFiniteSet(foldCandidates \cup {j.state})
    BY FS_AddElement DEF FoldPartsInv
  <2>2. foldCandidates' \in {foldCandidates, foldCandidates \cup {j.state}}
    BY <1>1
  <2> QED BY <2>1, <2>2
<1>5. Interleaving => hints \subseteq foldCandidates'
  BY <1>1, <1>3 DEF FoldPartsInv
<1>6. foldCandidates \subseteq foldCandidates'
  BY <1>1
<1> HIDE DEF hints
<1>7. candidate' = candidate \/ (candidate'.subs = hints /\ candidate'.pass = j.pass)
  BY <1>2 DEF UpdateCandidate
<1> QED BY <1>1, <1>3, <1>4, <1>5, <1>6, <1>7 DEF FoldPartsInv

LEMMA StepFoldParts ==
  ASSUME TypeOK, Parts, FoldPartsInv, [Next]_vars PROVE FoldPartsInv'
<1>1. CASE \/ StartTestCase \/ FinishRun \/ LeaveRound \/ TestLoop \/ AllWorkersBusy
           \/ NoInitNorRestart \/ NothingToSchedule \/ ResultsArrive \/ ReleaseFinished
           \/ DrainJobs \/ ProcessResult \/ Interrupt \/ Terminated \/ UNCHANGED vars
  <2>1. jobs' \subseteq jobs /\ foldCandidates' = foldCandidates
        /\ (candidate' = candidate \/ candidate' = NoCandidate)
    BY <1>1 DEF StartTestCase, FinishRun, LeaveRound, TestLoop, AllWorkersBusy, NoInitNorRestart,
                NothingToSchedule, ResultsArrive, ReleaseFinished, DrainJobs, ProcessResult,
                Interrupt, Terminated, vars, mgrVars, foldVars
  <2> QED BY <2>1, FoldPartsFrame
<1>2. CASE StartBatch
  <2>1. jobs' = {} /\ candidate' = NoCandidate
    BY <1>2 DEF StartBatch, Parts, JobsInv, CandidateInv
  <2>2. IsFiniteSet(foldCandidates')
    BY <1>2, FS_EmptySet DEF StartBatch, FoldPartsInv, foldVars
  <2> QED BY <2>1, <2>2 DEF FoldPartsInv, NoCandidate
<1>3. CASE InitPass
  <2>1. PICK p \in Passes : jobs' = jobs \cup {InitJob(p)} /\ InitJob(p).kind # "fold"
    BY <1>3 DEF InitPass, ScheduleInit, InitJob
  <2> QED BY <1>3, <2>1, FoldPartsFrame DEF InitPass, foldVars
<1>4. CASE RestartPass
  <2>1. jobs' = jobs \/ jobs' = jobs \cup {InitJob(Head(queue))}
    BY <1>4 DEF RestartPass, ScheduleInit
  <2>2. InitJob(Head(queue)).kind # "fold"
    BY DEF InitJob
  <2> QED BY <1>4, <2>1, <2>2, FoldPartsFrame DEF RestartPass, foldVars
<1>5. CASE FoldSuccesses
  <2>1. PICK f \in PossibleFolds \ {<<>>} :
           jobs' = jobs \cup {FoldJob(f)} /\ FoldJob(f).subs = Range(f)
    BY <1>5 DEF FoldSuccesses, ScheduleFold, FoldJob
  <2>2. Interleaving /\ Range(f) \subseteq foldCandidates
    BY AttemptedFold
  <2>3. foldCandidates' = foldCandidates /\ candidate' = candidate
    BY <1>5 DEF FoldSuccesses
  <2> QED BY <2>1, <2>2, <2>3 DEF FoldPartsInv
<1>6. CASE TransformPass
  <2>1. PICK p \in Passes : jobs' = jobs \cup {TransformJob(p)} /\ TransformJob(p).kind # "fold"
    BY <1>6 DEF TransformPass, ScheduleTransform, TransformJob
  <2> QED BY <1>6, <2>1, FoldPartsFrame DEF TransformPass, foldVars
<1>7. ASSUME NEW j \in jobs, HandleJob(j) PROVE FoldPartsInv'
  <2>1. CASE HandleSuccess(j)
    BY <2>1, HandleSuccessFoldParts
  <2>2. CASE HandleInit(j)
    <3>1. [j EXCEPT !.folder = 0].kind = "init"
      BY <2>2, JobFacts DEF HandleInit, Job
    <3> QED BY <2>2, <3>1, FoldPartsFrame DEF HandleInit, foldVars
  <2>3. CASE ~HandleSuccess(j) /\ ~HandleInit(j)
    <3>1. UNCHANGED <<jobs, candidate, foldCandidates>>
      BY <1>7, <2>3 DEF HandleJob, StillRunning, HandleTimeout, HandleStop, HandleUseless,
                        HandleFailure, HandleInvalidFold, WorkerError, Failed, mgrVars, foldVars
    <3> QED BY <3>1, FoldPartsFrame
  <2> QED BY <2>1, <2>2, <2>3
<1> QED BY <1>1, <1>2, <1>3, <1>4, <1>5, <1>6, <1>7 DEF Next, Step

THEOREM FoldPartsInvariant == Spec => []FoldPartsInv
<1>1. Init => FoldPartsInv
  BY FS_EmptySet DEF Init, FoldPartsInv, NoCandidate
<1>2. IndInv /\ FoldPartsInv /\ [Next]_vars => FoldPartsInv'
  BY StepFoldParts DEF IndInv, Parts
<1> QED BY <1>1, <1>2, IndInvInvariant, PTL DEF Spec

\* Only FoldSuccesses starts folds.
LEMMA FoldsAreScheduled ==
  ASSUME TypeOK, Parts, Next, NEW j \in jobs' \ jobs, j.kind = "fold"
  PROVE  \E f \in PossibleFolds \ {<<>>} : j = FoldJob(f)
<1>1. CASE InitPass \/ RestartPass
  <2>1. \E p : jobs' \subseteq jobs \cup {InitJob(p)}
    BY <1>1 DEF InitPass, RestartPass, ScheduleInit
  <2> QED BY <2>1 DEF InitJob
<1>2. CASE FoldSuccesses
  BY <1>2 DEF FoldSuccesses, ScheduleFold
<1>3. CASE TransformPass
  BY <1>3 DEF TransformPass, ScheduleTransform, TransformJob
<1>4. ASSUME NEW i \in jobs, HandleJob(i) PROVE FALSE
  <2>1. CASE HandleInit(i)
    <3>1. [i EXCEPT !.folder = 0].kind = "init"
      BY <2>1, JobFacts DEF HandleInit, Job
    <3> QED BY <2>1, <3>1 DEF HandleInit
  <2>2. CASE ~HandleInit(i)
    BY <1>4, <2>2 DEF HandleJob, StillRunning, HandleTimeout, HandleStop, HandleUseless,
                      HandleFailure, HandleInvalidFold, HandleSuccess, WorkerError, mgrVars
  <2> QED BY <2>1, <2>2
<1>5. CASE \/ StartTestCase \/ FinishRun \/ LeaveRound \/ StartBatch \/ TestLoop \/ AllWorkersBusy
           \/ NoInitNorRestart \/ NothingToSchedule \/ ResultsArrive \/ ReleaseFinished
           \/ DrainJobs \/ ProcessResult \/ Interrupt \/ Terminated
  <2>1. jobs' \subseteq jobs
    BY <1>5 DEF StartTestCase, FinishRun, LeaveRound, StartBatch, TestLoop, AllWorkersBusy,
                NoInitNorRestart, NothingToSchedule, ResultsArrive, ReleaseFinished, DrainJobs,
                ProcessResult, Interrupt, Terminated, vars, mgrVars
  <2> QED BY <2>1
<1> QED BY <1>1, <1>2, <1>3, <1>4, <1>5 DEF Next, Step

\* A fold keeps everything the best success applies and adds to it, and is made of
\* the successes of the batch.
THEOREM FoldsExtendTheBest == Spec => FoldExtendsBest
<1>1. IndInv /\ FoldPartsInv /\ [Next]_vars =>
        [\A j \in jobs' \ jobs : j.kind = "fold" =>
            /\ candidate.subs \subseteq j.subs /\ candidate.subs # j.subs
            /\ j.subs \subseteq foldCandidates]_vars
  <2> SUFFICES ASSUME TypeOK, Parts, FoldPartsInv, Next, NEW j \in jobs' \ jobs, j.kind = "fold"
               PROVE  /\ candidate.subs \subseteq j.subs /\ candidate.subs # j.subs
                      /\ j.subs \subseteq foldCandidates
    BY DEF IndInv, Parts
  <2>1. PICK f \in PossibleFolds \ {<<>>} : j = FoldJob(f)
    BY FoldsAreScheduled
  <2>2. j.subs = Range(f)
    BY <2>1 DEF FoldJob
  <2>3. /\ Interleaving /\ Range(f) \subseteq foldCandidates
        /\ Cardinality(Range(f)) > Cardinality(candidate.subs)
        /\ candidate.subs \cap foldCandidates \subseteq Range(f)
    BY AttemptedFold
  <2>4. candidate.subs \subseteq foldCandidates /\ IsFiniteSet(foldCandidates)
    BY <2>3 DEF FoldPartsInv
  <2>5. candidate.subs # Range(f)
    <3>1. Cardinality(Range(f)) \in Nat
      BY <2>3, <2>4, FS_Subset, FS_CardinalityType
    <3> QED BY <2>3, <3>1
  <2> QED BY <2>2, <2>3, <2>4, <2>5
<1> QED BY <1>1, IndInvInvariant, FoldPartsInvariant, PTL DEF Spec, FoldExtendsBest

-----------------------------------------------------------------------------
(* The state a pass is told it succeeded with *)

\* With one pass at a time the candidate is a success of that pass, and its state a
\* real one.
LEMMA SequentialCandidate ==
  ASSUME TypeOK, Parts, EnumerationInv, FoldPartsInv, ~Interleaving, pc = "commit"
  PROVE  \A p \in Passes : TakenState(p) # NoState
<1>1. N = 1 /\ Passes = {1}
  BY SchedulerAssumption DEF Passes
<1>2. candidate # NoCandidate /\ candidate.pass # 0
  BY DEF Parts, CandidateInv, FoldPartsInv
<1>3. candidate.pass = 1
  BY <1>1, <1>2, CandidatePass
<1>4. Current(1)
  BY <1>2, <1>3 DEF Parts, CandidateInv
<1>5. candidate.state.root = root[1]
  BY <1>1, <1>3 DEF EnumerationInv, Ended
<1>6. root[1] # 0
  BY <1>1, <1>4 DEF Current, TypeOK
<1> QED BY <1>1, <1>3, <1>5, <1>6, NoStateType DEF TakenState

\* Steps that start nothing, and at most forget states or move enumerations on.
LEMMA SuppliedFrame ==
  ASSUME SuppliedInv, UNCHANGED <<stage, taken>>,
         \A j \in jobs' : j \in jobs \/ j.kind # "init",
         \A p \in Passes : stage[p] # "enumerating" => state'[p] \in {state[p], NoState}
  PROVE  SuppliedInv'
BY DEF SuppliedInv

\* An init job that starts from a state is told the success that led there.
LEMMA ScheduleInitSupplied ==
  ASSUME TypeOK, SuppliedInv, NEW p \in Passes, ScheduleInit(p),
         stage[p] = "before_init" \/ state[p] = NoState
  PROVE  SuppliedInv'
<1> SUFFICES ASSUME ~Interleaving PROVE SuppliedInv'
  BY DEF SuppliedInv
<1>1. /\ jobs' = jobs \cup {InitJob(p)} /\ stage' = [stage EXCEPT ![p] = "in_init"]
      /\ UNCHANGED <<state, taken>>
  BY DEF ScheduleInit
<1>2. state[p] # NoState => taken[p] # NoState
  BY DEF SuppliedInv
<1>3. InitJob(p).state # NoState => InitJob(p).given # NoState
  BY <1>2 DEF InitJob
<1>4. ASSUME NEW q \in Passes, stage'[q] # "enumerating", state'[q] # NoState
      PROVE  taken'[q] # NoState
  BY <1>1, <1>2, <1>4 DEF SuppliedInv, TypeOK
<1> QED BY <1>1, <1>3, <1>4 DEF SuppliedInv

LEMMA HandleJobSupplied ==
  ASSUME TypeOK, Parts, SuppliedInv, NEW j \in jobs, HandleJob(j) PROVE SuppliedInv'
<1>1. CASE HandleInit(j)
  <2> DEFINE kept == [j EXCEPT !.folder = 0]
  <2>1. /\ jobs' = (jobs \ {j}) \cup {kept} /\ stage' = [stage EXCEPT ![j.pass] = "enumerating"]
        /\ taken' = taken /\ j \in Job /\ j.pass \in Passes
    BY <1>1, JobFacts DEF HandleInit
  <2>2. kept.state = j.state /\ kept.given = j.given /\ kept.kind = j.kind
    BY <2>1 DEF Job
  <2> HIDE DEF kept
  <2>3. ASSUME NEW q \in Passes, stage'[q] # "enumerating"
        PROVE  stage[q] # "enumerating" /\ state'[q] = state[q]
    BY <1>1, <2>1, <2>3 DEF HandleInit, TypeOK
  <2> QED BY <2>1, <2>2, <2>3 DEF SuppliedInv
<1>2. CASE HandleStop(j)
  <2>1. /\ UNCHANGED <<stage, taken, jobs>> /\ state' = [state EXCEPT ![j.pass] = NoState]
    BY <1>2 DEF HandleStop, mgrVars
  <2> QED BY <2>1, SuppliedFrame DEF TypeOK
<1>3. CASE HandleFailure(j)
  <2>1. /\ UNCHANGED <<stage, taken, jobs>>
        /\ state' = state \/ state' = [state EXCEPT ![j.pass] = NoState]
    BY <1>3 DEF HandleFailure, mgrVars
  <2> QED BY <2>1, SuppliedFrame DEF TypeOK
<1>4. CASE ~HandleInit(j) /\ ~HandleStop(j) /\ ~HandleFailure(j)
  <2>1. UNCHANGED <<stage, taken, jobs, state>>
    BY <1>4 DEF HandleJob, StillRunning, HandleTimeout, HandleUseless, HandleInvalidFold,
                HandleSuccess, WorkerError, ctxVars, mgrVars
  <2> QED BY <2>1, SuppliedFrame
<1> QED BY <1>1, <1>2, <1>3, <1>4

LEMMA StepSupplied ==
  ASSUME TypeOK, Parts, EnumerationInv, FoldPartsInv, SuppliedInv, [Next]_vars PROVE SuppliedInv'
<1>1. CASE StartTestCase
  <2>1. CASE UNCHANGED <<ctxVars, jobs, lastRestart, queue, successes, pc>>
    BY <2>1, SuppliedFrame DEF ctxVars
  <2>2. CASE ~UNCHANGED <<ctxVars, jobs, lastRestart, queue, successes, pc>>
    <3>1. jobs' = {} /\ state' = [p \in Passes |-> NoState]
      BY <1>1, <2>2 DEF StartTestCase, FreshContexts
    <3> QED BY <3>1 DEF SuppliedInv
  <2> QED BY <2>1, <2>2
<1>2. CASE StartBatch
  <2>1. /\ UNCHANGED <<state, taken, jobs>>
        /\ stage' = [p \in Passes |-> IF stage[p] = "in_init" THEN "before_init" ELSE stage[p]]
    BY <1>2 DEF StartBatch
  <2> QED BY <2>1 DEF SuppliedInv
<1>3. CASE InitPass
  <2>1. PICK p \in Passes : stage[p] = "before_init" /\ ScheduleInit(p)
    BY <1>3 DEF InitPass, CanInitNow, CanInitFrom
  <2> QED BY <2>1, ScheduleInitSupplied
<1>4. CASE RestartPass
  <2> DEFINE h == Head(queue)
  <2>1. queue \in Seq(Passes) /\ queue # <<>> /\ pc = "schedule"
    BY <1>4 DEF RestartPass, RestartDue, TypeOK
  <2>2. h \in Passes /\ h = queue[1] /\ 1 \in DOMAIN queue
    BY <2>1
  <2>3. stage[h] = "enumerating" /\ root[h] < batchOrder
    BY <2>1, <2>2 DEF Parts, QueueInv, Ended
  <2>4. state[h] = NoState
    BY <2>1, <2>2, <2>3 DEF Parts, ContextsInv, Ended
  <2>5. CASE ScheduleInit(h)
    BY <2>2, <2>4, <2>5, ScheduleInitSupplied
  <2>6. CASE ~ScheduleInit(h)
    <3>1. stage' = [stage EXCEPT ![h] = "before_init"] /\ UNCHANGED <<state, taken, jobs>>
      BY <1>4, <2>6 DEF RestartPass
    <3> HIDE DEF h
    <3> QED BY <2>2, <2>4, <3>1 DEF SuppliedInv, TypeOK
  <2> QED BY <2>5, <2>6
<1>5. CASE FoldSuccesses
  <2>1. PICK f : jobs' = jobs \cup {FoldJob(f)} /\ FoldJob(f).kind = "fold"
    BY <1>5 DEF FoldSuccesses, ScheduleFold, FoldJob
  <2> QED BY <1>5, <2>1, SuppliedFrame DEF FoldSuccesses, ScheduleFold, ctxVars
<1>6. ASSUME NEW p \in Passes
      PROVE  stage[p] # "enumerating" => Skipped[p] = state[p] /\ ~CanTransformIn(p, Skipped)
  BY SkippedType DEF CanTransformNow, CanTransformIn, TypeOK
<1>7. CASE TransformPass
  <2>1. PICK p \in Passes : CanTransformIn(p, Skipped) /\ ScheduleTransform(p)
    BY <1>7 DEF TransformPass, NextInTurn
  <2>2. /\ jobs' = jobs \cup {TransformJob(p)} /\ TransformJob(p).kind = "transform"
        /\ state' = [Skipped EXCEPT ![p] = Advance(@)] /\ UNCHANGED <<stage, taken>>
    BY <2>1 DEF ScheduleTransform, TransformJob
  <2>3. ASSUME NEW q \in Passes, stage[q] # "enumerating" PROVE state'[q] = state[q]
    <3>1. Skipped[q] = state[q] /\ q # p
      BY <1>6, <2>1, <2>3
    <3> QED BY <2>2, <3>1, SkippedType DEF TypeOK
  <2> QED BY <2>2, <2>3, SuppliedFrame
<1>8. CASE NothingToSchedule
  BY <1>6, <1>8, SuppliedFrame DEF NothingToSchedule, mgrVars
<1>9. CASE \/ FinishRun \/ LeaveRound \/ TestLoop \/ AllWorkersBusy \/ NoInitNorRestart
           \/ ResultsArrive \/ ReleaseFinished \/ DrainJobs \/ Interrupt \/ Terminated
           \/ UNCHANGED vars
  <2>1. jobs' \subseteq jobs /\ UNCHANGED <<stage, state, taken>>
    BY <1>9 DEF FinishRun, LeaveRound, TestLoop, AllWorkersBusy, NoInitNorRestart, ResultsArrive,
                ReleaseFinished, DrainJobs, Interrupt, Terminated, vars, ctxVars, mgrVars
  <2> QED BY <2>1, SuppliedFrame
<1>10. CASE \E j \in jobs : HandleJob(j)
  BY <1>10, HandleJobSupplied
<1>11. CASE ProcessResult
  <2>1. pc = "commit" /\ taken' = [p \in Passes |-> TakenState(p)] /\ jobs' = {}
    BY <1>11 DEF ProcessResult, Parts, JobsInv
  <2> QED BY <2>1, SequentialCandidate DEF SuppliedInv
<1> QED BY <1>1, <1>2, <1>3, <1>4, <1>5, <1>7, <1>8, <1>9, <1>10, <1>11 DEF Next, Step

\* advance_on_success is given the state of the success whenever it is given a
\* state, when passes run one at a time.
THEOREM SucceededStateIsSupplied == Spec => []SucceededStateSupplied
<1>1. Init => SuppliedInv
  BY DEF Init, SuppliedInv
<1>2. IndInv /\ EnumerationInv /\ FoldPartsInv /\ SuppliedInv /\ [Next]_vars => SuppliedInv'
  BY StepSupplied DEF IndInv, Parts
<1>3. SuppliedInv => SucceededStateSupplied
  BY DEF SuppliedInv, SucceededStateSupplied
<1> QED BY <1>1, <1>2, <1>3, IndInvInvariant, EnumerationGoesForward, FoldPartsInvariant, PTL DEF Spec

-----------------------------------------------------------------------------
(* No work is left *)

\* For a pass without inputs it does not matter which hint types are ready.
LEMMA ReadinessIgnored ==
  ASSUME NEW p \in Passes, Inputs[p] = {}, NEW st, NEW ready
  PROVE  /\ CanInitFrom(p, st, ready) <=> Usable(p) /\ st = "before_init"
         /\ CanInitNow(p, ready) <=> Usable(p) /\ stage[p] = "before_init"
         /\ CanStartJobNow(p, ready) <=> CanInitNow(p, {}) \/ CanTransformNow(p)
BY DEF CanInitFrom, CanInitNow, CanStartJobNow

LEMMA StepExhausted ==
  ASSUME TypeOK, ExhaustedInv, [Next]_vars PROVE ExhaustedInv'
<1> SUFFICES ASSUME NEW p \in Passes, Inputs[p] = {}
             PROVE  /\ pc' = "fill" => ~CanInitNow(p, {})'
                    /\ pc' = "drain" /\ candidate' = NoCandidate => ~CanStartJobNow(p, {})'
  BY DEF ExhaustedInv
<1>1. CASE \/ StartTestCase \/ FinishRun \/ LeaveRound \/ StartBatch \/ AllWorkersBusy \/ InitPass
           \/ FoldSuccesses \/ TransformPass \/ ResultsArrive \/ DrainJobs \/ ProcessResult
           \/ Interrupt \/ \E j \in jobs : HandleJob(j)
  <2>1. pc' \notin {"fill", "drain"}
    BY <1>1 DEF StartTestCase, FinishRun, LeaveRound, StartBatch, AllWorkersBusy, InitPass,
                FoldSuccesses, TransformPass, ResultsArrive, DrainJobs, ProcessResult, Interrupt,
                HandleJob, StillRunning, HandleTimeout, HandleInit, HandleStop, HandleUseless,
                HandleFailure, HandleInvalidFold, HandleSuccess, WorkerError, Seen
  <2> QED BY <2>1
<1>2. CASE TestLoop
  <2>1. pc' \in {"schedule", "drain"} /\ UNCHANGED <<stage, enabled, defunct, state>>
        /\ (pc' = "drain" => ~LoopCondition)
    BY <1>2 DEF TestLoop, ctxVars, health
  <2>2. CASE pc' = "drain"
    <3>1. ~CanStartJobNow(p, readyTypes)
      BY <2>1, <2>2 DEF LoopCondition, AnyPassCanStart
    <3>2. ~CanStartJobNow(p, {})
      BY <3>1, ReadinessIgnored
    <3> QED BY <2>1, <2>2, <3>2 DEF CanStartJobNow, CanInitNow, CanInitFrom, CanTransformNow,
                                    CanTransformIn, Usable
  <2> QED BY <2>1, <2>2
<1>3. CASE NoInitNorRestart
  <2>1. ~CanInitNow(p, ReadyHintTypes) /\ pc' = "fill" /\ UNCHANGED <<stage, enabled, defunct>>
    BY <1>3 DEF NoInitNorRestart, NoPassToInit, ctxVars, health
  <2>2. ~(Usable(p) /\ stage[p] = "before_init")
    BY <2>1, ReadinessIgnored
  <2> QED BY <2>1, <2>2 DEF CanInitNow, CanInitFrom, Usable
<1>4. CASE RestartPass
  <2> DEFINE h == Head(queue)
  <2>1. /\ pc = "schedule" /\ ~CanInitNow(p, ReadyHintTypes) /\ h \in Passes
    BY <1>4, HeadTailProperties DEF RestartPass, RestartDue, NoPassToInit, TypeOK
  <2>2. ~(Usable(p) /\ stage[p] = "before_init")
    BY <2>1, ReadinessIgnored
  <2>3. CASE pc' = "fill"
    <3>1. /\ ~CanInitFrom(h, "before_init", ReadyHintTypes)
          /\ stage' = [stage EXCEPT ![h] = "before_init"] /\ UNCHANGED <<enabled, defunct>>
      BY <1>4, <2>1, <2>3 DEF RestartPass, health
    <3>2. p = h => ~Usable(p)
      BY <3>1, ReadinessIgnored
    <3>3. ~(Usable(p) /\ stage'[p] = "before_init")
      <4> HIDE DEF h
      <4> QED BY <2>1, <2>2, <3>1, <3>2 DEF TypeOK
    <3> QED BY <2>3, <3>1, <3>3 DEF CanInitNow, CanInitFrom, Usable
  <2>4. CASE pc' # "fill"
    BY <1>4, <2>4 DEF RestartPass
  <2> QED BY <2>3, <2>4
<1>5. CASE NothingToSchedule
  <2>1. /\ pc = "fill" /\ pc' \in {"drain", "wait"} /\ ~CanTransformIn(p, Skipped)
        /\ state' = Skipped /\ UNCHANGED <<stage, enabled, defunct>>
    BY <1>5 DEF NothingToSchedule, health
  <2>2. ~CanInitNow(p, {})
    BY <2>1 DEF ExhaustedInv
  <2>3. ~CanTransformNow(p)' /\ ~CanInitNow(p, {})'
    BY <2>1, <2>2 DEF CanTransformNow, CanTransformIn, CanInitNow, CanInitFrom, Usable
  <2> QED BY <2>1, <2>3 DEF CanStartJobNow
<1>6. CASE ReleaseFinished
  BY <1>6 DEF ReleaseFinished, ShouldProceed
<1>7. CASE Terminated \/ UNCHANGED vars
  <2>1. UNCHANGED <<stage, enabled, defunct, state, candidate, pc>>
    BY <1>7 DEF Terminated, vars, ctxVars, mgrVars, health
  <2> QED BY <2>1 DEF ExhaustedInv, CanStartJobNow, CanInitNow, CanInitFrom, CanTransformNow,
                      CanTransformIn, Usable
<1> QED BY <1>1, <1>2, <1>3, <1>4, <1>5, <1>6, <1>7 DEF Next, Step

\* A test case is left for lack of a success only when no pass that takes no hints
\* of other passes has anything to initialize or to try.
THEOREM IndependentWorkIsExhausted == Spec => IndependentWorkExhausted
<1>1. Init => ExhaustedInv
  BY DEF Init, ExhaustedInv
<1>2. TypeOK /\ ExhaustedInv /\ [Next]_vars => ExhaustedInv'
  BY StepExhausted
<1>3. ExhaustedInv /\ [Next]_vars =>
        [pc = "drain" /\ pc' = "next" =>
           \A p \in Passes : Inputs[p] = {} => ~CanStartJobNow(p, ReadyHintTypes)]_vars
  <2> SUFFICES ASSUME ExhaustedInv, Next, pc = "drain", pc' = "next",
                      NEW p \in Passes, Inputs[p] = {}
               PROVE  ~CanStartJobNow(p, ReadyHintTypes)
    OBVIOUS
  <2>1. CASE candidate = NoCandidate
    <3>1. ~CanStartJobNow(p, {})
      BY <2>1 DEF ExhaustedInv
    <3> QED BY <3>1, ReadinessIgnored
  <2>2. CASE candidate # NoCandidate
    <3>1. ~DrainJobs /\ ~\E j \in jobs : HandleJob(j)
      BY <2>2 DEF DrainJobs, HandleJob, StillRunning, HandleTimeout, HandleInit, HandleStop,
                  HandleUseless, HandleFailure, HandleInvalidFold, HandleSuccess, WorkerError, Seen
    <3> QED BY <3>1 DEF Next, Step, StartTestCase, FinishRun, LeaveRound, StartBatch, TestLoop,
               AllWorkersBusy, InitPass, RestartPass, NoInitNorRestart, FoldSuccesses,
               TransformPass, NothingToSchedule, ResultsArrive, ReleaseFinished, ProcessResult,
               Interrupt, Terminated
  <2> QED BY <2>1, <2>2
<1> QED BY <1>1, <1>2, <1>3, TypeCorrect, PTL DEF Spec, IndependentWorkExhausted
=============================================================================
