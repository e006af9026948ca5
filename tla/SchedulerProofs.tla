--------------------------- MODULE SchedulerProofs ---------------------------
(***************************************************************************)
(* Machine-checked proofs about Scheduler, for every number of passes and   *)
(* workers, every dependency between passes and every length of the         *)
(* enumerations: the types, then that IndInv is an invariant, and with it   *)
(* FreshWork, InputsAlive and QueueSound.  There is one lemma for every     *)
(* action that touches what IndInv speaks of.                               *)
(***************************************************************************)
EXTENDS SchedulerProperties, FiniteSetTheorems, SequenceTheorems,
        WellFoundedInduction, TLAPS

-----------------------------------------------------------------------------
(* Lemmas about the operators the model is built from *)

\* A set of numbers has a least element (what min() in process_result relies on).
LEMMA MinExists ==
  ASSUME NEW S \in SUBSET Nat, S # {}
  PROVE  \E m \in S : \A n \in S : m <= n
<1> DEFINE R == OpToRel(<, Nat)
<1>1. IsWellFoundedOn(R, Nat)
  BY NatLessThanWellFounded
<1>2. \E x \in S : \A y \in S : ~(<<y, x>> \in R)
  <2> HIDE DEF R
  <2> QED BY <1>1, WFMin
<1>3. \A x, y \in S : <<y, x>> \in R <=> y < x
  BY DEF OpToRel
<1> HIDE DEF R
<1>4. \E x \in S : \A y \in S : ~(y < x)
  BY <1>2, <1>3, Zenon
<1> QED BY <1>4, SMT

\* HintState.advance stays in the same directory.
LEMMA AdvanceType ==
  ASSUME NEW s \in State
  PROVE  /\ Advance(s) \in State
         /\ Advance(s) # NoState => Advance(s).root = s.root
BY SchedulerAssumption DEF Advance, State, NoState, Pos

\* So does skipping the states that are part of a success.
LEMMA AdvanceWhileSubsetType ==
  ASSUME NEW p \in Passes, NEW s \in State
  PROVE  /\ AdvanceWhileSubset(p, s) \in State
         /\ AdvanceWhileSubset(p, s) # NoState => AdvanceWhileSubset(p, s).root = s.root
<1> DEFINE old(q) == \E t \in succeeded[p] : t.root = s.root /\ 0 \notin {q, t.pos} /\ q \in Covers[t.pos]
           new == {q \in s.pos..MaxPos : ~old(q)}
           least == CHOOSE q \in new : \A r \in new : q <= r
<1>1. s.pos \in Nat /\ MaxPos \in Nat
  BY SchedulerAssumption DEF State, Pos
<1>2. new \subseteq Pos
  BY <1>1 DEF Pos
<1>3. ASSUME new # {} PROVE least \in new
  <2>1. new \in SUBSET Nat
    BY <1>2, <1>1 DEF Pos
  <2>2. \E q \in new : \A r \in new : q <= r
    <3> HIDE DEF new
    <3> QED BY <1>3, <2>1, MinExists
  <2> HIDE DEF new
  <2> QED BY <2>2
<1>4. AdvanceWhileSubset(p, s) = IF p \notin HintBased THEN s
                                 ELSE IF new = {} THEN NoState
                                 ELSE [s EXCEPT !.pos = least]
  BY DEF AdvanceWhileSubset
<1> HIDE DEF new, least
<1>5. CASE p \in HintBased /\ new # {}
  <2>1. least \in Pos
    BY <1>2, <1>3, <1>5
  <2> QED BY <1>4, <1>5, <2>1 DEF State
<1>6. NoState \in State
  BY SchedulerAssumption DEF NoState, State, Pos
<1> QED BY <1>4, <1>5, <1>6

\* Whatever the order, the tuple holds the states of the set.
LEMMA OrdersRange ==
  ASSUME NEW S, NEW f \in Orders(S)
  PROVE  Range(f) = S
BY DEF Orders, Bijection, Surjection, Injection, Range

\* maybe_prepare_folding_job only combines successes of the batch.
LEMMA PossibleFoldsType ==
  ASSUME NEW f \in PossibleFolds
  PROVE  Range(f) \subseteq foldCandidates
<1>1. CASE f = <<>>
  BY <1>1 DEF Range
<1>2. CASE f # <<>>
  <2>1. PICK S : S \subseteq foldCandidates /\ f \in Orders(S)
    BY <1>2 DEF PossibleFolds, PrepareFold
  <2> QED BY <2>1, OrdersRange
<1> QED BY <1>1, <1>2

\* What an init job returns fits the pass it was started for.
LEMMA InitResultsType ==
  ASSUME NEW j \in Job, NEW r \in InitResults(j), paths \in [Passes -> SUBSET Types],
         j.pass \in Passes
  PROVE  /\ r.state \in State
         /\ r.state # NoState => r.state.root = j.order
         /\ r.paths \subseteq Types
         /\ r.paths \subseteq Outputs[j.pass] \cup {Untyped}
<1>1. j.order \in Nat /\ j.state.pos \in Nat /\ MaxPos \in Nat
  BY SchedulerAssumption DEF Job, State, Pos
<1>2. Outputs[j.pass] \cup {Untyped} \subseteq Types
  BY SchedulerAssumption
<1> QED BY <1>1, <1>2, SchedulerAssumption DEF InitResults, State, NoState, Pos

\* min() of the orders of the running transformations is one of them.
LEMMA EarliestRunningExists ==
  ASSUME NEW p \in Passes, running[p] \in SUBSET Running, running[p] # {}
  PROVE  /\ EarliestRunning(p) \in running[p]
         /\ \A s \in running[p] : EarliestRunning(p).order <= s.order
<1> DEFINE orders == {r.order : r \in running[p]}
<1>1. orders \in SUBSET Nat /\ orders # {}
  BY DEF Running
<1>2. PICK m \in orders : \A n \in orders : m <= n
  <2> HIDE DEF orders
  <2> QED BY <1>1, MinExists
<1>3. \E r \in running[p] : \A s \in running[p] : r.order <= s.order
  BY <1>2
<1> QED BY <1>3 DEF EarliestRunning

\* process_result sets each pass' state to one it had before.
LEMMA RewoundStateType ==
  ASSUME TypeOK, NEW p \in Passes
  PROVE  RewoundState(p) \in State
<1>1. candidate.state \in State /\ state[p] \in State /\ running[p] \in SUBSET Running
  BY DEF TypeOK, Candidate
<1>2. CASE running[p] = {}
  BY <1>1, <1>2 DEF RewoundState
<1>3. CASE running[p] # {}
  <2>1. EarliestRunning(p) \in running[p]
    BY <1>1, <1>3, EarliestRunningExists
  <2>2. EarliestRunning(p).state \in State
    BY <1>1, <2>1 DEF Running
  <2> QED BY <1>1, <2>2 DEF RewoundState
<1> QED BY <1>2, <1>3

\* The passes appended to the restart queue form a sequence of passes.
LEMMA InOrderType ==
  ASSUME NEW ps \in SUBSET Passes, NEW s \in InOrder(ps)
  PROVE  /\ s \in Seq(Passes)
         /\ DOMAIN s = 1..Len(s)
         /\ \A i \in DOMAIN s : s[i] \in ps
         /\ \A i, k \in DOMAIN s : s[i] = s[k] => i = k
<1>1. IsFiniteSet(ps)
  <2>1. IsFiniteSet(Passes)
    BY SchedulerAssumption, FS_Interval DEF Passes
  <2> QED BY <2>1, FS_Subset
<1>2. Cardinality(ps) \in Nat
  BY <1>1, FS_CardinalityType
<1>3. s \in [1..Cardinality(ps) -> ps]
  BY DEF InOrder
<1>4. s \in Seq(Passes)
  BY <1>2, <1>3
<1>5. \A i, k \in 1..Cardinality(ps) : i < k => s[i] < s[k]
  BY DEF InOrder
<1>6. \A i \in 1..Cardinality(ps) : s[i] \in Nat
  <2>1. ps \subseteq Nat
    BY SchedulerAssumption DEF Passes
  <2> QED BY <1>3, <2>1
<1>7. \A i, k \in 1..Cardinality(ps) : s[i] = s[k] => i = k
  BY <1>2, <1>5, <1>6
<1> QED BY <1>2, <1>3, <1>4, <1>7

\* Skipping leaves every pass a state, of the same directory.
LEMMA SkippedType ==
  ASSUME state \in [Passes -> State]
  PROVE  /\ Skipped \in [Passes -> State]
         /\ \A p \in Passes :
               /\ Skipped[p] # NoState => Skipped[p].root = state[p].root /\ state[p] # NoState
               /\ ~CanTransformNow(p) => Skipped[p] = state[p]
<1>1. \A p \in Passes : Skipped[p] = IF CanTransformNow(p) THEN AdvanceWhileSubset(p, state[p])
                                     ELSE state[p]
  BY DEF Skipped
<1>2. \A p \in Passes : CanTransformNow(p) => state[p] # NoState
  BY DEF CanTransformNow, CanTransformIn
<1> QED BY <1>1, <1>2, AdvanceWhileSubsetType DEF Skipped

-----------------------------------------------------------------------------
(* Type correctness *)

LEMMA NoStateType == NoState \in State /\ NoState.root = 0 /\ NoState.pos = 0
BY SchedulerAssumption DEF NoState, State, Pos

LEMMA NoCandidateType == NoCandidate \in Candidate /\ 0 \in 0..N
BY SchedulerAssumption, NoStateType DEF NoCandidate, Candidate

LEMMA TypeInit == Init => TypeOK
BY SchedulerAssumption, NoStateType, EmptySeq, NoCandidateType DEF Init, TypeOK, PC, Ended

\* No step leaves the types of the variables.
LEMMA TypeStep == TypeOK /\ [Next]_vars => TypeOK'
<1> SUFFICES ASSUME TypeOK, [Next]_vars PROVE TypeOK'
  OBVIOUS
<1> USE NoStateType, NoCandidateType
<1>1. CASE StartTestCase
  <2>1. testCase + 1 \in Nat
    BY DEF TypeOK
  <2>2. CASE UNCHANGED <<ctxVars, jobs, lastRestart, queue, successes, pc>>
    BY <1>1, <2>1, <2>2 DEF StartTestCase, TypeOK, ctxVars, counts, health, foldVars
  <2>3. CASE ~UNCHANGED <<ctxVars, jobs, lastRestart, queue, successes, pc>>
    <3>1. <<>> \in Seq(Passes)
      BY EmptySeq
    <3>2. PICK on \in {Passes, SupportsDir} : FreshContexts(on)
      BY <1>1, <2>3 DEF StartTestCase
    <3>3. jobs' = {} /\ lastRestart' = 0 /\ queue' = <<>> /\ successes' = 0 /\ pc' \in PC
      BY <1>1, <2>3 DEF StartTestCase, TypeOK, PC
    <3>4. /\ stage' \in [Passes -> {"before_init", "in_init", "enumerating"}]
          /\ enabled' \in [Passes -> BOOLEAN] /\ defunct' \in [Passes -> BOOLEAN]
          /\ state' \in [Passes -> State] /\ taken' \in [Passes -> State]
      BY <3>2 DEF FreshContexts
    <3>5. /\ root' \in [Passes -> Nat] /\ counter' \in [Passes -> Nat]
          /\ lastSuccess' \in [Passes -> Nat] /\ batchCounter' \in [Passes -> Nat]
          /\ timeouts' \in [Passes -> Nat]
      BY <3>2 DEF FreshContexts
    <3>6. /\ succeeded' \in [Passes -> SUBSET State] /\ running' \in [Passes -> SUBSET Running]
          /\ paths' \in [Passes -> SUBSET Types]
      BY <3>2 DEF FreshContexts
    <3> QED BY <1>1, <2>1, <3>1, <3>3, <3>4, <3>5, <3>6 DEF StartTestCase, TypeOK, foldVars
  <2> QED BY <2>2, <2>3
<1>2. CASE FinishRun
  BY <1>2 DEF FinishRun, TypeOK, ctxVars, counts, health, mgrVars, foldVars, loopVars, PC, Ended
<1>3. CASE LeaveRound
  BY <1>3 DEF LeaveRound, TypeOK, ctxVars, counts, health, mgrVars, foldVars, loopVars, PC, Ended
<1>4. CASE StartBatch
  <2>1. queue' \in Seq(Passes)
    <3>1. Restartable \in SUBSET Passes
      BY DEF Restartable
    <3>2. \A added \in InOrder(Restartable) : queue \o added \in Seq(Passes)
      BY <3>1, InOrderType, ConcatProperties DEF TypeOK
    <3> QED BY <1>4, <3>2 DEF StartBatch, TypeOK
  <2>2. readyTypes' \subseteq Types
    <3> DEFINE ready == {q \in HintBased : stage'[q] = "enumerating"}
    <3>1. readyTypes' \subseteq UNION {Outputs[q] : q \in ready}
      BY <1>4 DEF StartBatch, ReadyHintTypes
    <3>2. \A q \in ready : Outputs[q] \subseteq Types
      BY SchedulerAssumption
    <3> HIDE DEF ready
    <3> QED BY <3>1, <3>2
  <2>3. /\ foldCandidates' \subseteq State
        /\ failedFolds' \in Seq(SUBSET State)
        /\ \A f \in attemptedFolds' : Range(f) \subseteq State
    <3>1. CASE Interleaving
      BY <1>4, <3>1 DEF StartBatch
    <3>2. CASE ~Interleaving
      BY <1>4, <3>2 DEF StartBatch, TypeOK, foldVars
    <3> QED BY <3>1, <3>2
  <2> QED BY <1>4, <2>1, <2>2, <2>3 DEF StartBatch, TypeOK, health, PC
<1>5. CASE TestLoop
  BY <1>5 DEF TestLoop, TypeOK, ctxVars, counts, health, mgrVars, foldVars, loopVars, PC, Ended
<1>6. CASE AllWorkersBusy
  BY <1>6 DEF AllWorkersBusy, TypeOK, ctxVars, counts, health, mgrVars, foldVars, loopVars, PC, Ended
<1>7. ASSUME NEW p \in Passes
      PROVE  InitJob(p) \in Job
  <2>1. HintBased \subseteq Passes /\ p \in 0..N
    BY SchedulerAssumption DEF Passes
  <2>2. (IF state[p] = NoState THEN NoState ELSE taken[p]) \in State
    BY DEF TypeOK
  <2>3. \A S \in SUBSET Passes : {root[q] : q \in S} \in SUBSET Nat
    BY DEF TypeOK
  <2> QED BY <2>1, <2>2, <2>3 DEF InitJob, Job, TypeOK
<1>8. ASSUME NEW p \in Passes, ScheduleInit(p)
      PROVE  /\ jobs' \subseteq Job /\ order' \in Nat \ {0}
             /\ dirs' \subseteq {"job", "best"} \X Nat
             /\ counter' \in [Passes -> Nat]
             /\ stage' \in [Passes -> {"before_init", "in_init", "enumerating"}]
             /\ UNCHANGED <<enabled, root, state, taken, succeeded, lastSuccess, batchCounter,
                            running, health, paths>>
  BY <1>7, <1>8 DEF ScheduleInit, JobDir, TypeOK
<1>20. CASE InitPass
  <2>1. PICK p \in Passes : ScheduleInit(p)
    BY <1>20 DEF InitPass
  <2> QED BY <1>8, <1>20, <2>1 DEF InitPass, TypeOK, health, foldVars, loopVars
<1>21. CASE RestartPass
  <2>1. Head(queue) \in Passes /\ Tail(queue) \in Seq(Passes)
    BY <1>21, HeadTailProperties DEF RestartPass, RestartDue, TypeOK
  <2>2. CASE CanInitFrom(Head(queue), "before_init", ReadyHintTypes)
    <3>1. ScheduleInit(Head(queue)) /\ lastRestart' = order /\ pc' = pc
      BY <1>21, <2>2 DEF RestartPass
    <3> QED BY <1>8, <1>21, <2>1, <3>1 DEF RestartPass, TypeOK, health, foldVars, loopVars
  <2>3. CASE ~CanInitFrom(Head(queue), "before_init", ReadyHintTypes)
    BY <1>21, <2>1, <2>3 DEF RestartPass, TypeOK, counts, health, foldVars, loopVars, PC
  <2> QED BY <2>2, <2>3
<1>9. CASE NoInitNorRestart
  BY <1>9 DEF NoInitNorRestart, TypeOK, ctxVars, counts, health, mgrVars, foldVars, loopVars, PC, Ended
<1>10. CASE FoldSuccesses
  <2>1. \A f \in PossibleFolds : Range(f) \subseteq State
    BY PossibleFoldsType DEF TypeOK
  <2>2. \A f : Range(f) \subseteq State => FoldJob(f) \in Job
    BY DEF FoldJob, Job, TypeOK
  <2>3. /\ jobs' \subseteq Job /\ order' \in Nat \ {0}
        /\ dirs' \subseteq {"job", "best"} \X Nat
        /\ \A f \in attemptedFolds' : Range(f) \subseteq State
    BY <1>10, <2>1, <2>2 DEF FoldSuccesses, ScheduleFold, JobDir, TypeOK
  <2>4. UNCHANGED ctxVars /\ pc' \in PC
    BY <1>10 DEF FoldSuccesses, ScheduleFold, PC
  <2> QED BY <1>10, <2>3, <2>4 DEF FoldSuccesses, TypeOK, ctxVars, counts, health, loopVars
<1>11. CASE TransformPass
  <2>1. Skipped \in [Passes -> State]
    BY SkippedType DEF TypeOK
  <2>2. \A p \in Passes : TransformJob(p) \in Job
    BY <2>1, SchedulerAssumption DEF TransformJob, Job, Passes, TypeOK
  <2>3. \A p \in Passes : Advance(Skipped[p]) \in State
    BY <2>1, AdvanceType
  <2>4. PICK p \in Passes : ScheduleTransform(p)
    BY <1>11 DEF TransformPass
  <2>5. /\ jobs' \subseteq Job /\ order' \in Nat \ {0}
        /\ dirs' \subseteq {"job", "best"} \X Nat
        /\ running' \in [Passes -> SUBSET Running]
        /\ counter' \in [Passes -> Nat] /\ state' \in [Passes -> State]
    BY <2>1, <2>2, <2>3, <2>4 DEF ScheduleTransform, JobDir, Running, TypeOK
  <2> QED BY <1>11, <2>4, <2>5 DEF TransformPass, ScheduleTransform, TypeOK, health, foldVars, loopVars, PC
<1>12. CASE NothingToSchedule
  BY <1>12, SkippedType DEF NothingToSchedule, TypeOK, ctxVars, counts, health, mgrVars, foldVars, loopVars, PC, Ended
<1>13. CASE ResultsArrive
  BY <1>13 DEF ResultsArrive, TypeOK, ctxVars, counts, health, mgrVars, foldVars, loopVars, PC, Ended
<1>14. CASE ReleaseFinished
  BY <1>14 DEF ReleaseFinished, TypeOK, ctxVars, counts, health, mgrVars, foldVars, loopVars, PC, Ended
<1>15. ASSUME NEW j \in jobs, HandleJob(j) PROVE TypeOK'
  <2>1. j \in Job /\ j.pass \in 0..N /\ j.state \in State /\ j.order \in Nat
    BY DEF TypeOK, Job
  <2>2. j.pass # 0 => j.pass \in Passes
    BY <2>1, SchedulerAssumption DEF Passes
  <2>3. Popped(j) \in [Passes -> SUBSET Running]
    BY DEF Popped, TypeOK
  <2>4. Seen(j) => /\ cursor' \in Nat /\ finished' \subseteq Nat
                   /\ UNCHANGED <<readyTypes, testCase, successes>>
    BY <2>1 DEF Seen, TypeOK
  <2>5. Failed(j) => /\ foldCandidates' \subseteq State /\ failedFolds' \in Seq(SUBSET State)
                     /\ \A f \in attemptedFolds' : Range(f) \subseteq State
    <3>1. j.subs \in SUBSET State
      BY <2>1 DEF Job
    <3> QED BY <3>1, AppendProperties DEF Failed, TypeOK
  <2>6. CASE StillRunning(j)
    BY <2>1, <2>6 DEF StillRunning, TypeOK, ctxVars, counts, health, mgrVars, foldVars
  <2>7. CASE HandleTimeout(j)
    <3>1. CASE j.pass = 0
      BY <2>4, <2>7, <3>1 DEF HandleTimeout, TypeOK, ctxVars, counts, health, mgrVars, foldVars
    <3>2. CASE j.pass # 0
      <4>1. /\ timeouts' = [timeouts EXCEPT ![j.pass] = @ + 1]
            /\ running' = IF j.kind = "transform" THEN Popped(j) ELSE running
            /\ defunct' = [defunct EXCEPT ![j.pass] = @ \/ timeouts'[j.pass] >= MaxTimeouts]
        BY <2>7, <3>2 DEF HandleTimeout
      <4>2. timeouts' \in [Passes -> Nat] /\ running' \in [Passes -> SUBSET Running]
        <5>1. timeouts[j.pass] + 1 \in Nat
          BY <2>2, <3>2 DEF TypeOK
        <5> QED BY <2>3, <4>1, <5>1 DEF TypeOK
      <4>3. defunct' \in [Passes -> BOOLEAN]
        <5>1. (defunct[j.pass] \/ timeouts'[j.pass] >= MaxTimeouts) \in BOOLEAN
          OBVIOUS
        <5> QED BY <4>1, <5>1, Zenon DEF TypeOK
      <4> QED BY <2>4, <2>7, <3>2, <4>2, <4>3
                 DEF HandleTimeout, TypeOK, counts, mgrVars, foldVars
    <3> QED BY <3>1, <3>2
  <2>8. CASE HandleInit(j)
    <3>1. PICK r \in InitResults(j) :
             /\ stage' = [stage EXCEPT ![j.pass] = "enumerating"]
             /\ state' = [state EXCEPT ![j.pass] = r.state]
             /\ paths' = [paths EXCEPT ![j.pass] = r.paths]
      BY <2>8 DEF HandleInit
    <3>2. j.pass \in Passes => r.state \in State /\ r.paths \subseteq Types
      BY <2>1, InitResultsType DEF TypeOK
    <3>3. /\ stage' \in [Passes -> {"before_init", "in_init", "enumerating"}]
          /\ state' \in [Passes -> State] /\ paths' \in [Passes -> SUBSET Types]
      <4>1. stage' \in [Passes -> {"before_init", "in_init", "enumerating"}]
        BY <3>1 DEF TypeOK
      <4>2. state' \in [Passes -> State]
        <5>1. state \in [Passes -> State]
          BY DEF TypeOK
        <5> QED BY <3>1, <3>2, <5>1
      <4>3. paths' \in [Passes -> SUBSET Types]
        BY <3>1, <3>2 DEF TypeOK
      <4> QED BY <4>1, <4>2, <4>3
    <3>4. root' \in [Passes -> Nat] /\ jobs' \subseteq Job
          /\ dirs' \subseteq {"job", "best"} \X Nat
      <4>1. [j EXCEPT !.folder = 0] \in Job /\ j.folder \in Nat
        BY <2>1 DEF Job
      <4>2. root' = [root EXCEPT ![j.pass] = j.folder] /\ dirs' \subseteq dirs
            /\ jobs' = (jobs \ {j}) \cup {[j EXCEPT !.folder = 0]}
        BY <2>8 DEF HandleInit
      <4>3. root' \in [Passes -> Nat]
        BY <4>1, <4>2 DEF TypeOK
      <4>4. jobs' \subseteq Job
        BY <4>1, <4>2 DEF TypeOK
      <4> QED BY <4>2, <4>3, <4>4 DEF TypeOK
    <3> QED BY <2>4, <2>8, <3>3, <3>4 DEF HandleInit, TypeOK, counts, health, foldVars
  <2>9. CASE HandleStop(j)
    BY <2>3, <2>4, <2>9 DEF HandleStop, TypeOK, counts, health, mgrVars, foldVars
  <2>10. CASE HandleUseless(j)
    BY <2>3, <2>4, <2>5, <2>10 DEF HandleUseless, TypeOK, counts, health, mgrVars
  <2>11. CASE HandleFailure(j)
    <3>1. CASE GivesUp(j)
      <4>1. defunct' = [defunct EXCEPT ![j.pass] = TRUE] /\ state' = [state EXCEPT ![j.pass] = NoState]
            /\ UNCHANGED foldVars
        BY <2>11, <3>1 DEF HandleFailure
      <4>2. defunct' \in [Passes -> BOOLEAN]
        BY <4>1, Zenon DEF TypeOK
      <4>3. state' \in [Passes -> State]
        BY <4>1 DEF TypeOK
      <4> QED BY <2>3, <2>4, <2>11, <4>1, <4>2, <4>3 DEF HandleFailure, TypeOK, counts, mgrVars, foldVars
    <3>2. CASE ~GivesUp(j)
      BY <2>3, <2>4, <2>5, <2>11, <3>2 DEF HandleFailure, TypeOK, counts, mgrVars
    <3> QED BY <3>1, <3>2
  <2>12. CASE HandleInvalidFold(j)
    BY <2>4, <2>12 DEF HandleInvalidFold, TypeOK, ctxVars, counts, health, mgrVars, foldVars
  <2>13. CASE HandleSuccess(j)
    <3> DEFINE hints == IF j.kind = "fold" THEN j.subs
                        ELSE IF j.pass \in HintBased THEN {j.state} ELSE {}
    <3>1. hints \subseteq State
      BY <2>1 DEF Job
    <3>2. PICK g \in Gains : UpdateCandidate([order |-> j.order, pass |-> j.pass, state |-> j.state,
                                             subs |-> hints, gain |-> g])
      BY <2>13 DEF HandleSuccess
    <3> HIDE DEF hints
    <3>3. [order |-> j.order, pass |-> j.pass, state |-> j.state, subs |-> hints, gain |-> g]
             \in Candidate
      BY <2>1, <3>1, SchedulerAssumption DEF Candidate
    <3>4. candidate' \in Candidate /\ dirs' \subseteq {"job", "best"} \X Nat
      BY <2>1, <3>2, <3>3 DEF UpdateCandidate, BestDir, TypeOK
    <3>5. foldCandidates' \subseteq State
      <4>1. foldCandidates' = foldCandidates \/ foldCandidates' = foldCandidates \cup hints
        BY <2>13 DEF HandleSuccess, hints
      <4> QED BY <3>1, <4>1 DEF TypeOK
    <3>6. succeeded' \in [Passes -> SUBSET State] /\ lastSuccess' \in [Passes -> Nat]
      <4>1. CASE j.kind = "fold"
        BY <2>13, <4>1 DEF HandleSuccess, TypeOK
      <4>2. CASE j.kind # "fold"
        <5>1. /\ succeeded' = [succeeded EXCEPT ![j.pass] = @ \cup {j.state}]
              /\ lastSuccess' = [lastSuccess EXCEPT ![j.pass] = IF @ >= j.count THEN @ ELSE j.count]
          BY <2>13, <4>2 DEF HandleSuccess
        <5>2. j.count \in Nat
          BY <2>1 DEF Job
        <5>3. succeeded' \in [Passes -> SUBSET State]
          <6>1. succeeded \in [Passes -> SUBSET State]
            BY DEF TypeOK
          <6>2. j.pass \in Passes => succeeded[j.pass] \cup {j.state} \in SUBSET State
            BY <2>1, <6>1
          <6> QED BY <5>1, <6>1, <6>2
        <5>4. lastSuccess' \in [Passes -> Nat]
          BY <2>2, <5>1, <5>2 DEF TypeOK
        <5> QED BY <5>3, <5>4
      <4> QED BY <4>1, <4>2
    <3> QED BY <2>3, <2>4, <2>13, <3>4, <3>5, <3>6 DEF HandleSuccess, TypeOK, health
  <2>14. CASE WorkerError(j)
    BY <2>4, <2>14 DEF WorkerError, TypeOK, ctxVars, counts, health, mgrVars, foldVars, PC
  <2> QED BY <1>15, <2>6, <2>7, <2>8, <2>9, <2>10, <2>11, <2>12, <2>13, <2>14 DEF HandleJob
<1>16. CASE DrainJobs
  BY <1>16 DEF DrainJobs, TypeOK, ctxVars, counts, health, mgrVars, foldVars, loopVars, PC, Ended
<1>17. CASE ProcessResult
  <2>1. \A p \in Passes : RewoundState(p) \in State
    BY RewoundStateType
  <2>2. \A p \in Passes : TakenState(p) \in State
    BY DEF TakenState, TypeOK, Candidate
  <2>3. \A p \in Passes : (IF ShouldReinit(p, RewoundState(p)) THEN "before_init" ELSE stage[p])
                           \in {"before_init", "in_init", "enumerating"}
    BY DEF TypeOK
  <2>4. /\ state' \in [Passes -> State] /\ taken' \in [Passes -> State]
        /\ stage' \in [Passes -> {"before_init", "in_init", "enumerating"}]
        /\ running' \in [Passes -> SUBSET Running]
    BY <1>17, <2>1, <2>2, <2>3 DEF ProcessResult
  <2> QED BY <1>17, <2>4 DEF ProcessResult, TypeOK, counts, health, foldVars, PC, Ended
<1>18. CASE Interrupt
  BY <1>18 DEF Interrupt, TypeOK, ctxVars, counts, health, mgrVars, foldVars, loopVars, PC, Ended
<1>19. CASE Terminated
  BY <1>19 DEF Terminated, TypeOK, ctxVars, counts, health, mgrVars, foldVars, loopVars, PC, Ended, vars
<1>22. CASE UNCHANGED vars
  BY <1>22 DEF vars, ctxVars, counts, health, mgrVars, foldVars, loopVars, TypeOK
<1> QED BY <1>1, <1>2, <1>3, <1>4, <1>5, <1>6, <1>20, <1>21, <1>9, <1>10, <1>11, <1>12, <1>13,
           <1>14, <1>15, <1>16, <1>17, <1>18, <1>19, <1>22 DEF Next, Step

\* The variables keep to the values that PassContext, Job and TestManager
\* declare for them, in every execution of the scheduler.
THEOREM TypeCorrect == Spec => []TypeOK
BY TypeInit, TypeStep, PTL DEF Spec

-----------------------------------------------------------------------------
(* The invariant *)

\* The parts of IndInv beyond the types.
Parts == JobsInv /\ PendingInv /\ ContextsInv /\ QueueInv /\ CandidateInv /\ FoldInv /\ DirsInv

\* The variables they speak of, but pc.
watched == <<stage, enabled, defunct, root, state, running, paths, jobs, finished, cursor,
             order, batchOrder, queue, candidate, dirs, foldCandidates>>

-----------------------------------------------------------------------------
\* What holds of every job.
LEMMA JobFacts ==
  ASSUME TypeOK, Parts, NEW j \in jobs
  PROVE  /\ j \in Job /\ j.order \in Nat /\ j.state \in State
         /\ batchOrder <= j.order /\ j.order < order
         /\ j.kind # "fold" => j.pass \in Passes
<1>1. j \in Job
  BY DEF TypeOK
<1>2. (j.kind = "fold") = (j.pass = 0) /\ batchOrder <= j.order /\ j.order < order
  BY DEF Parts, JobsInv
<1>3. j.pass \in 0..N /\ j.order \in Nat /\ j.state \in State
  BY <1>1 DEF Job
<1>4. j.kind # "fold" => j.pass \in Passes
  BY <1>2, <1>3, SchedulerAssumption DEF Passes
<1> QED BY <1>1, <1>2, <1>3, <1>4

\* The pass of the success candidate.
LEMMA CandidatePass ==
  ASSUME TypeOK
  PROVE  candidate.order \in Nat /\ (candidate.pass # 0 => candidate.pass \in Passes)
BY SchedulerAssumption DEF TypeOK, Candidate, Passes

LEMMA InitParts == Init => Parts
<1> SUFFICES ASSUME Init PROVE Parts
  OBVIOUS
<1>1. JobsInv /\ PendingInv /\ CandidateInv /\ FoldInv
  BY DEF Init, JobsInv, PendingInv, Pending, CandidateInv, FoldInv, Ended
<1>2. ContextsInv /\ QueueInv /\ DirsInv
  BY DEF Init, ContextsInv, QueueInv, DirsInv, Ended
<1> QED BY <1>1, <1>2 DEF Parts

\* A step of the main thread that changes nothing but its place, and does not
\* leave process_done_futures or begin a batch.
LEMMA FrameParts ==
  ASSUME Parts, UNCHANGED watched, pc \in PC,
         pc' \in {"loop", "schedule", "fill", "wait", "handle", "drain", "next"} \/ pc' = pc,
         pc' = pc \/ pc \notin {"handle", "crashed", "next", "commit"} \cup Ended,
         pc' = "next" => pc \in {"round", "next"},
         pc = "round" => pc' \in {"round", "next"}
  PROVE  Parts'
<1>1. JobsInv'
  BY DEF Parts, JobsInv, watched, PC, Ended
<1>2. PendingInv'
  BY DEF Parts, PendingInv, Pending, Current, CurrentRoots, watched
<1>3. ContextsInv' /\ QueueInv' /\ DirsInv'
  BY DEF Parts, ContextsInv, QueueInv, DirsInv, Current, FeedsNone, Feeds, Usable, watched, PC, Ended
<1>4. CandidateInv' /\ FoldInv'
  BY DEF Parts, CandidateInv, FoldInv, Current, CurrentRoots, watched, PC, Ended
<1> QED BY <1>1, <1>2, <1>3, <1>4 DEF Parts

-----------------------------------------------------------------------------
(* The beginning and the end of a test case and of a batch *)

LEMMA StartTestCaseParts == ASSUME TypeOK, Parts, StartTestCase PROVE Parts'
<1>1. pc = "next" /\ pc' \in {"next", "round"} /\ jobs = {} /\ jobs' = {} /\ candidate = NoCandidate
  BY DEF StartTestCase, Parts, JobsInv, CandidateInv
<1>2. UNCHANGED <<order, batchOrder, candidate, dirs, foldVars, cursor, finished>>
  BY DEF StartTestCase
<1>3. JobsInv' /\ PendingInv'
  BY <1>1, <1>2 DEF Parts, JobsInv, PendingInv, Pending, Ended
<1>4. CandidateInv' /\ FoldInv'
  BY <1>1, <1>2 DEF Parts, CandidateInv, FoldInv, foldVars, Ended
<1>5. CASE UNCHANGED <<ctxVars, jobs, lastRestart, queue, successes, pc>>
  BY <1>1, <1>2, <1>3, <1>4, <1>5, FrameParts
     DEF watched, ctxVars, counts, health, foldVars, PC
<1>6. CASE ~UNCHANGED <<ctxVars, jobs, lastRestart, queue, successes, pc>>
  <2>1. PICK on \in {Passes, SupportsDir} : FreshContexts(on)
    BY <1>6 DEF StartTestCase
  <2>2. queue' = <<>>
    BY <1>6 DEF StartTestCase
  <2>3. order \in Nat \ {0}
    BY DEF TypeOK
  <2>4. ContextsInv' /\ DirsInv'
    BY <1>1, <1>2, <2>1, <2>3 DEF FreshContexts, ContextsInv, DirsInv
  <2>5. QueueInv'
    BY <2>2 DEF QueueInv
  <2> QED BY <1>3, <1>4, <2>4, <2>5 DEF Parts
<1> QED BY <1>5, <1>6

LEMMA FinishRunParts == ASSUME TypeOK, Parts, FinishRun PROVE Parts'
<1>1. pc = "next" /\ pc' = "finished" /\ jobs = {} /\ jobs' = {} /\ candidate' = NoCandidate
  BY DEF FinishRun, Parts, JobsInv
<1> QED BY <1>1 DEF FinishRun, Parts, JobsInv, PendingInv, Pending, ContextsInv, QueueInv, CandidateInv,
                    FoldInv, DirsInv, foldVars, loopVars, Ended

LEMMA InterruptParts == ASSUME TypeOK, Parts, Interrupt PROVE Parts'
<1>1. pc \in {"loop", "wait"} /\ pc' = "exited" /\ jobs' = {} /\ candidate' = NoCandidate
  BY DEF Interrupt
<1> QED BY <1>1 DEF Interrupt, Parts, JobsInv, PendingInv, Pending, ContextsInv, QueueInv, CandidateInv,
                    FoldInv, DirsInv, foldVars, loopVars, Ended

LEMMA StartBatchParts == ASSUME TypeOK, Parts, StartBatch PROVE Parts'
<1>1. /\ pc = "round" /\ pc' = "loop" /\ jobs = {} /\ jobs' = {}
      /\ candidate = NoCandidate /\ candidate' = NoCandidate
      /\ batchOrder' = order /\ order' = order /\ order \in Nat
  BY DEF StartBatch, Parts, JobsInv, CandidateInv, TypeOK
<1>2. /\ UNCHANGED <<enabled, root, state, health, paths, dirs, cursor, finished>>
      /\ running' = [p \in Passes |-> {}]
      /\ stage' = [p \in Passes |-> IF stage[p] = "in_init" THEN "before_init" ELSE stage[p]]
  BY DEF StartBatch
<1>3. JobsInv' /\ PendingInv' /\ CandidateInv'
  BY <1>1, <1>2 DEF Parts, JobsInv, PendingInv, Pending, CandidateInv, Ended
<1>4. FoldInv'
  BY <1>1 DEF StartBatch, Parts, FoldInv, foldVars
<1>5. \A p \in Passes : stage'[p] = "enumerating" => stage[p] = "enumerating"
  BY <1>2
<1>6. ContextsInv' /\ DirsInv'
  BY <1>1, <1>2, <1>5 DEF Parts, ContextsInv, DirsInv, FeedsNone, Feeds, Usable, health, Ended
<1>7. QueueInv'
  <2>1. \A p \in Passes : root[p] < order
    BY <1>1 DEF Parts, ContextsInv, Ended
  <2>2. /\ \A i, k \in DOMAIN queue : queue[i] = queue[k] => i = k
        /\ \A i \in DOMAIN queue : stage[queue[i]] = "enumerating"
    BY <1>1 DEF Parts, QueueInv, Ended
  <2>3. queue \in Seq(Passes) /\ \A i \in DOMAIN queue : queue[i] \in Passes
    BY DEF TypeOK
  <2>4. CASE ~Interleaving
    BY <1>1, <1>2, <2>1, <2>2, <2>3, <2>4 DEF StartBatch, QueueInv
  <2>5. CASE Interleaving
    <3>1. PICK added \in InOrder(Restartable) : queue' = queue \o added
      BY <2>5 DEF StartBatch
    <3>2. Restartable \in SUBSET Passes
      BY DEF Restartable
    <3>3. /\ added \in Seq(Passes)
          /\ \A i \in DOMAIN added : added[i] \in Restartable
          /\ \A i, k \in DOMAIN added : added[i] = added[k] => i = k
      BY <3>2, InOrderType
    <3>4. \A p \in Restartable : stage[p] = "enumerating" /\ \A i \in DOMAIN queue : queue[i] # p
      BY DEF Restartable, CanScheduleForRestart
    <3>5. /\ DOMAIN queue' = 1..(Len(queue) + Len(added))
          /\ \A i \in DOMAIN queue' :
                queue'[i] = IF i <= Len(queue) THEN queue[i] ELSE added[i - Len(queue)]
      BY <2>3, <3>1, <3>3
    <3>6. \A i \in DOMAIN queue' :
             \/ i \in DOMAIN queue /\ queue'[i] = queue[i]
             \/ i \notin DOMAIN queue /\ i - Len(queue) \in DOMAIN added
                /\ queue'[i] = added[i - Len(queue)]
      BY <2>3, <3>3, <3>5
    <3>7. \A i, k \in DOMAIN queue' : queue'[i] = queue'[k] => i = k
      BY <2>2, <2>3, <3>3, <3>4, <3>5, <3>6
    <3>8. \A i \in DOMAIN queue' : queue'[i] \in Passes /\ stage[queue'[i]] = "enumerating"
      BY <2>2, <2>3, <3>3, <3>4, <3>6
    <3> QED BY <1>1, <1>2, <2>1, <3>7, <3>8 DEF QueueInv
  <2> QED BY <2>4, <2>5
<1> QED BY <1>3, <1>4, <1>6, <1>7 DEF Parts

-----------------------------------------------------------------------------
(* Starting jobs *)

\* A pass initialized in an earlier batch feeds no pass in use; therefore the
\* bundles that an init job is given are of this batch.
LEMMA SourcesAreCurrent ==
  ASSUME TypeOK, Parts, pc \notin {"round"} \cup Ended, NEW p \in Passes, Usable(p)
  PROVE  InitJob(p).reads \subseteq CurrentRoots
<1> SUFFICES ASSUME NEW q \in HintBased, stage[q] = "enumerating", paths[q] \cap Inputs[p] # {},
                    q # p
             PROVE  Current(q)
  BY SchedulerAssumption DEF InitJob, CurrentRoots
<1>1. q \in Passes
  BY SchedulerAssumption
<1>2. PICK t \in paths[q] \cap Inputs[p] : TRUE
  OBVIOUS
<1>3. p \in HintBased /\ t # Untyped
  BY <1>2, SchedulerAssumption
<1>4. t \in Outputs[q]
  BY <1>1, <1>2, <1>3 DEF Parts, ContextsInv
<1>5. Feeds(q, p)
  BY <1>2, <1>3, <1>4 DEF Feeds
<1>6. ~(root[q] < batchOrder)
  BY <1>1, <1>5 DEF Parts, ContextsInv, FeedsNone
<1>7. root[q] \in Nat /\ batchOrder \in Nat
  BY <1>1 DEF TypeOK
<1> QED BY <1>6, <1>7 DEF Current

\* Starting the initialization of a pass that is not of this batch and has no
\* init job running keeps everything but, perhaps, the queue.
LEMMA ScheduleInitParts ==
  ASSUME TypeOK, Parts, NEW p \in Passes, ScheduleInit(p), Usable(p),
         ~Current(p), stage[p] # "in_init",
         pc \in {"schedule"}, pc' = pc,
         UNCHANGED <<batchOrder, candidate, foldVars, loopVars>>
  PROVE  JobsInv' /\ PendingInv' /\ ContextsInv' /\ CandidateInv' /\ FoldInv' /\ DirsInv'
<1> DEFINE new == InitJob(p)
<1>1. /\ new.order = order /\ new.folder = order /\ new.kind = "init" /\ new.pass = p /\ new.subs = {}
      /\ new.reads \subseteq CurrentRoots
  BY SourcesAreCurrent DEF InitJob, Ended
<1>2. /\ jobs' = jobs \cup {new} /\ order' = order + 1 /\ dirs' = dirs \cup {JobDir(order)}
      /\ stage' = [stage EXCEPT ![p] = "in_init"]
      /\ UNCHANGED <<enabled, root, state, running, defunct, timeouts, paths>>
  BY DEF ScheduleInit, health
<1> HIDE DEF new
<1>3. order \in Nat \ {0} /\ batchOrder \in Nat /\ jobs \subseteq Job /\ p # 0
  <2>1. p # 0
    BY SchedulerAssumption DEF Passes
  <2> QED BY <2>1 DEF TypeOK
<1>4. finished = {} /\ cursor = 0 /\ finished' = {} /\ cursor' = 0
  BY DEF Parts, JobsInv, loopVars
<1>5. \A q \in Passes : Current(q)' <=> Current(q)
  BY <1>2 DEF Current, TypeOK
<1>6. CurrentRoots' = CurrentRoots
  BY <1>2, <1>5 DEF CurrentRoots
<1>7. JobsInv'
  <2>1. \A j \in jobs : j.order \in Nat /\ j.order < order
    BY <1>3 DEF Parts, JobsInv, Job
  <2> QED BY <1>1, <1>2, <1>3, <1>4, <2>1 DEF Parts, JobsInv, Ended
<1>8. PendingInv'
  <2>1. Pending = jobs /\ Pending' = jobs \cup {new}
    BY <1>2, <1>4 DEF Pending
  <2>2. \A j \in jobs : j.kind = "init" => stage[j.pass] = "in_init" /\ j.pass # p
    BY <2>1 DEF Parts, PendingInv
  <2>3. \A j \in jobs : j.kind = "transform" => j.pass \in Passes
    BY JobFacts
  <2>4. ASSUME NEW j \in jobs \cup {new}
        PROVE  /\ j.folder = j.order
               /\ j.kind = "init" => stage'[j.pass] = "in_init"
               /\ j.kind = "transform" => Current(j.pass)' /\ j.state.root = root'[j.pass]
               /\ \A s \in j.subs : s.root \in CurrentRoots'
               /\ j.reads \subseteq CurrentRoots'
    <3>1. CASE j = new
      BY <1>1, <1>2, <1>6, <3>1 DEF TypeOK
    <3>2. CASE j \in jobs
      BY <1>2, <1>5, <1>6, <2>1, <2>2, <2>3, <3>2 DEF Parts, PendingInv, TypeOK
    <3> QED BY <3>1, <3>2
  <2>5. \A i, j \in jobs \cup {new} :
           i.kind = "init" /\ j.kind = "init" /\ i.pass = j.pass => i = j
    BY <1>1, <2>1, <2>2 DEF Parts, PendingInv
  <2> QED BY <2>1, <2>4, <2>5 DEF PendingInv
<1>9. ContextsInv'
  BY <1>2, <1>3, <1>5 DEF Parts, ContextsInv, FeedsNone, Feeds, Usable, TypeOK, Ended
<1>10. CandidateInv'
  BY <1>2, <1>3, <1>5, CandidatePass DEF Parts, CandidateInv, Ended
<1>11. FoldInv'
  BY <1>6 DEF Parts, FoldInv, foldVars, Ended
<1>12. DirsInv'
  <2>1. \A q \in Passes : root[q] \in Nat /\ root[q] < order
    BY DEF Parts, ContextsInv, TypeOK, Ended
  <2> QED BY <1>1, <1>2, <1>3, <2>1 DEF Parts, DirsInv, Ended
<1> QED BY <1>7, <1>8, <1>9, <1>10, <1>11, <1>12

LEMMA InitPassParts == ASSUME TypeOK, Parts, InitPass PROVE Parts'
<1>1. PICK p \in Passes : CanInitNow(p, ReadyHintTypes) /\ ScheduleInit(p)
  BY DEF InitPass
<1>2. Usable(p) /\ stage[p] = "before_init"
  BY <1>1 DEF CanInitNow, CanInitFrom
<1>3. pc = "schedule" /\ pc' = pc /\ UNCHANGED <<batchOrder, queue, candidate, foldVars, loopVars>>
  BY DEF InitPass
<1>4. JobsInv' /\ PendingInv' /\ ContextsInv' /\ CandidateInv' /\ FoldInv' /\ DirsInv'
  BY <1>1, <1>2, <1>3, ScheduleInitParts DEF Current
<1>5. QueueInv'
  <2>1. stage' = [stage EXCEPT ![p] = "in_init"] /\ root' = root
    BY <1>1 DEF ScheduleInit
  <2>2. \A i \in DOMAIN queue : queue[i] \in Passes
    BY DEF TypeOK
  <2> QED BY <1>2, <1>3, <2>1, <2>2 DEF Parts, QueueInv, TypeOK, Ended
<1> QED BY <1>4, <1>5 DEF Parts

LEMMA RestartPassParts == ASSUME TypeOK, Parts, RestartPass PROVE Parts'
<1> DEFINE h == Head(queue)
<1>1. /\ queue \in Seq(Passes) /\ queue # <<>> /\ queue' = Tail(queue)
      /\ pc = "schedule" /\ UNCHANGED <<batchOrder, candidate, foldVars, loopVars>>
  BY DEF RestartPass, RestartDue, TypeOK
<1>2. h \in Passes /\ h = queue[1] /\ 1 \in DOMAIN queue
  BY <1>1
<1>3. /\ \A i, k \in DOMAIN queue : queue[i] = queue[k] => i = k
      /\ \A i \in DOMAIN queue :
            queue[i] \in Passes /\ stage[queue[i]] = "enumerating" /\ root[queue[i]] < batchOrder
  BY <1>1 DEF Parts, QueueInv, Ended
<1>4. \A i \in DOMAIN queue' : i + 1 \in DOMAIN queue /\ queue'[i] = queue[i + 1] /\ i + 1 # 1
  BY <1>1
<1>5. /\ \A i, k \in DOMAIN queue' : queue'[i] = queue'[k] => i = k
      /\ \A i \in DOMAIN queue' : queue'[i] \in Passes /\ queue'[i] # h
                                  /\ stage[queue'[i]] = "enumerating" /\ root[queue'[i]] < batchOrder
  <2>1. \A i \in DOMAIN queue' : i \in Nat
    BY <1>1
  <2> QED BY <1>2, <1>3, <1>4, <2>1
<1>6. stage[h] = "enumerating" /\ root[h] < batchOrder /\ ~Current(h)
  BY <1>2, <1>3 DEF Current, TypeOK
<1>7. CASE CanInitFrom(h, "before_init", ReadyHintTypes)
  <2>1. ScheduleInit(h) /\ Usable(h) /\ pc' = pc
    BY <1>7 DEF RestartPass, CanInitFrom
  <2>2. JobsInv' /\ PendingInv' /\ ContextsInv' /\ CandidateInv' /\ FoldInv' /\ DirsInv'
    BY <1>1, <1>2, <1>6, <2>1, ScheduleInitParts
  <2>3. stage' = [stage EXCEPT ![h] = "in_init"] /\ root' = root
    BY <2>1 DEF ScheduleInit
  <2>4. QueueInv'
    BY <1>1, <1>5, <2>3 DEF QueueInv, TypeOK
  <2> QED BY <2>2, <2>4 DEF Parts
<1>8. CASE ~CanInitFrom(h, "before_init", ReadyHintTypes)
  <2>1. /\ stage' = [stage EXCEPT ![h] = "before_init"] /\ pc' = "fill"
        /\ UNCHANGED <<enabled, root, state, running, defunct, paths, jobs, order, dirs>>
    BY <1>8 DEF RestartPass, health
  <2>2. \A q \in Passes : Current(q)' <=> Current(q)
    BY <1>1, <1>6, <2>1 DEF Current, TypeOK
  <2>3. CurrentRoots' = CurrentRoots
    BY <2>1, <2>2 DEF CurrentRoots
  <2>4. JobsInv'
    BY <1>1, <2>1 DEF Parts, JobsInv, loopVars, Ended
  <2>5. PendingInv'
    <3>1. Pending' = Pending /\ Pending \subseteq jobs
      BY <1>1, <2>1 DEF Pending, loopVars
    <3>2. ASSUME NEW j \in Pending
          PROVE  /\ j.kind = "init" => stage[j.pass] = "in_init" /\ j.pass # h
                 /\ j.kind = "transform" => j.pass \in Passes
      <4>1. j.kind = "transform" => j.pass \in Passes
        BY <3>1, JobFacts
      <4> QED BY <1>6, <4>1 DEF Parts, PendingInv
    <3> QED BY <1>2, <2>1, <2>2, <2>3, <3>1, <3>2 DEF Parts, PendingInv, TypeOK
  <2>6. ContextsInv' /\ DirsInv'
    <3>1. \A q \in Passes : stage'[q] = "enumerating" => stage[q] = "enumerating"
      BY <2>1 DEF TypeOK
    <3>2. \A q \in Passes : FeedsNone(q)' <=> FeedsNone(q)
      BY <2>1 DEF FeedsNone, Feeds, Usable
    <3>3. ContextsInv'
      BY <1>1, <2>1, <2>2, <3>1, <3>2 DEF Parts, ContextsInv, Ended
    <3>4. DirsInv'
      BY <1>1, <2>1 DEF Parts, DirsInv, Ended
    <3> QED BY <3>3, <3>4
  <2>7. QueueInv'
    BY <1>1, <1>5, <2>1 DEF QueueInv, TypeOK
  <2>8. CandidateInv' /\ FoldInv'
    BY <1>1, <2>1, <2>2, <2>3, CandidatePass DEF Parts, CandidateInv, FoldInv, foldVars, Ended
  <2> QED BY <2>4, <2>5, <2>6, <2>7, <2>8 DEF Parts
<1> QED BY <1>7, <1>8

\* The states of a fold were made in this batch.
LEMMA FoldSuccessesParts == ASSUME TypeOK, Parts, FoldSuccesses PROVE Parts'
<1>1. PICK f \in PossibleFolds : jobs' = jobs \cup {FoldJob(f)}
  BY DEF FoldSuccesses, ScheduleFold
<1> DEFINE new == FoldJob(f)
<1>2. /\ new.order = order /\ new.folder = order /\ new.kind = "fold" /\ new.pass = 0
      /\ new.subs = Range(f) /\ new.reads = {}
  BY DEF FoldJob
<1>3. /\ pc = "fill" /\ pc' = "schedule" /\ order' = order + 1 /\ dirs' = dirs \cup {JobDir(order)}
      /\ UNCHANGED <<ctxVars, batchOrder, queue, candidate, foldCandidates, loopVars>>
  BY DEF FoldSuccesses, ScheduleFold
<1>4. \A s \in Range(f) : s.root \in CurrentRoots
  BY <1>3, PossibleFoldsType DEF Parts, FoldInv, Ended
<1> HIDE DEF new
<1>5. order \in Nat \ {0} /\ batchOrder \in Nat
  BY DEF TypeOK
<1>6. finished = {} /\ cursor = 0 /\ finished' = {} /\ cursor' = 0
  BY <1>3 DEF Parts, JobsInv, loopVars
<1>7. UNCHANGED <<stage, enabled, defunct, root, state, running, paths>>
  BY <1>3 DEF ctxVars, health
<1>8. CurrentRoots' = CurrentRoots /\ \A q \in Passes : Current(q)' <=> Current(q)
  BY <1>3, <1>7 DEF CurrentRoots, Current
<1>9. JobsInv'
  BY <1>1, <1>2, <1>3, <1>5, <1>6, JobFacts DEF Parts, JobsInv, Ended, new
<1>10. PendingInv'
  <2>1. Pending = jobs /\ Pending' = jobs \cup {new}
    BY <1>1, <1>6 DEF Pending, new
  <2>2. ASSUME NEW j \in jobs \cup {new}
        PROVE  /\ j.folder = j.order
               /\ j.kind = "init" => stage'[j.pass] = "in_init"
               /\ j.kind = "transform" => Current(j.pass)' /\ j.state.root = root'[j.pass]
               /\ \A s \in j.subs : s.root \in CurrentRoots'
               /\ j.reads \subseteq CurrentRoots'
    <3>1. CASE j = new
      BY <1>2, <1>4, <1>8, <3>1
    <3>2. CASE j \in jobs
      BY <1>7, <1>8, <2>1, <3>2, JobFacts DEF Parts, PendingInv
    <3> QED BY <3>1, <3>2
  <2>3. \A i, j \in jobs \cup {new} :
           i.kind = "init" /\ j.kind = "init" /\ i.pass = j.pass => i = j
    BY <1>2, <2>1 DEF Parts, PendingInv
  <2> QED BY <2>1, <2>2, <2>3 DEF PendingInv
<1>11. ContextsInv' /\ QueueInv'
  <2>1. ContextsInv'
    BY <1>3, <1>5, <1>7 DEF Parts, ContextsInv, Current, FeedsNone, Feeds, Usable, TypeOK, Ended
  <2>2. QueueInv'
    BY <1>3, <1>5, <1>7 DEF Parts, QueueInv, Ended
  <2> QED BY <2>1, <2>2
<1>12. CandidateInv' /\ FoldInv'
  BY <1>3, <1>5, <1>8, CandidatePass DEF Parts, CandidateInv, FoldInv, Ended
<1>13. DirsInv'
  <2>1. \A q \in Passes : root[q] \in Nat /\ root[q] < order
    BY <1>3 DEF Parts, ContextsInv, TypeOK, Ended
  <2> QED BY <1>1, <1>2, <1>3, <1>5, <1>7, <2>1 DEF Parts, DirsInv, Ended, new
<1> QED BY <1>9, <1>10, <1>11, <1>12, <1>13 DEF Parts

\* Only passes of this batch are enumerated, in the directory they have.
LEMMA EnumeratedIsCurrent ==
  ASSUME TypeOK, Parts, pc \notin {"round"} \cup Ended, NEW p \in Passes,
         stage[p] = "enumerating", state[p] # NoState
  PROVE  Current(p) /\ state[p].root = root[p]
<1>1. root[p] \in Nat /\ batchOrder \in Nat
  BY DEF TypeOK
<1>2. ~(root[p] < batchOrder) /\ state[p].root = root[p]
  BY DEF Parts, ContextsInv
<1> QED BY <1>1, <1>2 DEF Current

\* Skipping states breaks nothing that is known of the contexts.
LEMMA SkippedFacts ==
  ASSUME TypeOK, Parts, pc \notin {"round"} \cup Ended
  PROVE  /\ Skipped \in [Passes -> State]
         /\ \A p \in Passes :
               /\ Skipped[p] # NoState => state[p] # NoState
               /\ Skipped[p] # NoState /\ stage[p] = "enumerating" =>
                     Current(p) /\ Skipped[p].root = root[p]
<1>1. Skipped \in [Passes -> State]
  BY SkippedType DEF TypeOK
<1>2. ASSUME NEW p \in Passes, Skipped[p] # NoState
      PROVE  state[p] # NoState /\ Skipped[p].root = state[p].root
  BY <1>2, SkippedType DEF TypeOK
<1> QED BY <1>1, <1>2, EnumeratedIsCurrent

LEMMA NothingToScheduleParts == ASSUME TypeOK, Parts, NothingToSchedule PROVE Parts'
<1>1. /\ pc = "fill" /\ pc' \in {"drain", "wait"} /\ state' = Skipped
      /\ UNCHANGED <<stage, enabled, root, running, health, paths, mgrVars, foldVars, loopVars>>
  BY DEF NothingToSchedule
<1>2. CurrentRoots' = CurrentRoots /\ \A q \in Passes : Current(q)' <=> Current(q)
  BY <1>1 DEF CurrentRoots, Current, mgrVars
<1>3. ASSUME NEW p \in Passes, stage[p] = "enumerating", Skipped[p] # NoState
      PROVE  Current(p) /\ Skipped[p].root = root[p]
  BY <1>1, <1>3, SkippedFacts DEF Ended
<1>4. JobsInv' /\ QueueInv' /\ DirsInv'
  BY <1>1 DEF Parts, JobsInv, QueueInv, DirsInv, mgrVars, loopVars, Ended
<1>5. PendingInv'
  BY <1>1, <1>2, JobFacts DEF Parts, PendingInv, Pending, mgrVars, loopVars
<1>6. CandidateInv' /\ FoldInv'
  BY <1>1, <1>2, CandidatePass DEF Parts, CandidateInv, FoldInv, mgrVars, foldVars, Ended
<1>7. ContextsInv'
  <2>1. \A p \in Passes : Current(p) => ~(root[p] < batchOrder)
    BY DEF Current, TypeOK
  <2> QED BY <1>1, <1>2, <1>3, <2>1 DEF Parts, ContextsInv, FeedsNone, Feeds, Usable, health, mgrVars, Ended
<1> QED BY <1>4, <1>5, <1>6, <1>7 DEF Parts

LEMMA TransformPassParts == ASSUME TypeOK, Parts, TransformPass PROVE Parts'
<1>1. PICK p \in Passes : CanTransformIn(p, Skipped) /\ ScheduleTransform(p)
  BY DEF TransformPass, NextInTurn
<1> DEFINE new == TransformJob(p)
           s == Skipped[p]
<1>2. /\ new.order = order /\ new.folder = order /\ new.kind = "transform" /\ new.pass = p
      /\ new.subs = {} /\ new.reads = {} /\ new.state = s
  BY DEF TransformJob
<1>3. /\ pc = "fill" /\ pc' = "schedule"
      /\ UNCHANGED <<batchOrder, queue, candidate, foldVars, loopVars>>
  BY DEF TransformPass
<1>4. /\ jobs' = jobs \cup {new} /\ order' = order + 1 /\ dirs' = dirs \cup {JobDir(order)}
      /\ running' = [running EXCEPT ![p] = @ \cup {[order |-> order, state |-> s]}]
      /\ state' = [Skipped EXCEPT ![p] = Advance(s)]
      /\ UNCHANGED <<stage, enabled, root, health, paths>>
  BY <1>1 DEF ScheduleTransform
<1>5. stage[p] = "enumerating" /\ s # NoState
  BY <1>1 DEF CanTransformIn
<1>6. Skipped \in [Passes -> State]
  BY <1>3, SkippedFacts DEF Ended
<1>7. ASSUME NEW q \in Passes, stage[q] = "enumerating", Skipped[q] # NoState
      PROVE  Current(q) /\ Skipped[q].root = root[q]
  BY <1>3, <1>7, SkippedFacts DEF Ended
<1>8. Current(p) /\ s.root = root[p] /\ s \in State
  BY <1>5, <1>6, <1>7
<1>9. Advance(s) \in State /\ (Advance(s) # NoState => Advance(s).root = root[p])
  BY <1>8, AdvanceType
<1> HIDE DEF new, s
<1>10. order \in Nat \ {0} /\ batchOrder \in Nat /\ p # 0
  BY SchedulerAssumption DEF TypeOK, Passes
<1>11. finished = {} /\ cursor = 0 /\ finished' = {} /\ cursor' = 0
  BY <1>3 DEF Parts, JobsInv, loopVars
<1>12. CurrentRoots' = CurrentRoots /\ \A q \in Passes : Current(q)' <=> Current(q)
  BY <1>3, <1>4 DEF CurrentRoots, Current
<1>13. JobsInv'
  BY <1>2, <1>3, <1>4, <1>10, <1>11, JobFacts DEF Parts, JobsInv, Ended
<1>14. PendingInv'
  <2>1. Pending = jobs /\ Pending' = jobs \cup {new}
    BY <1>4, <1>11 DEF Pending
  <2>2. ASSUME NEW j \in jobs \cup {new}
        PROVE  /\ j.folder = j.order
               /\ j.kind = "init" => stage'[j.pass] = "in_init"
               /\ j.kind = "transform" => Current(j.pass)' /\ j.state.root = root'[j.pass]
               /\ \A t \in j.subs : t.root \in CurrentRoots'
               /\ j.reads \subseteq CurrentRoots'
    <3>1. CASE j = new
      BY <1>2, <1>4, <1>8, <1>12, <3>1
    <3>2. CASE j \in jobs
      BY <1>4, <1>12, <2>1, <3>2, JobFacts DEF Parts, PendingInv
    <3> QED BY <3>1, <3>2
  <2>3. \A i, j \in jobs \cup {new} :
           i.kind = "init" /\ j.kind = "init" /\ i.pass = j.pass => i = j
    BY <1>2, <2>1 DEF Parts, PendingInv
  <2> QED BY <2>1, <2>2, <2>3 DEF PendingInv
<1>15. ContextsInv'
  <2>1. ASSUME NEW q \in Passes
        PROVE  /\ root'[q] < order' /\ paths'[q] \subseteq Outputs[q] \cup {Untyped}
               /\ \A r \in running'[q] : Current(q)' /\ r.state.root = root'[q]
    <3>1. root[q] \in Nat /\ root[q] < order /\ paths[q] \subseteq Outputs[q] \cup {Untyped}
      BY <1>3 DEF Parts, ContextsInv, TypeOK, Ended
    <3>2. \A r \in running[q] : Current(q) /\ r.state.root = root[q]
      BY <1>3 DEF Parts, ContextsInv, Ended
    <3>3. running'[q] \subseteq running[q] \cup (IF q = p THEN {[order |-> order, state |-> s]} ELSE {})
      BY <1>4 DEF TypeOK
    <3> QED BY <1>4, <1>8, <1>10, <1>12, <3>1, <3>2, <3>3
  <2>2. ASSUME NEW q \in Passes, stage'[q] = "enumerating"
        PROVE  /\ state'[q] # NoState => state'[q].root = root'[q]
               /\ root'[q] < batchOrder' => state'[q] = NoState /\ FeedsNone(q)'
    <3>1. stage[q] = "enumerating" /\ (root[q] < batchOrder => FeedsNone(q) /\ ~Current(q))
      BY <1>3, <1>4, <2>2 DEF Parts, ContextsInv, Current, TypeOK, Ended
    <3>2. FeedsNone(q)' <=> FeedsNone(q)
      BY <1>4 DEF FeedsNone, Feeds, Usable, health
    <3>3. state'[q] = IF q = p THEN Advance(s) ELSE Skipped[q]
      BY <1>4, <1>6
    <3> QED BY <1>3, <1>4, <1>7, <1>8, <1>9, <3>1, <3>2, <3>3
  <2> QED BY <1>3, <2>1, <2>2 DEF ContextsInv
<1>16. QueueInv' /\ CandidateInv' /\ FoldInv'
  BY <1>3, <1>4, <1>10, <1>12, CandidatePass
     DEF Parts, QueueInv, CandidateInv, FoldInv, foldVars, Ended
<1>17. DirsInv'
  <2>1. \A q \in Passes : root[q] \in Nat /\ root[q] < order
    BY <1>3 DEF Parts, ContextsInv, TypeOK, Ended
  <2> QED BY <1>2, <1>3, <1>4, <1>10, <2>1 DEF Parts, DirsInv, Ended
<1> QED BY <1>13, <1>14, <1>15, <1>16, <1>17 DEF Parts

-----------------------------------------------------------------------------
(* Handling results *)

\* The job that is looked at was pending, and is the only one with its order.
LEMMA SeenFacts ==
  ASSUME TypeOK, Parts, NEW j \in jobs, NextJob(j), pc = "handle"
  PROVE  /\ j \in Pending /\ j.folder = j.order
         /\ \A i \in jobs : i.order = j.order => i = j
         /\ \A o \in finished : o <= j.order
<1>1. j.order > cursor /\ \A o \in finished : o <= cursor
  BY DEF NextJob, Unseen, Parts, JobsInv
<1>2. j.order \in Nat /\ cursor \in Nat /\ finished \subseteq Nat
  BY JobFacts DEF TypeOK
<1>3. j \in Pending
  BY <1>1, <1>2 DEF Pending
<1> QED BY <1>1, <1>2, <1>3 DEF Parts, JobsInv, PendingInv

\* Looking at a job and keeping it in the list.
LEMMA SeenParts ==
  ASSUME TypeOK, Parts, NEW j \in jobs, Seen(j), pc' \in {"handle", "crashed"},
         UNCHANGED <<order, batchOrder, jobs>>
  PROVE  /\ JobsInv' /\ pc = "handle" /\ j \in Pending /\ Pending' = Pending \ {j}
         /\ j.folder = j.order
<1>1. pc = "handle" /\ NextJob(j) /\ cursor' = j.order /\ finished' = finished \cup {j.order}
  BY DEF Seen
<1>2. /\ j \in Pending /\ \A i \in jobs : i.order = j.order => i = j
      /\ \A o \in finished : o <= j.order
      /\ j.order \in Nat /\ j.folder = j.order
  BY <1>1, SeenFacts, JobFacts
<1>3. Pending' = Pending \ {j}
  BY <1>1, <1>2 DEF Pending
<1>4. JobsInv'
  BY <1>1, <1>2 DEF Parts, JobsInv, Ended
<1> QED BY <1>1, <1>2, <1>3, <1>4

\* What every handler but that of an init job does to the contexts: it forgets
\* that a transformation is running, ends an enumeration or gives up a pass.
LEMMA HandledParts ==
  ASSUME TypeOK, Parts, NEW j \in jobs, Seen(j), pc' \in {"handle", "crashed"},
         UNCHANGED <<order, batchOrder, jobs, stage, enabled, root, paths, queue>>,
         \A p \in Passes : /\ running'[p] \subseteq running[p]
                           /\ state'[p] \in {state[p], NoState}
                           /\ defunct[p] => defunct'[p],
         \A o \in Nat : JobDir(o) \in dirs => JobDir(o) \in dirs',
         CandidateInv', FoldInv'
  PROVE  Parts'
<1>1. JobsInv' /\ pc = "handle" /\ Pending' = Pending \ {j}
  BY SeenParts
<1>2. CurrentRoots' = CurrentRoots /\ \A q \in Passes : Current(q)' <=> Current(q)
  BY DEF CurrentRoots, Current
<1>3. \A i \in Pending : i.kind = "transform" => i.pass \in Passes
  BY JobFacts DEF Pending
<1>4. PendingInv'
  BY <1>1, <1>2, <1>3 DEF Parts, PendingInv
<1>5. \A p \in Passes : FeedsNone(p) => FeedsNone(p)'
  BY DEF FeedsNone, Feeds, Usable
<1>6. ContextsInv'
  BY <1>1, <1>2, <1>5 DEF Parts, ContextsInv, Ended
<1>7. QueueInv'
  BY <1>1 DEF Parts, QueueInv, Ended
<1>8. DirsInv'
  <2>1. \A p \in Passes : root[p] \in Nat
    BY DEF TypeOK
  <2>2. \A i \in jobs : i.folder \in Nat
    BY DEF TypeOK, Job
  <2> QED BY <1>1, <2>1, <2>2 DEF Parts, DirsInv, Ended
<1> QED BY <1>1, <1>4, <1>6, <1>7, <1>8 DEF Parts

\* Handlers that leave the candidate, the folds and the directories alone.
LEMMA HandledFrame ==
  ASSUME TypeOK, Parts, NEW j \in jobs, Seen(j), pc' \in {"handle", "crashed"},
         UNCHANGED <<stage, enabled, root, paths, mgrVars, foldCandidates>>,
         \A p \in Passes : /\ running'[p] \subseteq running[p]
                           /\ state'[p] \in {state[p], NoState}
                           /\ defunct[p] => defunct'[p]
  PROVE  Parts'
<1>1. pc = "handle"
  BY DEF Seen
<1>2. CurrentRoots' = CurrentRoots /\ \A q \in Passes : Current(q)' <=> Current(q)
  BY DEF CurrentRoots, Current, mgrVars
<1>3. CandidateInv' /\ FoldInv'
  BY <1>1, <1>2, CandidatePass DEF Parts, CandidateInv, FoldInv, mgrVars, Ended
<1> QED BY <1>3, HandledParts DEF mgrVars

LEMMA PoppedSubset ==
  ASSUME TypeOK, NEW j \in jobs, NEW p \in Passes
  PROVE  Popped(j)[p] \subseteq running[p]
BY DEF Popped, TypeOK

LEMMA HandleTimeoutParts ==
  ASSUME TypeOK, Parts, NEW j \in jobs, HandleTimeout(j) PROVE Parts'
<1>1. Seen(j) /\ UNCHANGED <<mgrVars, foldVars, pc>> /\ pc = "handle"
  BY DEF HandleTimeout, Seen
<1>2. UNCHANGED <<stage, enabled, root, state, paths>>
  BY DEF HandleTimeout, ctxVars
<1>3. \A p \in Passes : running'[p] \subseteq running[p]
  BY PoppedSubset DEF HandleTimeout, ctxVars
<1>4. \A p \in Passes : defunct[p] => defunct'[p]
  <2>1. CASE j.pass = 0
    BY <2>1 DEF HandleTimeout, ctxVars, health
  <2>2. CASE j.pass # 0
    <3>1. defunct' = [defunct EXCEPT ![j.pass] = @ \/ timeouts'[j.pass] >= MaxTimeouts]
      BY <2>2 DEF HandleTimeout
    <3> QED BY <3>1, Zenon DEF TypeOK
  <2> QED BY <2>1, <2>2
<1> QED BY <1>1, <1>2, <1>3, <1>4, HandledFrame DEF foldVars

LEMMA HandleStopParts ==
  ASSUME TypeOK, Parts, NEW j \in jobs, HandleStop(j) PROVE Parts'
<1>1. /\ Seen(j) /\ pc = "handle" /\ running' = Popped(j)
      /\ state' = [state EXCEPT ![j.pass] = NoState]
      /\ UNCHANGED <<stage, enabled, root, health, paths, mgrVars, foldVars, pc>>
  BY DEF HandleStop, Seen
<1>2. \A p \in Passes : state'[p] \in {state[p], NoState}
  BY <1>1 DEF TypeOK
<1> QED BY <1>1, <1>2, PoppedSubset, HandledFrame DEF foldVars, health

LEMMA HandleUselessParts ==
  ASSUME TypeOK, Parts, NEW j \in jobs, HandleUseless(j) PROVE Parts'
<1>1. /\ Seen(j) /\ pc = "handle" /\ running' = Popped(j) /\ foldCandidates' = foldCandidates
      /\ UNCHANGED <<stage, enabled, root, state, health, paths, mgrVars, pc>>
  BY DEF HandleUseless, Seen, Failed
<1> QED BY <1>1, PoppedSubset, HandledFrame DEF health

LEMMA HandleFailureParts ==
  ASSUME TypeOK, Parts, NEW j \in jobs, HandleFailure(j) PROVE Parts'
<1>1. /\ Seen(j) /\ pc = "handle" /\ running' = Popped(j) /\ foldCandidates' = foldCandidates
      /\ UNCHANGED <<stage, enabled, root, paths, mgrVars, pc>>
  BY DEF HandleFailure, Seen, Failed, foldVars
<1>2. ASSUME NEW p \in Passes
      PROVE  state'[p] \in {state[p], NoState} /\ (defunct[p] => defunct'[p])
  <2>1. CASE GivesUp(j)
    <3>1. /\ defunct' = [defunct EXCEPT ![j.pass] = TRUE]
          /\ state' = [state EXCEPT ![j.pass] = NoState]
      BY <2>1 DEF HandleFailure
    <3>2. state'[p] \in {state[p], NoState}
      BY <3>1 DEF TypeOK
    <3>3. defunct[p] => defunct'[p]
      BY <3>1, Zenon DEF TypeOK
    <3> QED BY <3>2, <3>3
  <2>2. CASE ~GivesUp(j)
    BY <2>2 DEF HandleFailure
  <2> QED BY <2>1, <2>2
<1> QED BY <1>1, <1>2, PoppedSubset, HandledFrame

LEMMA HandleInvalidFoldParts ==
  ASSUME TypeOK, Parts, NEW j \in jobs, HandleInvalidFold(j) PROVE Parts'
<1>1. Seen(j) /\ pc = "handle" /\ UNCHANGED <<ctxVars, mgrVars, foldVars, pc>>
  BY DEF HandleInvalidFold, Seen
<1> QED BY <1>1, HandledFrame DEF ctxVars, health, foldVars

LEMMA WorkerErrorParts ==
  ASSUME TypeOK, Parts, NEW j \in jobs, WorkerError(j) PROVE Parts'
<1>1. Seen(j) /\ pc' = "crashed" /\ UNCHANGED <<ctxVars, mgrVars, foldVars>>
  BY DEF WorkerError
<1> QED BY <1>1, HandledFrame DEF ctxVars, health, foldVars

\* A success of this batch becomes the candidate and a part of later folds.
LEMMA HandleSuccessParts ==
  ASSUME TypeOK, Parts, NEW j \in jobs, HandleSuccess(j) PROVE Parts'
<1> DEFINE hints == IF j.kind = "fold" THEN j.subs
                    ELSE IF j.pass \in HintBased THEN {j.state} ELSE {}
<1>1. /\ Seen(j) /\ pc = "handle" /\ pc' = "handle" /\ j.kind # "init" /\ running' = Popped(j)
      /\ foldCandidates' = IF Interleaving /\ j.kind = "transform"
                           THEN foldCandidates \cup hints ELSE foldCandidates
      /\ UNCHANGED <<stage, enabled, root, state, health, paths, jobs, order, batchOrder, queue>>
  BY DEF HandleSuccess, Seen
<1>2. PICK g \in Gains : UpdateCandidate([order |-> j.order, pass |-> j.pass, state |-> j.state,
                                         subs |-> hints, gain |-> g])
  BY DEF HandleSuccess
<1>3. j \in Pending /\ j.order \in Nat /\ batchOrder <= j.order /\ j.order < order
      /\ (j.kind # "fold" => j.pass \in Passes) /\ ((j.kind = "fold") = (j.pass = 0))
      /\ j.kind \in {"init", "transform", "fold"}
  BY <1>1, JobFacts, SeenParts DEF Parts, JobsInv, Job
<1>4. j.kind = "transform" => Current(j.pass) /\ j.state.root = root[j.pass]
  BY <1>3 DEF Parts, PendingInv
<1>5. CurrentRoots' = CurrentRoots /\ \A q \in Passes : Current(q)' <=> Current(q)
  BY <1>1 DEF CurrentRoots, Current
<1>6. FoldInv'
  <2>1. \A s \in foldCandidates : s.root \in CurrentRoots
    BY <1>1 DEF Parts, FoldInv, Ended
  <2>2. j.kind = "transform" => \A s \in hints : s.root \in CurrentRoots
    BY <1>3, <1>4 DEF CurrentRoots
  <2> HIDE DEF hints
  <2> QED BY <1>1, <1>5, <2>1, <2>2 DEF Parts, FoldInv
<1> HIDE DEF hints
<1>7. candidate' = candidate \/ (candidate'.order = j.order /\ candidate'.pass = j.pass)
  BY <1>2 DEF UpdateCandidate
<1>8. CandidateInv'
  BY <1>1, <1>3, <1>4, <1>5, <1>7, CandidatePass DEF Parts, CandidateInv, Ended
<1>9. \A o \in Nat : JobDir(o) \in dirs => JobDir(o) \in dirs'
  BY <1>2 DEF UpdateCandidate, CandidateDirs, JobDir, BestDir
<1> QED BY <1>1, <1>6, <1>8, <1>9, PoppedSubset, HandledParts DEF health

\* The job's directory becomes its pass' one, and the pass one of this batch.
LEMMA HandleInitParts ==
  ASSUME TypeOK, Parts, NEW j \in jobs, HandleInit(j) PROVE Parts'
<1> DEFINE p == j.pass
           kept == [j EXCEPT !.folder = 0]
<1>1. /\ Seen(j) /\ NextJob(j) /\ pc = "handle" /\ pc' = "handle" /\ j.kind = "init"
      /\ cursor' = j.order /\ finished' = finished \cup {j.order}
      /\ stage' = [stage EXCEPT ![p] = "enumerating"]
      /\ root' = [root EXCEPT ![p] = j.folder]
      /\ dirs' = dirs \ (IF root[p] = 0 THEN {} ELSE {JobDir(root[p])})
      /\ jobs' = (jobs \ {j}) \cup {kept}
      /\ UNCHANGED <<enabled, running, health, order, batchOrder, queue, candidate, foldVars>>
  BY DEF HandleInit, Seen
<1>2. PICK r \in InitResults(j) : /\ state' = [state EXCEPT ![p] = r.state]
                                  /\ paths' = [paths EXCEPT ![p] = r.paths]
  BY DEF HandleInit
<1>3. /\ j \in Job /\ p \in Passes /\ j.order \in Nat \ {0}
      /\ batchOrder <= j.order /\ j.order < order
  <2>1. /\ j \in Job /\ j.order \in Nat /\ batchOrder <= j.order /\ j.order < order
        /\ j.kind # "fold" => j.pass \in Passes
    BY JobFacts
  <2>2. batchOrder \in Nat \ {0}
    BY DEF TypeOK
  <2> QED BY <1>1, <2>1, <2>2
<1>4. /\ j \in Pending /\ j.folder = j.order /\ \A i \in jobs : i.order = j.order => i = j
      /\ \A o \in finished : o <= j.order
  BY <1>1, SeenFacts
<1>5. stage[p] = "in_init" /\ ~Current(p)
  BY <1>1, <1>4 DEF Parts, PendingInv, Current
<1>6. /\ r.state # NoState => r.state.root = j.order
      /\ r.paths \subseteq Outputs[p] \cup {Untyped}
  BY <1>3, InitResultsType DEF TypeOK
<1>7. /\ kept.order = j.order /\ kept.folder = 0 /\ kept.kind = "init" /\ kept.pass = p
  BY <1>1, <1>3 DEF Job
<1>8. /\ stage \in [Passes -> {"before_init", "in_init", "enumerating"}]
      /\ root \in [Passes -> Nat] /\ state \in [Passes -> State] /\ paths \in [Passes -> SUBSET Types]
      /\ batchOrder \in Nat \ {0} /\ order \in Nat
  BY DEF TypeOK
<1> HIDE DEF p, kept
<1>9. /\ stage'[p] = "enumerating" /\ root'[p] = j.order /\ state'[p] = r.state
      /\ paths'[p] = r.paths
      /\ \A q \in Passes : q # p => /\ stage'[q] = stage[q] /\ root'[q] = root[q]
                                    /\ state'[q] = state[q] /\ paths'[q] = paths[q]
  BY <1>1, <1>2, <1>3, <1>4, <1>8
<1>10. Current(p)' /\ \A q \in Passes : q # p => (Current(q)' <=> Current(q))
  BY <1>1, <1>3, <1>8, <1>9 DEF Current
<1>11. CurrentRoots \subseteq CurrentRoots'
  BY <1>5, <1>9, <1>10 DEF CurrentRoots
<1>12. Pending' = Pending \ {j}
  BY <1>1, <1>4, <1>7 DEF Pending
<1>13. JobsInv'
  BY <1>1, <1>3, <1>4, <1>7 DEF Parts, JobsInv, Ended, p
<1>14. PendingInv'
  <2>1. ASSUME NEW i \in Pending \ {j}
        PROVE  /\ i.kind = "init" => i.pass # p /\ i.pass \in Passes
               /\ i.kind = "transform" => i.pass # p /\ i.pass \in Passes
    <3>1. i \in jobs /\ (i.kind \in {"init", "transform"} => i.pass \in Passes)
      BY JobFacts DEF Pending
    <3>2. i.kind = "init" => i.pass # p
      BY <1>1, <1>4, <2>1 DEF Parts, PendingInv, p
    <3>3. i.kind = "transform" => i.pass # p
      BY <1>5 DEF Parts, PendingInv
    <3> QED BY <3>1, <3>2, <3>3
  <2> QED BY <1>9, <1>10, <1>11, <1>12, <2>1 DEF Parts, PendingInv
<1>15. ContextsInv'
  <2>1. \A q \in Passes : FeedsNone(q)' <=> FeedsNone(q)
    BY <1>1 DEF FeedsNone, Feeds, Usable, health
  <2>2. ASSUME NEW q \in Passes
        PROVE  /\ root'[q] < order' /\ paths'[q] \subseteq Outputs[q] \cup {Untyped}
               /\ \A t \in running'[q] : Current(q)' /\ t.state.root = root'[q]
               /\ stage'[q] = "enumerating" =>
                     /\ state'[q] # NoState => state'[q].root = root'[q]
                     /\ root'[q] < batchOrder' => state'[q] = NoState /\ FeedsNone(q)'
    <3>1. CASE q = p
      <4>1. running[p] = {}
        BY <1>1, <1>3, <1>5 DEF Parts, ContextsInv, Ended
      <4>2. ~(j.order < batchOrder)
        BY <1>3, <1>8
      <4> QED BY <1>1, <1>3, <1>6, <1>9, <3>1, <4>1, <4>2
    <3>2. CASE q # p
      BY <1>1, <1>9, <1>10, <2>1, <3>2 DEF Parts, ContextsInv, Ended
    <3> QED BY <3>1, <3>2
  <2> QED BY <1>1, <2>2 DEF ContextsInv
<1>16. QueueInv'
  <2>1. \A i \in DOMAIN queue : queue[i] \in Passes /\ queue[i] # p
    BY <1>1, <1>5 DEF Parts, QueueInv, TypeOK, Ended
  <2> QED BY <1>1, <1>9, <2>1 DEF Parts, QueueInv, Ended
<1>17. CandidateInv' /\ FoldInv'
  BY <1>1, <1>10, <1>11, CandidatePass DEF Parts, CandidateInv, FoldInv, foldVars, Ended
<1>18. DirsInv'
  <2>1. /\ \A q \in Passes : root[q] # 0 => JobDir(root[q]) \in dirs
        /\ \A q, t \in Passes : root[q] = root[t] /\ root[q] # 0 => q = t
        /\ \A i \in jobs : i.folder # 0 =>
              JobDir(i.folder) \in dirs /\ \A q \in Passes : root[q] # i.folder
    BY <1>1 DEF Parts, DirsInv, Ended
  <2>2. /\ j.folder # 0 /\ \A q \in Passes : root[q] # j.order
        /\ JobDir(j.order) \in dirs
    BY <1>3, <1>4, <2>1
  <2>3. ASSUME NEW o \in Nat, JobDir(o) \in dirs, o # root[p]
        PROVE  JobDir(o) \in dirs'
    BY <1>1, <2>3 DEF JobDir
  <2>4. \A q \in Passes : root'[q] # 0 => JobDir(root'[q]) \in dirs'
    <3> SUFFICES ASSUME NEW q \in Passes, root'[q] # 0 PROVE JobDir(root'[q]) \in dirs'
      OBVIOUS
    <3>1. CASE q = p
      BY <1>3, <1>9, <2>2, <2>3, <3>1
    <3>2. CASE q # p
      BY <1>3, <1>8, <1>9, <2>1, <2>3, <3>2
    <3> QED BY <3>1, <3>2
  <2>5. \A q, t \in Passes : root'[q] = root'[t] /\ root'[q] # 0 => q = t
    BY <1>9, <2>1, <2>2
  <2>6. ASSUME NEW i \in jobs', i.folder # 0
        PROVE  JobDir(i.folder) \in dirs' /\ \A q \in Passes : root'[q] # i.folder
    <3>1. i \in jobs /\ i # j /\ i.folder \in {0, i.order} /\ i.order # j.order
      BY <1>1, <1>4, <1>7, <2>6 DEF Parts, JobsInv
    <3>2. i.folder \in Nat /\ i.folder # j.order /\ i.folder # root[p]
      BY <1>3, <2>1, <2>6, <3>1, JobFacts
    <3> QED BY <1>9, <2>1, <2>3, <2>6, <3>1, <3>2
  <2> QED BY <2>4, <2>5, <2>6 DEF DirsInv
<1> QED BY <1>13, <1>14, <1>15, <1>16, <1>17, <1>18 DEF Parts

\* Releasing the jobs that were looked at leaves those that are pending.
LEMMA ReleaseFinishedParts == ASSUME TypeOK, Parts, ReleaseFinished PROVE Parts'
<1> DEFINE done == {j \in jobs : j.order \in finished}
<1>1. /\ pc = "handle" /\ jobs' = jobs \ done /\ dirs' = dirs \ FolderDirs(done)
      /\ cursor' = 0 /\ finished' = {} /\ pc' \in {"drain", "loop"}
      /\ UNCHANGED <<ctxVars, order, batchOrder, queue, candidate, foldVars>>
  BY DEF ReleaseFinished
<1>2. Pending' = Pending /\ jobs' = Pending
  BY <1>1 DEF Pending
<1>3. JobsInv'
  BY <1>1 DEF Parts, JobsInv, Ended
<1>4. CurrentRoots' = CurrentRoots /\ \A q \in Passes : Current(q)' <=> Current(q)
  BY <1>1 DEF CurrentRoots, Current, ctxVars
<1>5. PendingInv'
  BY <1>1, <1>2, <1>4, JobFacts DEF Parts, PendingInv, Pending, ctxVars
<1>6. ContextsInv' /\ QueueInv'
  BY <1>1, <1>4 DEF Parts, ContextsInv, QueueInv, FeedsNone, Feeds, Usable, ctxVars, health, Ended
<1>7. CandidateInv' /\ FoldInv'
  BY <1>1, <1>4, CandidatePass DEF Parts, CandidateInv, FoldInv, foldVars, Ended
<1>8. DirsInv'
  <2>1. /\ \A q \in Passes : root[q] # 0 => JobDir(root[q]) \in dirs
        /\ \A q, t \in Passes : root[q] = root[t] /\ root[q] # 0 => q = t
        /\ \A i \in jobs : i.folder # 0 =>
              JobDir(i.folder) \in dirs /\ \A q \in Passes : root[q] # i.folder
    BY <1>1 DEF Parts, DirsInv, Ended
  <2>2. ASSUME NEW o \in Nat, JobDir(o) \in dirs, \A i \in done : i.folder # 0 => i.folder # o
        PROVE  JobDir(o) \in dirs'
    BY <1>1, <2>2 DEF FolderDirs, JobDir
  <2>3. \A q \in Passes : root'[q] = root[q] /\ root[q] \in Nat
    BY <1>1 DEF ctxVars, TypeOK
  <2>4. \A q \in Passes : root[q] # 0 => JobDir(root[q]) \in dirs'
    <3> SUFFICES ASSUME NEW q \in Passes, root[q] # 0 PROVE JobDir(root[q]) \in dirs'
      OBVIOUS
    <3>1. \A i \in done : i.folder # 0 => i.folder # root[q]
      BY <2>1
    <3> QED BY <2>1, <2>2, <2>3, <3>1
  <2>5. \A i \in Pending : i.folder # 0 => JobDir(i.folder) \in dirs'
    <3> SUFFICES ASSUME NEW i \in Pending, i.folder # 0 PROVE JobDir(i.folder) \in dirs'
      OBVIOUS
    <3>1. i \in jobs /\ i.folder = i.order /\ i.order \in Nat /\ i \notin done
      BY JobFacts DEF Parts, PendingInv, Pending
    <3>2. \A k \in done : k.folder # 0 => k.folder # i.folder
      BY <3>1 DEF Parts, JobsInv
    <3> HIDE DEF done
    <3> QED BY <2>1, <2>2, <3>1, <3>2
  <2>6. Pending \subseteq jobs
    BY DEF Pending
  <2> HIDE DEF done
  <2> QED BY <1>2, <2>1, <2>3, <2>4, <2>5, <2>6 DEF DirsInv
<1> QED BY <1>3, <1>5, <1>6, <1>7, <1>8 DEF Parts

-----------------------------------------------------------------------------
(* The end of a batch *)

LEMMA DrainJobsParts == ASSUME TypeOK, Parts, DrainJobs PROVE Parts'
<1>1. /\ pc = "drain" /\ jobs' = {} /\ dirs' = dirs \ FolderDirs(jobs)
      /\ pc' = IF candidate = NoCandidate THEN "next" ELSE "commit"
      /\ UNCHANGED <<ctxVars, order, batchOrder, queue, candidate, foldVars, loopVars>>
  BY DEF DrainJobs
<1>2. JobsInv' /\ PendingInv'
  BY <1>1 DEF Parts, JobsInv, PendingInv, Pending, loopVars, Ended
<1>3. CurrentRoots' = CurrentRoots /\ \A q \in Passes : Current(q)' <=> Current(q)
  BY <1>1 DEF CurrentRoots, Current, ctxVars
<1>4. ContextsInv' /\ QueueInv'
  BY <1>1, <1>3 DEF Parts, ContextsInv, QueueInv, FeedsNone, Feeds, Usable, ctxVars, health, Ended
<1>5. CandidateInv' /\ FoldInv'
  BY <1>1, <1>3, CandidatePass DEF Parts, CandidateInv, FoldInv, foldVars, Ended
<1>6. DirsInv'
  BY <1>1 DEF Parts, DirsInv, FolderDirs, JobDir, ctxVars, Ended
<1> QED BY <1>2, <1>4, <1>5, <1>6 DEF Parts

\* A pass that is still initialized afterwards has nothing to enumerate and
\* feeds no pass in use; those in the restart queue remain initialized.
LEMMA ProcessResultParts == ASSUME TypeOK, Parts, ProcessResult PROVE Parts'
<1>1. /\ pc = "commit" /\ pc' \in {"next", "round"} /\ candidate' = NoCandidate
      /\ running' = [p \in Passes |-> {}] /\ dirs' = dirs \ CandidateDirs
      /\ state' = [p \in Passes |-> RewoundState(p)]
      /\ stage' = [p \in Passes |-> IF ShouldReinit(p, RewoundState(p)) THEN "before_init"
                                    ELSE stage[p]]
      /\ UNCHANGED <<enabled, root, health, paths, jobs, order, batchOrder, queue, foldVars,
                     cursor, finished>>
  BY DEF ProcessResult
<1>2. jobs = {} /\ jobs' = {}
  BY <1>1 DEF Parts, JobsInv
<1>3. JobsInv' /\ PendingInv' /\ CandidateInv'
  BY <1>1, <1>2 DEF Parts, JobsInv, PendingInv, Pending, CandidateInv, Ended
<1>4. FoldInv'
  BY <1>1 DEF Parts, FoldInv, foldVars
<1>5. \A p \in Passes : FeedsNone(p)' <=> FeedsNone(p)
  BY <1>1 DEF FeedsNone, Feeds, Usable, health
<1>6. ASSUME NEW p \in Passes, stage'[p] = "enumerating"
      PROVE  stage[p] = "enumerating" /\ state'[p] = NoState /\ FeedsNone(p)
  <2>1. stage[p] = "enumerating" /\ ~ShouldReinit(p, RewoundState(p)) /\ state'[p] = RewoundState(p)
    BY <1>1, <1>6
  <2> QED BY <2>1 DEF ShouldReinit, FeedsNone
<1>7. ContextsInv'
  BY <1>1, <1>5, <1>6 DEF Parts, ContextsInv, Ended
<1>8. QueueInv'
  <2>1. ASSUME NEW p \in Passes, stage[p] = "enumerating", root[p] < batchOrder
        PROVE  stage'[p] = "enumerating"
    <3>1. ~Current(p)
      BY <2>1 DEF Current, TypeOK
    <3>2. state[p] = NoState /\ FeedsNone(p) /\ running[p] = {}
      BY <1>1, <2>1, <3>1 DEF Parts, ContextsInv, Ended
    <3>3. candidate.pass # p
      <4>1. p # 0
        BY SchedulerAssumption DEF Passes
      <4> QED BY <3>1, <4>1 DEF Parts, CandidateInv, NoCandidate
    <3>4. RewoundState(p) = NoState
      BY <3>2, <3>3 DEF RewoundState
    <3>5. ~ShouldReinit(p, RewoundState(p))
      BY <3>2, <3>4 DEF ShouldReinit, FeedsNone
    <3> QED BY <1>1, <2>1, <3>5
  <2>2. \A i \in DOMAIN queue : queue[i] \in Passes
    BY DEF TypeOK
  <2> QED BY <1>1, <2>1, <2>2 DEF Parts, QueueInv, Ended
<1>9. DirsInv'
  BY <1>1, <1>2 DEF Parts, DirsInv, CandidateDirs, JobDir, BestDir, Ended
<1> QED BY <1>3, <1>4, <1>7, <1>8, <1>9 DEF Parts

-----------------------------------------------------------------------------
(* The invariant and what it implies *)

\* Steps of the main thread that IndInv does not see.
LEMMA QuietParts ==
  ASSUME TypeOK, Parts,
         \/ LeaveRound \/ TestLoop \/ AllWorkersBusy \/ NoInitNorRestart \/ ResultsArrive
         \/ Terminated \/ UNCHANGED vars
  PROVE  Parts'
<1>1. pc \in PC
  BY DEF TypeOK
<1>2. CASE LeaveRound
  BY <1>1, <1>2, FrameParts DEF LeaveRound, watched, ctxVars, health, mgrVars, foldVars, loopVars, PC, Ended
<1>3. CASE TestLoop
  BY <1>1, <1>3, FrameParts DEF TestLoop, watched, ctxVars, health, mgrVars, foldVars, loopVars, PC, Ended
<1>4. CASE AllWorkersBusy
  BY <1>1, <1>4, FrameParts DEF AllWorkersBusy, watched, ctxVars, health, mgrVars, foldVars, loopVars, PC, Ended
<1>5. CASE NoInitNorRestart
  BY <1>1, <1>5, FrameParts DEF NoInitNorRestart, watched, ctxVars, health, mgrVars, foldVars, loopVars, PC, Ended
<1>6. CASE ResultsArrive
  BY <1>1, <1>6, FrameParts DEF ResultsArrive, watched, ctxVars, health, mgrVars, foldVars, loopVars, PC, Ended
<1>7. CASE Terminated \/ UNCHANGED vars
  <2>1. UNCHANGED watched /\ pc' = pc
    BY <1>7 DEF Terminated, vars, watched, ctxVars, health, mgrVars, foldVars, loopVars
  <2> QED BY <1>1, <2>1, FrameParts
<1> QED BY <1>2, <1>3, <1>4, <1>5, <1>6, <1>7

\* A job that is still running is passed over.
LEMMA StillRunningParts ==
  ASSUME TypeOK, Parts, NEW j \in jobs, StillRunning(j) PROVE Parts'
<1>1. /\ pc = "handle" /\ pc' = "handle" /\ NextJob(j) /\ cursor' = j.order /\ finished' = finished
      /\ UNCHANGED <<ctxVars, mgrVars, foldVars>>
  BY DEF StillRunning
<1>2. \A o \in finished : o <= j.order
  BY <1>1, SeenFacts
<1>3. JobsInv'
  BY <1>1, <1>2 DEF Parts, JobsInv, mgrVars, Ended
<1>4. Pending' = Pending /\ CurrentRoots' = CurrentRoots /\ \A q \in Passes : Current(q)' <=> Current(q)
  BY <1>1 DEF Pending, CurrentRoots, Current, ctxVars, mgrVars
<1>5. PendingInv'
  BY <1>1, <1>4, JobFacts DEF Parts, PendingInv, Pending, ctxVars
<1>6. ContextsInv' /\ QueueInv' /\ DirsInv'
  BY <1>1, <1>4 DEF Parts, ContextsInv, QueueInv, DirsInv, FeedsNone, Feeds, Usable, ctxVars, health,
                    mgrVars, Ended
<1>7. CandidateInv' /\ FoldInv'
  BY <1>1, <1>4, CandidatePass DEF Parts, CandidateInv, FoldInv, mgrVars, foldVars, Ended
<1> QED BY <1>3, <1>5, <1>6, <1>7 DEF Parts

LEMMA HandleJobParts ==
  ASSUME TypeOK, Parts, NEW j \in jobs, HandleJob(j) PROVE Parts'
BY StillRunningParts, HandleTimeoutParts, HandleInitParts, HandleStopParts, HandleUselessParts,
   HandleFailureParts, HandleInvalidFoldParts, HandleSuccessParts, WorkerErrorParts DEF HandleJob

LEMMA StepParts == TypeOK /\ Parts /\ [Next]_vars => Parts'
<1> SUFFICES ASSUME TypeOK, Parts, [Next]_vars PROVE Parts'
  OBVIOUS
<1>1. CASE StartTestCase \/ FinishRun \/ StartBatch \/ Interrupt
  BY <1>1, StartTestCaseParts, FinishRunParts, StartBatchParts, InterruptParts
<1>2. CASE \/ LeaveRound \/ TestLoop \/ AllWorkersBusy \/ NoInitNorRestart \/ ResultsArrive
           \/ Terminated \/ UNCHANGED vars
  BY <1>2, QuietParts
<1>3. CASE InitPass \/ RestartPass \/ FoldSuccesses \/ TransformPass \/ NothingToSchedule
  BY <1>3, InitPassParts, RestartPassParts, FoldSuccessesParts, TransformPassParts, NothingToScheduleParts
<1>4. CASE ReleaseFinished \/ (\E j \in jobs : HandleJob(j)) \/ DrainJobs \/ ProcessResult
  BY <1>4, ReleaseFinishedParts, HandleJobParts, DrainJobsParts, ProcessResultParts
<1> QED BY <1>1, <1>2, <1>3, <1>4 DEF Next, Step

\* Everything in flight is of this batch, and of passes initialized in it; the
\* passes left from earlier batches are exhausted and feed no pass in use.
THEOREM IndInvInvariant == Spec => []IndInv
<1>1. Init => IndInv
  BY TypeInit, InitParts DEF IndInv, Parts
<1>2. IndInv /\ [Next]_vars => IndInv'
  BY TypeStep, StepParts DEF IndInv, Parts
<1> QED BY <1>1, <1>2, PTL DEF Spec

\* The passes' roots that are in use are those of this batch, and real.
LEMMA CurrentRootsFacts ==
  ASSUME IndInv, NEW o \in CurrentRoots
  PROVE  o \in Nat /\ o # 0 /\ o >= batchOrder /\ (pc \notin Ended => JobDir(o) \in dirs)
<1>1. PICK p \in Passes : Current(p) /\ root[p] = o
  BY DEF CurrentRoots
<1>2. root[p] \in Nat /\ batchOrder \in Nat \ {0} /\ root[p] >= batchOrder
  BY <1>1 DEF Current, IndInv, TypeOK
<1> QED BY <1>1, <1>2 DEF IndInv, DirsInv

\* run_parallel_tests and process_result never mix results about two versions
\* of the test case.
THEOREM WorkIsFresh == Spec => []FreshWork
<1>1. IndInv => FreshWork
  <2> SUFFICES ASSUME IndInv PROVE FreshWork
    OBVIOUS
  <2>1. TypeOK /\ Parts
    BY DEF IndInv, Parts
  <2>2. candidate # NoCandidate => candidate.order >= batchOrder
    BY <2>1, CandidatePass DEF Parts, CandidateInv, TypeOK
  <2>3. ASSUME NEW j \in Pending
        PROVE  /\ j.order >= batchOrder
               /\ j.kind = "transform" => j.state.root >= batchOrder
               /\ \A s \in j.subs : s.root >= batchOrder
               /\ \A d \in j.reads : d >= batchOrder
    <3>1. j.order \in Nat /\ batchOrder <= j.order /\ (j.kind = "transform" => j.pass \in Passes)
      BY <2>1, JobFacts DEF Pending
    <3>2. j.kind = "transform" => j.state.root \in CurrentRoots
      BY <2>1, <3>1 DEF Parts, PendingInv, CurrentRoots
    <3>3. (\A s \in j.subs : s.root \in CurrentRoots) /\ j.reads \subseteq CurrentRoots
      BY <2>1 DEF Parts, PendingInv
    <3>4. batchOrder \in Nat
      BY <2>1 DEF TypeOK
    <3> QED BY <3>1, <3>2, <3>3, <3>4, CurrentRootsFacts
  <2> QED BY <2>2, <2>3 DEF FreshWork
<1> QED BY <1>1, IndInvInvariant, PTL

\* handle_finished_init_job deletes no directory that a running job reads.
THEOREM InputsStayAlive == Spec => []InputsAlive
<1>1. IndInv => InputsAlive
  <2> SUFFICES ASSUME IndInv, NEW j \in Pending
               PROVE  /\ j.kind = "transform" => JobDir(j.state.root) \in dirs
                      /\ \A s \in j.subs : JobDir(s.root) \in dirs
                      /\ \A d \in j.reads : JobDir(d) \in dirs
    BY DEF InputsAlive
  <2>1. TypeOK /\ Parts
    BY DEF IndInv, Parts
  <2>2. j \in jobs /\ pc \notin Ended /\ (j.kind = "transform" => j.pass \in Passes)
    BY <2>1, JobFacts DEF Pending, Parts, JobsInv
  <2>3. j.kind = "transform" => j.state.root \in CurrentRoots
    BY <2>1, <2>2 DEF Parts, PendingInv, CurrentRoots
  <2>4. (\A s \in j.subs : s.root \in CurrentRoots) /\ j.reads \subseteq CurrentRoots
    BY <2>1 DEF Parts, PendingInv
  <2> QED BY <2>2, <2>3, <2>4, CurrentRootsFacts
<1> QED BY <1>1, IndInvInvariant, PTL

\* The assertions of maybe_schedule_job about the restart queue hold.
THEOREM QueueIsSound == Spec => []QueueSound
<1>1. IndInv => QueueSound
  <2> SUFFICES ASSUME IndInv, pc \notin Ended PROVE QueueSound
    BY DEF QueueSound
  <2>1. /\ \A i, k \in DOMAIN queue : queue[i] = queue[k] => i = k
        /\ \A i \in DOMAIN queue : /\ queue[i] \in Passes
                                   /\ stage[queue[i]] = "enumerating" /\ root[queue[i]] < batchOrder
    BY DEF IndInv, QueueInv, TypeOK
  <2>2. ASSUME NEW p \in Passes, stage[p] = "enumerating", root[p] < batchOrder
        PROVE  state[p] = NoState /\ running[p] = {} /\ candidate.pass # p
    <3>1. ~Current(p) /\ p # 0
      <4>1. root[p] \in Nat /\ batchOrder \in Nat
        BY DEF IndInv, TypeOK
      <4>2. p # 0
        BY SchedulerAssumption DEF Passes
      <4> QED BY <2>2, <4>1, <4>2 DEF Current
    <3>2. state[p] = NoState /\ running[p] = {}
      BY <2>2, <3>1 DEF IndInv, ContextsInv
    <3>3. candidate.pass # p
      BY <3>1 DEF IndInv, CandidateInv, NoCandidate
    <3> QED BY <3>2, <3>3
  <2> QED BY <2>1, <2>2 DEF QueueSound
<1> QED BY <1>1, IndInvInvariant, PTL
=============================================================================
