--------------------------- MODULE HintEnumeration ---------------------------
(***************************************************************************)
(* One hint-based pass at work on its own: HintState, which enumerates the  *)
(* hints of several types in turn (cvise/passes/hint_based.py), driven by   *)
(* the loop of run_parallel_tests, with its jobs in parallel, and rewound   *)
(* by process_result after each success (cvise/utils/testing.py).           *)
(*                                                                         *)
(* Scheduler knows a pass' enumeration as a row of positions.  Here they    *)
(* are ranges of hints, and hints keep their identity when a reduction      *)
(* removes others, so that one can say which hints have been tried.  Hint   *)
(* types are numbers, in the order in which they are sorted; hints are      *)
(* numbers in the order of sort_hints.  Special hints take no part.  A      *)
(* reduction makes no new hints.                                            *)
(***************************************************************************)
EXTENDS Enumeration, FiniteSets

CONSTANTS
    NumTypes,        \* number of hint types
    Hints,           \* Hints[t]: the hints of type t that new() generates
    Subsegment,      \* the types that SubsegmentState enumerates
    MinChunk, MaxChunk, \* its arguments
    ParallelTests,   \* parallel_tests
    Collateral       \* the types of which other hints may vanish in a reduction

HintTypes == 1..NumTypes

ASSUME HintAssumption ==
    /\ NumTypes \in Nat
    /\ Hints \in [HintTypes -> SUBSET Nat] /\ \A t \in HintTypes : IsFiniteSet(Hints[t])
    /\ Subsegment \subseteq HintTypes
    /\ MinChunk \in Nat \ {0} /\ MaxChunk \in Nat
    /\ ParallelTests \in Nat \ {0}
    /\ Collateral \subseteq HintTypes

VARIABLES
    left,      \* the hints of each type that the test case still has
    current,   \* ctx.state
    running,   \* running_transform_order_to_state
    order,     \* of the next job, counted from the beginning of the batch
    tried,     \* history: the hints some job tried to remove alone
    disturbed  \* history: the bisected types whose places shifted under the index

vars == <<left, current, running, order, tried, disturbed>>

\* per_type_states, NoEnum for the types it does not have, and the type that
\* ptr points to.
HintState == [enum : [HintTypes -> Enum], at : HintTypes]
NoHintState == [enum |-> [t \in HintTypes |-> NoEnum], at |-> 0]

Present(f) == {t \in HintTypes : f[t] # NoEnum}
Smallest(S) == CHOOSE t \in S : \A u \in S : t <= u

\* HintState.create: ptr is 0.
StateOf(f) ==
    IF Present(f) = {} THEN NoHintState ELSE [enum |-> f, at |-> Smallest(Present(f))]

\* The next type in the round, cyclically.
NextType(S, t) ==
    LET later == {u \in S : u > t} IN Smallest(IF later = {} THEN S ELSE later)

\* The functions that choose one element of choices[t] for each type.
Selections(choices) ==
    {f \in [HintTypes -> UNION {choices[t] : t \in HintTypes}] :
        \A t \in HintTypes : f[t] \in choices[t]}

End(t, e) == IF t \in Subsegment THEN SubsegmentEnd(e) ELSE BinaryEnd(e)

\* create_elementary_state
CreateElementary(t, n) ==
    IF t \in Subsegment THEN SubsegmentCreate(n, MinChunk, MaxChunk) ELSE {BinaryCreate(n)}

ElementaryAdvance(t, e) ==
    IF t \in Subsegment THEN SubsegmentAdvance(e) ELSE {BinaryAdvance(e)}

ElementaryOnSuccess(t, e, n) ==
    IF t \in Subsegment THEN SubsegmentAdvanceOnSuccess(e, n) ELSE {BinaryAdvanceOnSuccess(e, n)}

\* new_from_hints: a type without hints makes no bundle.
New(hints) ==
    LET n(t) == Cardinality(hints[t])
    IN  {StateOf(f) : f \in Selections([t \in HintTypes |->
            IF n(t) = 0 THEN {NoEnum} ELSE CreateElementary(t, n(t))])}

\* HintState.advance
Advance(s) ==
    {IF Present(f) = {} THEN NoHintState ELSE [enum |-> f, at |-> NextType(Present(f), s.at)] :
        f \in {[s.enum EXCEPT ![s.at] = e] : e \in ElementaryAdvance(s.at, s.enum[s.at])}}

\* HintState.advance_on_success
AdvanceOnSuccess(s, hints) ==
    LET n(t) == Cardinality(hints[t])
    IN  {StateOf(f) : f \in Selections([t \in HintTypes |->
            IF s.enum[t] = NoEnum \/ n(t) = 0 THEN {NoEnum}
            ELSE ElementaryOnSuccess(t, s.enum[t], n(t))])}

\* The number by which hint h of type t is known: a place in the list of those
\* that are left.
Place(t, h) == Cardinality({g \in left[t] : g < h})

\* The hints that transform() applies in state s.
Applied(s) ==
    LET e == s.enum[s.at]
    IN  {h \in left[s.at] : e.index <= Place(s.at, h) /\ Place(s.at, h) < End(s.at, e)}

TriedAlone(jobs) ==
    LET single == {j \in jobs : Cardinality(Applied(j.state)) = 1}
    IN  UNION {{<<j.state.at, h>> : h \in Applied(j.state)} : j \in single}

-----------------------------------------------------------------------------
Init ==
    /\ left = Hints
    /\ current \in New(Hints)
    /\ running = {} /\ order = 1 /\ tried = {} /\ disturbed = {}

\* schedule_transform
StartJob ==
    /\ current # NoHintState /\ Cardinality(running) < ParallelTests
    /\ running' = running \cup {[order |-> order, state |-> current]}
    /\ order' = order + 1
    /\ current' \in Advance(current)
    /\ UNCHANGED <<left, tried, disturbed>>

\* The loop waits when no worker is free, or nothing can be started.
Waits == running # {} /\ (current = NoHintState \/ Cardinality(running) >= ParallelTests)

\* process_done_futures, when nothing of what is done is a success
HandleFailures ==
    /\ Waits
    /\ \E done \in SUBSET running \ {{}} :
          /\ running' = running \ done
          /\ tried' = tried \cup TriedAlone(done)
    /\ UNCHANGED <<left, current, order, disturbed>>

\* process_result's rewinding; a faulty variant first.
NotRewound(unfinished, candidate) == candidate.state

RewoundState(unfinished, candidate) ==
    LET earliest == CHOOSE j \in unfinished : \A i \in unfinished : j.order <= i.order
    IN  IF unfinished = {} \/ candidate.order <= earliest.order THEN candidate.state
        ELSE earliest.state

\* A faulty variant: an unmodified variant is a success, too.
HintsAfterNoChange(s) == {left, [left EXCEPT ![s.at] = @ \ Applied(s)]}

\* What generate_hints may find once the hints of s have been removed.
Kept(s) == [left EXCEPT ![s.at] = @ \ Applied(s)]
HintsAfter(s) ==
    {f \in [HintTypes -> SUBSET UNION {left[t] : t \in HintTypes}] :
        \A t \in HintTypes :
            f[t] = Kept(s)[t] \/ (t \in Collateral /\ f[t] \subseteq Kept(s)[t])}

\* The bisected types that lost more than s cut, at places that state r, which the
\* pass goes on from, had passed one by one: its index stays, and hints move under it.
Disturbed(s, r, hints) ==
    {t \in HintTypes \ Subsegment :
        r.enum[t].chunk = 1 /\ \E h \in Kept(s)[t] \ hints[t] : Place(t, h) < r.enum[t].index}

\* Of the jobs that are done, some succeeded, and one of these is the best: the
\* batch ends with it, and the pass is re-initialized.
HandleSuccess ==
    /\ Waits
    /\ \E done \in SUBSET running : \E candidate \in done :
          LET rewound == RewoundState(running \ done, candidate)
          IN  /\ left' \in HintsAfter(candidate.state)
              /\ current' \in AdvanceOnSuccess(rewound, left')
              /\ tried' = tried \cup TriedAlone(done)
              /\ disturbed' = disturbed \cup Disturbed(candidate.state, rewound, left')
    /\ running' = {} /\ order' = 1

Finished == current = NoHintState /\ running = {}

Next == StartJob \/ HandleFailures \/ HandleSuccess \/ (Finished /\ UNCHANGED vars)

Spec == Init /\ [][Next]_vars

\* The main thread goes on while it can, and wait() returns (see Scheduler).
FairSpec == Spec /\ WF_vars(StartJob \/ HandleFailures \/ HandleSuccess)

-----------------------------------------------------------------------------
(* Properties *)

\* load_hints and load_and_apply_hints: whatever the results and their order,
\* the range a state is to apply is not empty and lies within the hints that the
\* test case has, so that no job fails load_hints' assertion and none is spent
\* on nothing.
RangeValid(s) ==
    LET e == s.enum[s.at]
    IN  s # NoHintState =>
           e.index < End(s.at, e) /\ End(s.at, e) <= Cardinality(left[s.at])

RangesValid == RangeValid(current) /\ \A j \in running : RangeValid(j.state)

\* SubsegmentState ("enumerates all ranges of hints") and the bisection down to
\* single hints: when the pass is through, each hint that is still there has
\* been tried alone - also those whose check was cancelled by another's success
\* ("If there's an earlier state whose check hasn't completed - rewind to this
\* state", process_result).
TriedWhenThrough(types) ==
    Finished => \A t \in types : \A h \in left[t] : <<t, h>> \in tried

EveryHintTriedAlone == TriedWhenThrough(HintTypes)

\* What is true of it: whatever hints vanish on the way, bisection passes over a hint
\* of a type only if hints of this type that it had passed vanish in the success of
\* another range.
EveryBisectedHintTriedAlone == TriedWhenThrough((HintTypes \ Subsegment) \ disturbed)

\* Every enumeration comes to an end, however often it is rewound.
EnumerationEnds == <>Finished

\* The inductive invariant behind RangesValid: each state in use was made for
\* the hints that the test case has, and each of its ranges lies within them.
Fits(t, e, n) == e.instances = n /\ e.index < End(t, e) /\ End(t, e) <= n

StateFits(s, hints) ==
    /\ s \in HintState
    /\ s.enum[s.at] # NoEnum
    /\ \A t \in HintTypes : s.enum[t] # NoEnum => Fits(t, s.enum[t], Cardinality(hints[t]))

HintsInv ==
    /\ left \in [HintTypes -> SUBSET Nat]
    /\ \A t \in HintTypes : IsFiniteSet(left[t])
    /\ order \in Nat
    /\ current = NoHintState \/ StateFits(current, left)
    /\ \A j \in running : j.order \in Nat /\ StateFits(j.state, left)

\* The inductive invariant behind EveryBisectedHintTriedAlone.  A bisection has
\* passed the hints before its index once it goes by single hints, and all when
\* it is at its end.
Passed(s, t) ==
    LET e == s.enum[t]
    IN  {h \in left[t] : e = NoEnum \/ (e.chunk = 1 /\ Place(t, h) < e.index)}

TriesAlone(j, t, h) == j.state.at = t /\ Applied(j.state) = {h}

\* As far as type t goes, state r is not before state s of the same batch.
NotBefore(s, r, t) ==
    LET d == s.enum[t]
        e == r.enum[t]
    IN  e # NoEnum =>
            d # NoEnum /\ (e.chunk < d.chunk \/ (e.chunk = d.chunk /\ d.index <= e.index))

\* What a state has passed was tried alone, or is being tried by an earlier job,
\* to which the pass goes back if this job is not waited for.
TriedInv ==
    \A t \in HintTypes \ Subsegment :
        /\ t \notin disturbed =>
              /\ \A h \in Passed(current, t) :
                    <<t, h>> \in tried \/ \E j \in running : TriesAlone(j, t, h)
              /\ \A j \in running : \A h \in Passed(j.state, t) :
                    <<t, h>> \in tried
                        \/ \E i \in running : i.order < j.order /\ TriesAlone(i, t, h)
        /\ \A j \in running : j.order < order /\ NotBefore(j.state, current, t)
        /\ \A i, j \in running : i.order < j.order => NotBefore(i.state, j.state, t)
=============================================================================
