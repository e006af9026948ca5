------------------------ MODULE HintEnumerationProofs ------------------------
(***************************************************************************)
(* Machine-checked proofs about HintEnumeration, for every number of hint   *)
(* types and hints, every mix of the two elementary enumerations, every     *)
(* number of workers, and reductions with or without collateral effects.    *)
(***************************************************************************)
EXTENDS HintEnumeration, FiniteSetTheorems, WellFoundedInduction, TLAPS

-----------------------------------------------------------------------------
(* The elementary enumerations *)

LEMMA NoEnumIsEnum == NoEnum \in Enum
BY DEF NoEnum, Enum

\* The fields of a SubsegmentState whose ranges fit.
Segment(e, n) ==
    e \in Enum /\ e.instances = n /\ e.chunk > 0 /\ e.index + e.chunk <= n

LEMMA SubsegmentFits ==
  ASSUME NEW t \in Subsegment, NEW n \in Nat, NEW e \in Enum
  PROVE  Fits(t, e, n) <=> Segment(e, n)
BY DEF Fits, End, SubsegmentEnd, Segment, Enum

\* The random start leaves room for a range.
LEMMA SubsegmentCreateFits ==
  ASSUME NEW n \in Nat, NEW c \in Nat \ {0}, NEW x \in Nat, NEW e \in SubsegmentCreate(n, c, x)
  PROVE  e = NoEnum \/ Segment(e, n)
<1>1. CASE c > n \/ c > x
  BY <1>1 DEF SubsegmentCreate
<1>2. CASE ~(c > n \/ c > x)
  <2>1. PICK s \in 0..(n - c) :
           e = [instances |-> n, chunk |-> c, index |-> s, start |-> s, maxChunk |-> x]
    BY <1>2 DEF SubsegmentCreate
  <2>2. s \in Nat /\ s + c <= n
    BY <1>2
  <2> QED BY <2>1, <2>2 DEF Segment, Enum
<1> QED BY <1>1, <1>2

LEMMA SubsegmentAdvanceFits ==
  ASSUME NEW n \in Nat, NEW e \in Enum, Segment(e, n), NEW d \in SubsegmentAdvance(e)
  PROVE  d = NoEnum \/ Segment(d, n)
<1> DEFINE wrapover == e.index + 1 + e.chunk > e.instances
           ends == e.index + 1 = e.start \/ (wrapover /\ e.start = 0)
<1>1. CASE ends
  <2>1. d \in SubsegmentCreate(n, e.chunk + 1, e.maxChunk)
    BY <1>1 DEF SubsegmentAdvance, Segment
  <2>2. e.chunk + 1 \in Nat \ {0} /\ e.maxChunk \in Nat
    BY DEF Enum
  <2> QED BY <2>1, <2>2, SubsegmentCreateFits
<1>2. CASE ~ends
  <2>1. d = [e EXCEPT !.index = IF wrapover THEN 0 ELSE @ + 1]
    BY <1>2 DEF SubsegmentAdvance
  <2> QED BY <2>1 DEF Segment, Enum
<1> QED BY <1>1, <1>2

LEMMA SubsegmentOnSuccessFits ==
  ASSUME NEW n \in Nat, NEW m \in Nat, NEW e \in Enum, Segment(e, n),
         NEW d \in SubsegmentAdvanceOnSuccess(e, m)
  PROVE  d = NoEnum \/ Segment(d, m)
<1> DEFINE wrapover == e.index + e.chunk > m
           ends == wrapover /\ (e.index < e.start \/ e.start = 0)
<1>1. CASE e.chunk > m
  BY <1>1 DEF SubsegmentAdvanceOnSuccess
<1>2. CASE ~(e.chunk > m) /\ ends
  <2>1. d \in SubsegmentCreate(m, e.chunk + 1, e.maxChunk)
    BY <1>2 DEF SubsegmentAdvanceOnSuccess
  <2>2. e.chunk + 1 \in Nat \ {0} /\ e.maxChunk \in Nat
    BY DEF Enum
  <2> QED BY <2>1, <2>2, SubsegmentCreateFits
<1>3. CASE ~(e.chunk > m) /\ ~ends
  <2>1. d = [e EXCEPT !.instances = m,
                      !.index = IF wrapover THEN 0 ELSE @,
                      !.start = IF @ + e.chunk > m THEN 0 ELSE @]
    BY <1>3 DEF SubsegmentAdvanceOnSuccess
  <2>2. d \in Enum
    BY <2>1 DEF Enum
  <2>3. d.instances = m /\ d.chunk = e.chunk /\ d.index = IF wrapover THEN 0 ELSE e.index
    BY <2>1 DEF Enum
  <2> QED BY <1>3, <2>2, <2>3 DEF Segment, Enum
<1> QED BY <1>1, <1>2, <1>3

\* The fields of a BinaryState.
Bisection(e, n) ==
    e \in Enum /\ e.instances = n /\ e.chunk > 0 /\ e.index < n

LEMMA BinaryFits ==
  ASSUME NEW t \in HintTypes \ Subsegment, NEW n \in Nat, NEW e \in Enum
  PROVE  Fits(t, e, n) <=> Bisection(e, n)
BY DEF Fits, End, BinaryEnd, Bisection, Enum

\* Halving a chunk never makes it 0 without ending the enumeration.
LEMMA BinaryAdvanceFits ==
  ASSUME NEW e \in Enum, e.instances > 0, e.chunk > 0
  PROVE  BinaryAdvance(e) = NoEnum \/ Bisection(BinaryAdvance(e), e.instances)
<1>1. CASE e.index + e.chunk < e.instances
  BY <1>1 DEF BinaryAdvance, Bisection, Enum
<1>2. CASE ~(e.index + e.chunk < e.instances) /\ e.chunk < 2
  BY <1>2 DEF BinaryAdvance
<1>3. CASE ~(e.index + e.chunk < e.instances) /\ ~(e.chunk < 2)
  <2> DEFINE half == e.chunk \div 2
  <2>1. BinaryAdvance(e) = [e EXCEPT !.chunk = half, !.index = 0]
    BY <1>3 DEF BinaryAdvance
  <2>2. half \in Nat /\ half > 0
    BY <1>3 DEF Enum
  <2> HIDE DEF half
  <2>3. ASSUME NEW d, d = [e EXCEPT !.chunk = half, !.index = 0]
        PROVE  Bisection(d, e.instances)
    BY <2>2, <2>3 DEF Bisection, Enum
  <2> QED BY <2>1, <2>3
<1> QED BY <1>1, <1>2, <1>3

LEMMA BinaryOnSuccessFits ==
  ASSUME NEW n \in Nat, NEW m \in Nat, m # 0, NEW e \in Enum, Bisection(e, n)
  PROVE  LET d == BinaryAdvanceOnSuccess(e, m) IN d = NoEnum \/ Bisection(d, m)
<1> DEFINE shrunk == [e EXCEPT !.instances = m]
<1>1. shrunk \in Enum /\ shrunk.instances = m /\ shrunk.chunk > 0 /\ shrunk.index = e.index
  BY DEF Bisection, Enum
<1>2. BinaryAdvanceOnSuccess(e, m) = IF e.index >= m THEN BinaryAdvance(shrunk) ELSE shrunk
  BY DEF BinaryAdvanceOnSuccess
<1> HIDE DEF shrunk
<1>3. CASE e.index >= m
  <2>1. BinaryAdvance(shrunk) = NoEnum \/ Bisection(BinaryAdvance(shrunk), m)
    BY <1>1, BinaryAdvanceFits
  <2> QED BY <1>2, <1>3, <2>1
<1>4. CASE ~(e.index >= m)
  BY <1>1, <1>2, <1>4 DEF Bisection, Enum
<1> QED BY <1>3, <1>4

\* create(): the first range lies within the hints.
LEMMA CreateFits ==
  ASSUME NEW t \in HintTypes, NEW n \in Nat, n # 0, NEW e \in CreateElementary(t, n)
  PROVE  e \in Enum /\ (e # NoEnum => Fits(t, e, n))
<1>1. CASE t \in Subsegment
  <2>1. e = NoEnum \/ Segment(e, n)
    BY <1>1, SubsegmentCreateFits, HintAssumption DEF CreateElementary
  <2> QED BY <1>1, <2>1, NoEnumIsEnum, SubsegmentFits DEF Segment
<1>2. CASE t \notin Subsegment
  <2>1. e = [NoEnum EXCEPT !.instances = n, !.chunk = n]
    BY <1>2 DEF CreateElementary, BinaryCreate
  <2>2. e = [instances |-> n, chunk |-> n, index |-> 0, start |-> 0, maxChunk |-> 0]
    BY <2>1 DEF NoEnum
  <2>3. Bisection(e, n)
    BY <2>2 DEF Bisection, Enum
  <2> QED BY <1>2, <2>3, BinaryFits DEF Bisection
<1> QED BY <1>1, <1>2

\* advance(): the next range lies within the same hints.
LEMMA AdvanceFits ==
  ASSUME NEW t \in HintTypes, NEW n \in Nat, NEW e \in Enum, Fits(t, e, n),
         NEW d \in ElementaryAdvance(t, e)
  PROVE  d \in Enum /\ (d # NoEnum => Fits(t, d, n))
<1>1. CASE t \in Subsegment
  <2>1. d = NoEnum \/ Segment(d, n)
    BY <1>1, SubsegmentFits, SubsegmentAdvanceFits DEF ElementaryAdvance
  <2> QED BY <1>1, <2>1, NoEnumIsEnum, SubsegmentFits DEF Segment
<1>2. CASE t \notin Subsegment
  <2>1. d = BinaryAdvance(e) /\ Bisection(e, n)
    BY <1>2, BinaryFits DEF ElementaryAdvance
  <2>2. d = NoEnum \/ Bisection(d, n)
    BY <2>1, BinaryAdvanceFits DEF Bisection, Enum
  <2> QED BY <1>2, <2>2, NoEnumIsEnum, BinaryFits DEF Bisection
<1> QED BY <1>1, <1>2

\* advance_on_success(): whatever the range was, the new one lies within the
\* hints that are left.
LEMMA OnSuccessFits ==
  ASSUME NEW t \in HintTypes, NEW n \in Nat, NEW m \in Nat, m # 0,
         NEW e \in Enum, Fits(t, e, n), NEW d \in ElementaryOnSuccess(t, e, m)
  PROVE  d \in Enum /\ (d # NoEnum => Fits(t, d, m))
<1>1. CASE t \in Subsegment
  <2>1. d = NoEnum \/ Segment(d, m)
    BY <1>1, SubsegmentFits, SubsegmentOnSuccessFits DEF ElementaryOnSuccess
  <2> QED BY <1>1, <2>1, NoEnumIsEnum, SubsegmentFits DEF Segment
<1>2. CASE t \notin Subsegment
  <2>1. d = BinaryAdvanceOnSuccess(e, m) /\ Bisection(e, n)
    BY <1>2, BinaryFits DEF ElementaryOnSuccess
  <2>2. d = NoEnum \/ Bisection(d, m)
    BY <2>1, BinaryOnSuccessFits
  <2> QED BY <1>2, <2>2, NoEnumIsEnum, BinaryFits DEF Bisection
<1> QED BY <1>1, <1>2

-----------------------------------------------------------------------------
(* HintState *)

LEMMA MinExists ==
  ASSUME NEW S \in SUBSET Nat, S # {}
  PROVE  \E m \in S : \A n \in S : m <= n
<1> DEFINE R == OpToRel(<, Nat)
<1>1. IsWellFoundedOn(R, Nat)
  BY NatLessThanWellFounded
<1>2. \E x \in S : \A y \in S : ~(<<y, x>> \in R)
  <2> HIDE DEF R
  <2> QED BY <1>1, WFMin
<1>3. \A x, y \in S : <<y, x>> \in R <=> y < x
  BY DEF OpToRel
<1> HIDE DEF R
<1>4. \E x \in S : \A y \in S : ~(y < x)
  BY <1>2, <1>3, Zenon
<1> QED BY <1>4, SMT

LEMMA SmallestIn ==
  ASSUME NEW S \in SUBSET HintTypes, S # {}
  PROVE  Smallest(S) \in S
<1>1. S \in SUBSET Nat
  BY HintAssumption DEF HintTypes
<1>2. \E m \in S : \A n \in S : m <= n
  BY <1>1, MinExists
<1> QED BY <1>2 DEF Smallest

\* The pointer of a state that is built or advanced is on a type that is left.
LEMMA StateOfFits ==
  ASSUME NEW f \in [HintTypes -> Enum], NEW hints,
         \A t \in HintTypes : f[t] # NoEnum => Fits(t, f[t], Cardinality(hints[t])),
         NEW at, Present(f) # {} => at \in Present(f)
  PROVE  Present(f) # {} => StateFits([enum |-> f, at |-> at], hints)
BY DEF StateFits, HintState, Present

\* What the code relies on when it takes a state's current sub-state.
LEMMA AdvanceKeepsFitting ==
  ASSUME NEW hints, \A t \in HintTypes : Cardinality(hints[t]) \in Nat,
         NEW s, StateFits(s, hints), NEW x \in Advance(s)
  PROVE  x = NoHintState \/ StateFits(x, hints)
<1>1. s.at \in HintTypes /\ s.enum \in [HintTypes -> Enum]
  BY DEF StateFits, HintState
<1>2. PICK e \in ElementaryAdvance(s.at, s.enum[s.at]) :
         LET f == [s.enum EXCEPT ![s.at] = e]
         IN  x = IF Present(f) = {} THEN NoHintState
                 ELSE [enum |-> f, at |-> NextType(Present(f), s.at)]
  BY DEF Advance
<1> DEFINE f == [s.enum EXCEPT ![s.at] = e]
<1>3. e \in Enum /\ (e # NoEnum => Fits(s.at, e, Cardinality(hints[s.at])))
  <2>1. Fits(s.at, s.enum[s.at], Cardinality(hints[s.at]))
    BY <1>1 DEF StateFits
  <2> QED BY <1>1, <2>1, AdvanceFits
<1>4. f \in [HintTypes -> Enum]
  BY <1>1, <1>3
<1>5. \A t \in HintTypes : f[t] # NoEnum => Fits(t, f[t], Cardinality(hints[t]))
  BY <1>1, <1>3 DEF StateFits
<1>6. x = IF Present(f) = {} THEN NoHintState
          ELSE [enum |-> f, at |-> NextType(Present(f), s.at)]
  BY <1>2
<1> HIDE DEF f
<1>7. Present(f) # {} => NextType(Present(f), s.at) \in Present(f)
  <2> DEFINE later == {u \in Present(f) : u > s.at}
  <2>1. Present(f) \in SUBSET HintTypes /\ later \in SUBSET HintTypes /\ later \subseteq Present(f)
    BY DEF Present
  <2>2. NextType(Present(f), s.at) = Smallest(IF later = {} THEN Present(f) ELSE later)
    BY DEF NextType
  <2> HIDE DEF later
  <2> QED BY <2>1, <2>2, SmallestIn
<1> QED BY <1>4, <1>5, <1>6, <1>7, StateOfFits

LEMMA SelectionsFit ==
  ASSUME NEW choices, NEW hints,
         \A t \in HintTypes : \A e \in choices[t] :
            e \in Enum /\ (e # NoEnum => Fits(t, e, Cardinality(hints[t]))),
         NEW f \in Selections(choices)
  PROVE  StateOf(f) = NoHintState \/ StateFits(StateOf(f), hints)
<1>1. \A t \in HintTypes : f[t] \in choices[t]
  BY DEF Selections
<1>2. f \in [HintTypes -> Enum]
  <2>1. f \in [HintTypes -> UNION {choices[t] : t \in HintTypes}]
    BY DEF Selections
  <2> QED BY <1>1, <2>1
<1>3. \A t \in HintTypes : f[t] # NoEnum => Fits(t, f[t], Cardinality(hints[t]))
  BY <1>1
<1>4. Present(f) # {} => Smallest(Present(f)) \in Present(f)
  <2>1. Present(f) \in SUBSET HintTypes
    BY DEF Present
  <2> QED BY <2>1, SmallestIn
<1>5. Present(f) # {} => StateFits([enum |-> f, at |-> Smallest(Present(f))], hints)
  BY <1>2, <1>3, <1>4, StateOfFits
<1> QED BY <1>5 DEF StateOf

\* new_from_hints
LEMMA NewFits ==
  ASSUME NEW hints, \A t \in HintTypes : Cardinality(hints[t]) \in Nat, NEW x \in New(hints)
  PROVE  x = NoHintState \/ StateFits(x, hints)
<1> DEFINE n(t) == Cardinality(hints[t])
           choices == [t \in HintTypes |->
                         IF n(t) = 0 THEN {NoEnum} ELSE CreateElementary(t, n(t))]
<1>1. \A t \in HintTypes : \A e \in choices[t] : e \in Enum /\ (e # NoEnum => Fits(t, e, n(t)))
  BY NoEnumIsEnum, CreateFits
<1>2. PICK f \in Selections(choices) : x = StateOf(f)
  BY DEF New
<1> HIDE DEF choices
<1> QED BY <1>1, <1>2, SelectionsFit

\* HintState.advance_on_success
LEMMA OnSuccessKeepsFitting ==
  ASSUME NEW old, \A t \in HintTypes : Cardinality(old[t]) \in Nat,
         NEW hints, \A t \in HintTypes : Cardinality(hints[t]) \in Nat,
         NEW s, StateFits(s, old), NEW x \in AdvanceOnSuccess(s, hints)
  PROVE  x = NoHintState \/ StateFits(x, hints)
<1> DEFINE n(t) == Cardinality(hints[t])
           choices == [t \in HintTypes |->
                         IF s.enum[t] = NoEnum \/ n(t) = 0 THEN {NoEnum}
                         ELSE ElementaryOnSuccess(t, s.enum[t], n(t))]
<1>1. \A t \in HintTypes : \A e \in choices[t] : e \in Enum /\ (e # NoEnum => Fits(t, e, n(t)))
  <2> TAKE t \in HintTypes
  <2> TAKE e \in choices[t]
  <2>1. CASE s.enum[t] = NoEnum \/ n(t) = 0
    BY <2>1, NoEnumIsEnum
  <2>2. CASE ~(s.enum[t] = NoEnum \/ n(t) = 0)
    <3>1. e \in ElementaryOnSuccess(t, s.enum[t], n(t))
      BY <2>2
    <3>2. s.enum[t] \in Enum /\ Fits(t, s.enum[t], Cardinality(old[t]))
      BY <2>2 DEF StateFits, HintState
    <3> QED BY <2>2, <3>1, <3>2, OnSuccessFits
  <2> QED BY <2>1, <2>2
<1>2. PICK f \in Selections(choices) : x = StateOf(f)
  BY DEF AdvanceOnSuccess
<1> HIDE DEF choices
<1> QED BY <1>1, <1>2, SelectionsFit

-----------------------------------------------------------------------------
(* The invariant *)

LEMMA Counted ==
  ASSUME NEW hints, \A t \in HintTypes : IsFiniteSet(hints[t])
  PROVE  \A t \in HintTypes : Cardinality(hints[t]) \in Nat
BY FS_CardinalityType

LEMMA InitHints ==
  ASSUME Init
  PROVE  HintsInv
<1>1. left \in [HintTypes -> SUBSET Nat] /\ \A t \in HintTypes : IsFiniteSet(left[t])
  BY HintAssumption DEF Init
<1>2. current = NoHintState \/ StateFits(current, left)
  BY <1>1, Counted, NewFits DEF Init
<1> QED BY <1>1, <1>2 DEF Init, HintsInv

LEMMA StartJobHints ==
  ASSUME HintsInv, StartJob
  PROVE  HintsInv'
<1>1. left' = left /\ order' = order + 1 /\ order \in Nat
  BY DEF StartJob, HintsInv
<1>2. StateFits(current, left)
  BY DEF StartJob, HintsInv
<1>3. current' = NoHintState \/ StateFits(current', left)
  BY <1>2, Counted, AdvanceKeepsFitting DEF StartJob, HintsInv
<1>4. \A j \in running' : j.order \in Nat /\ StateFits(j.state, left)
  BY <1>1, <1>2 DEF StartJob, HintsInv
<1> QED BY <1>1, <1>3, <1>4 DEF HintsInv, StateFits

LEMMA HandleFailuresHints ==
  ASSUME HintsInv, HandleFailures
  PROVE  HintsInv'
<1>1. left' = left /\ order' = order /\ current' = current /\ running' \subseteq running
  BY DEF HandleFailures
<1> QED BY <1>1 DEF HintsInv, StateFits

\* A pass is rewound to a state of this batch.
LEMMA RewoundFits ==
  ASSUME HintsInv, NEW done \in SUBSET running, NEW candidate \in done
  PROVE  StateFits(RewoundState(running \ done, candidate), left)
<1> DEFINE unfinished == running \ done
           earliest == CHOOSE j \in unfinished : \A i \in unfinished : j.order <= i.order
<1>1. unfinished # {} => earliest \in unfinished
  <2> DEFINE orders == {j.order : j \in unfinished}
  <2>1. orders \in SUBSET Nat
    BY DEF HintsInv
  <2>2. unfinished # {} => \E m \in orders : \A n \in orders : m <= n
    <3>1. unfinished # {} => orders # {}
      OBVIOUS
    <3> HIDE DEF orders
    <3> QED BY <2>1, <3>1, MinExists
  <2>3. unfinished # {} => \E j \in unfinished : \A i \in unfinished : j.order <= i.order
    BY <2>2
  <2> QED BY <2>3
<1>2. RewoundState(unfinished, candidate) =
        IF unfinished = {} \/ candidate.order <= earliest.order THEN candidate.state
        ELSE earliest.state
  BY DEF RewoundState
<1> HIDE DEF earliest
<1>3. \A j \in running : StateFits(j.state, left)
  BY DEF HintsInv
<1> QED BY <1>1, <1>2, <1>3

LEMMA HandleSuccessHints ==
  ASSUME HintsInv, HandleSuccess
  PROVE  HintsInv'
<1>1. PICK done \in SUBSET running : \E candidate \in done :
         /\ left' \in HintsAfter(candidate.state)
         /\ current' \in AdvanceOnSuccess(RewoundState(running \ done, candidate), left')
  BY DEF HandleSuccess
<1>2. PICK candidate \in done :
         /\ left' \in HintsAfter(candidate.state)
         /\ current' \in AdvanceOnSuccess(RewoundState(running \ done, candidate), left')
  BY <1>1
<1>3. /\ left' \in [HintTypes -> SUBSET Nat]
      /\ \A t \in HintTypes : left'[t] \subseteq left[t]
  <2> DEFINE kept == [left EXCEPT ![candidate.state.at] = @ \ Applied(candidate.state)]
  <2>1. /\ kept \in [HintTypes -> SUBSET Nat]
        /\ \A t \in HintTypes : kept[t] \subseteq left[t]
    BY DEF HintsInv
  <2>2. /\ left' \in [HintTypes -> SUBSET UNION {left[t] : t \in HintTypes}]
        /\ \A t \in HintTypes : left'[t] = kept[t] \/ left'[t] \subseteq kept[t]
    BY <1>2 DEF HintsAfter, Kept
  <2> HIDE DEF kept
  <2>3. UNION {left[t] : t \in HintTypes} \in SUBSET Nat
    BY DEF HintsInv
  <2> QED BY <2>1, <2>2, <2>3
<1>4. \A t \in HintTypes : IsFiniteSet(left'[t])
  BY <1>3, FS_Subset DEF HintsInv
<1>5. current' = NoHintState \/ StateFits(current', left')
  <2>1. StateFits(RewoundState(running \ done, candidate), left)
    BY RewoundFits
  <2>2. \A t \in HintTypes : Cardinality(left[t]) \in Nat /\ Cardinality(left'[t]) \in Nat
    BY <1>4, Counted DEF HintsInv
  <2> QED BY <1>2, <2>1, <2>2, OnSuccessKeepsFitting
<1>6. order' = 1 /\ running' = {}
  BY DEF HandleSuccess
<1> QED BY <1>3, <1>4, <1>5, <1>6 DEF HintsInv, StateFits

\* Each state in use was made for the hints that the test case has, and each of
\* its ranges lies within them: a job that is overtaken by a success is rewound
\* to before any of its hints are renumbered.
THEOREM HintsInvariant == Spec => []HintsInv
<1>1. Init => HintsInv
  BY InitHints
<1>2. HintsInv /\ [Next]_vars => HintsInv'
  <2> SUFFICES ASSUME HintsInv, [Next]_vars PROVE HintsInv'
    OBVIOUS
  <2>1. CASE StartJob
    BY <2>1, StartJobHints
  <2>2. CASE HandleFailures
    BY <2>2, HandleFailuresHints
  <2>3. CASE HandleSuccess
    BY <2>3, HandleSuccessHints
  <2>4. CASE UNCHANGED vars
    BY <2>4 DEF vars, HintsInv, StateFits
  <2> QED BY <2>1, <2>2, <2>3, <2>4 DEF Next
<1> QED BY <1>1, <1>2, PTL DEF Spec

\* load_hints' assertion: no job is ever asked to apply an empty range, or one
\* beyond the hints of the test case, whatever succeeded before and however the
\* pass was rewound.
THEOREM RangesAreValid == Spec => []RangesValid
<1>1. HintsInv => RangesValid
  <2> SUFFICES ASSUME HintsInv PROVE RangesValid
    OBVIOUS
  <2>1. ASSUME NEW s, StateFits(s, left)
        PROVE  RangeValid(s)
    BY <2>1 DEF StateFits, HintState, RangeValid, Fits
  <2>2. RangeValid(current)
    BY <2>1 DEF HintsInv, RangeValid
  <2>3. \A j \in running : RangeValid(j.state)
    BY <2>1 DEF HintsInv
  <2> QED BY <2>2, <2>3 DEF RangesValid
<1> QED BY <1>1, HintsInvariant, PTL

-----------------------------------------------------------------------------
(* Places: a hint's number is that of the hints before it *)

\* A hint before another has a smaller place.
LEMMA PlaceGrows ==
  ASSUME NEW S \in SUBSET Nat, IsFiniteSet(S), NEW g \in S, NEW h \in S, g < h
  PROVE  /\ Cardinality({x \in S : x < g}) \in Nat
         /\ Cardinality({x \in S : x < g}) < Cardinality({x \in S : x < h})
         /\ Cardinality({x \in S : x < h}) \in Nat
<1> DEFINE L == {x \in S : x < g}
           M == {x \in S : x < h}
<1>1. L \in SUBSET S /\ M \in SUBSET S /\ g \notin L
  OBVIOUS
<1>0. L \cup {g} \in SUBSET M
  <2>1. \A x \in L \cup {g} : x \in M
    OBVIOUS
  <2> HIDE DEF L, M
  <2> QED BY <2>1
<1> HIDE DEF L, M
<1>2. IsFiniteSet(L) /\ IsFiniteSet(M)
  BY <1>1, FS_Subset
<1>3. Cardinality(L \cup {g}) = Cardinality(L) + 1
  BY <1>1, <1>2, FS_AddElement
<1>4. Cardinality(L \cup {g}) <= Cardinality(M)
  BY <1>0, <1>2, FS_Subset
<1>5. Cardinality(L) \in Nat /\ Cardinality(M) \in Nat
  BY <1>2, FS_CardinalityType
<1>6. Cardinality(L) < Cardinality(M)
  BY <1>3, <1>4, <1>5
<1> QED BY <1>5, <1>6 DEF L, M

\* Hints that are removed at or after a place move none from after it to before.
LEMMA PlaceStays ==
  ASSUME NEW S \in SUBSET Nat, IsFiniteSet(S), NEW R \in SUBSET S, NEW i \in Nat,
         \A g \in R : Cardinality({x \in S : x < g}) >= i,
         NEW h \in S, Cardinality({x \in S \ R : x < h}) < i
  PROVE  Cardinality({x \in S : x < h}) < i
<1> DEFINE place == [g \in S |-> Cardinality({x \in S : x < g})]
           B == {x \in S : x < h}
           A == {x \in B : place[x] >= i}
           K == {x \in S \ R : x < h}
           k == place[h]
<1>1. \A g \in S : place[g] \in Nat
  <2> TAKE g \in S
  <2>1. IsFiniteSet({x \in S : x < g})
    BY FS_Subset
  <2> QED BY <2>1, FS_CardinalityType
<1>2. \A f, g \in S : f < g => place[f] < place[g]
  BY PlaceGrows
<1>3. /\ IsFiniteSet(B) /\ IsFiniteSet(A) /\ IsFiniteSet(K)
      /\ A \in SUBSET B /\ B \ A \in SUBSET K
      /\ \A g \in B : place[g] < k
      /\ Cardinality(B) = k /\ \A g \in A : place[g] >= i
  <2>1. B \in SUBSET S /\ A \in SUBSET S /\ K \in SUBSET S
    OBVIOUS
  <2>2. B \ A \in SUBSET K
    BY <1>1
  <2>3. \A g \in B : place[g] < k
    BY <1>2
  <2> QED BY <2>1, <2>2, <2>3, FS_Subset
<1>4. SUFFICES ASSUME k >= i PROVE FALSE
  BY <1>1
<1>5. k \in Nat /\ Cardinality(K) < i /\ \A x, y \in A : x # y => place[x] # place[y]
  <2>1. \A x, y \in A : x < y \/ x = y \/ y < x
    OBVIOUS
  <2> QED BY <1>1, <1>2, <2>1
<1>6. A \in SUBSET S
  OBVIOUS
<1> HIDE DEF place, B, A, K, k
<1>7. Cardinality(A) <= k - i
  <2> DEFINE f == [x \in A |-> place[x]]
  <2>1. f \in Injection(A, i..(k - 1))
    <3>1. f \in [A -> i..(k - 1)]
      BY <1>1, <1>3, <1>5, <1>6
    <3>2. \A x, y \in A : f[x] = f[y] => x = y
      BY <1>5
    <3> QED BY <3>1, <3>2 DEF Injection, IsInjective
  <2>2. IsFiniteSet(i..(k - 1)) /\ Cardinality(i..(k - 1)) = k - i
    BY <1>4, <1>5, FS_Interval
  <2> HIDE DEF f
  <2> QED BY <2>1, <2>2, FS_Injection
<1>8. Cardinality(B \ A) = Cardinality(B) - Cardinality(B \cap A)
  BY <1>3, FS_Difference
<1>9. B \cap A = A
  BY <1>3
<1>10. Cardinality(B \ A) <= Cardinality(K)
  BY <1>3, FS_Subset
<1>11. Cardinality(A) \in Nat /\ Cardinality(K) \in Nat
  BY <1>3, FS_CardinalityType
<1> QED BY <1>3, <1>4, <1>5, <1>7, <1>8, <1>9, <1>10, <1>11

\* A place is a number of the list.
LEMMA PlaceBound ==
  ASSUME NEW S \in SUBSET Nat, IsFiniteSet(S), NEW h \in S
  PROVE  /\ Cardinality({x \in S : x < h}) \in Nat
         /\ Cardinality({x \in S : x < h}) < Cardinality(S)
<1> DEFINE L == {x \in S : x < h}
<1>1. L \in SUBSET S /\ h \notin L
  OBVIOUS
<1>2. L \cup {h} \in SUBSET S
  OBVIOUS
<1> HIDE DEF L
<1>3. IsFiniteSet(L)
  BY <1>1, FS_Subset
<1>4. Cardinality(L \cup {h}) = Cardinality(L) + 1
  BY <1>1, <1>3, FS_AddElement
<1>5. Cardinality(L \cup {h}) <= Cardinality(S)
  BY <1>2, FS_Subset
<1>6. Cardinality(L) \in Nat /\ Cardinality(S) \in Nat
  BY <1>3, FS_CardinalityType
<1>7. Cardinality(L) < Cardinality(S)
  BY <1>4, <1>5, <1>6
<1> QED BY <1>6, <1>7 DEF L

-----------------------------------------------------------------------------
(* What a bisection has passed *)

\* A range of one hint: its place tells which.
LEMMA AppliedAlone ==
  ASSUME HintsInv, NEW t \in HintTypes \ Subsegment, NEW s, StateFits(s, left), s.at = t,
         s.enum[t].chunk = 1, NEW h \in left[t], Place(t, h) = s.enum[t].index
  PROVE  Applied(s) = {h}
<1> DEFINE e == s.enum[t]
           n == Cardinality(left[t])
<1>1. e \in Enum /\ e # NoEnum /\ Fits(t, e, n)
  BY DEF StateFits, HintState
<1>2. n \in Nat /\ left[t] \in SUBSET Nat /\ IsFiniteSet(left[t])
  BY Counted DEF HintsInv
<1>3. Bisection(e, n)
  BY <1>1, <1>2, BinaryFits
<1>4. End(t, e) = e.index + 1
  BY <1>3 DEF Bisection, End, BinaryEnd, Enum
<1>5. \A g \in left[t] : Place(t, g) \in Nat
  BY <1>2, PlaceBound DEF Place
<1>6. \A g \in left[t] : g # h => Place(t, g) # Place(t, h)
  <2> TAKE g \in left[t]
  <2>1. CASE g < h
    <3>1. Place(t, g) < Place(t, h) /\ Place(t, g) \in Nat /\ Place(t, h) \in Nat
      BY <1>2, <2>1, PlaceGrows DEF Place
    <3> QED BY <3>1
  <2>2. CASE h < g
    <3>1. Place(t, h) < Place(t, g) /\ Place(t, g) \in Nat /\ Place(t, h) \in Nat
      BY <1>2, <2>2, PlaceGrows DEF Place
    <3> QED BY <3>1
  <2>3. g \in Nat /\ h \in Nat
    BY <1>2
  <2> QED BY <2>1, <2>2, <2>3
<1>7. Applied(s) = {g \in left[t] : e.index <= Place(t, g) /\ Place(t, g) < e.index + 1}
  BY <1>4 DEF Applied
<1>8. e.index \in Nat
  BY <1>1 DEF Enum
<1> HIDE DEF e
<1> QED BY <1>5, <1>6, <1>7, <1>8 DEF e

\* advance() goes forward, and past nothing but what the job of s tries alone.
LEMMA AdvancePasses ==
  ASSUME HintsInv, NEW t \in HintTypes \ Subsegment, NEW s, StateFits(s, left),
         NEW x \in Advance(s)
  PROVE  /\ NotBefore(s, x, t)
         /\ \A h \in Passed(x, t) : h \in Passed(s, t) \/ (s.at = t /\ Applied(s) = {h})
<1> DEFINE d == s.enum[t]
           n == Cardinality(left[t])
<1>1. s.at \in HintTypes /\ s.enum \in [HintTypes -> Enum] /\ s.enum[s.at] # NoEnum
  BY DEF StateFits, HintState
<1>2. n \in Nat /\ left[t] \in SUBSET Nat /\ IsFiniteSet(left[t])
  BY Counted DEF HintsInv
<1>3. PICK e \in ElementaryAdvance(s.at, s.enum[s.at]) :
         LET f == [s.enum EXCEPT ![s.at] = e]
         IN  x = IF Present(f) = {} THEN NoHintState
                 ELSE [enum |-> f, at |-> NextType(Present(f), s.at)]
  BY DEF Advance
<1>4. x.enum[t] = [s.enum EXCEPT ![s.at] = e][t]
  <2> DEFINE f == [s.enum EXCEPT ![s.at] = e]
  <2>1. Present(f) = {} => f[t] = NoEnum
    BY DEF Present
  <2>2. x = IF Present(f) = {} THEN NoHintState
            ELSE [enum |-> f, at |-> NextType(Present(f), s.at)]
    BY <1>3
  <2> HIDE DEF f
  <2>3. x.enum[t] = f[t]
    BY <2>1, <2>2 DEF NoHintState
  <2> QED BY <2>3 DEF f
<1>5. CASE s.at # t
  <2>1. x.enum[t] = d
    BY <1>1, <1>4, <1>5
  <2>2. d \in Enum
    BY <1>1
  <2> QED BY <2>1, <2>2 DEF NotBefore, Passed, Enum
<1>6. CASE s.at = t
  <2>1. x.enum[t] = e /\ e = BinaryAdvance(d)
    BY <1>1, <1>3, <1>4, <1>6 DEF ElementaryAdvance
  <2>2. d \in Enum /\ d # NoEnum /\ Bisection(d, n)
    BY <1>1, <1>2, <1>6, BinaryFits DEF StateFits
  <2>3. d.instances = n /\ d.chunk \in Nat \ {0} /\ d.index \in Nat
    BY <2>2 DEF Bisection, Enum
  <2>4. \A h \in left[t] : Place(t, h) \in Nat /\ Place(t, h) < n
    BY <1>2, PlaceBound DEF Place
  <2>5. ASSUME d.chunk = 1, NEW h \in left[t], Place(t, h) < d.index + 1
        PROVE  h \in Passed(s, t) \/ Applied(s) = {h}
    <3>1. CASE Place(t, h) < d.index
      BY <2>5, <3>1 DEF Passed
    <3>2. CASE Place(t, h) = d.index
      BY <1>6, <2>5, <3>2, AppliedAlone
    <3> QED BY <2>3, <2>4, <2>5, <3>1, <3>2
  <2>6. CASE d.index + d.chunk < n
    <3>1. e = [d EXCEPT !.index = d.index + d.chunk]
      BY <2>1, <2>3, <2>6 DEF BinaryAdvance
    <3>2. e.chunk = d.chunk /\ e.index = d.index + d.chunk
      BY <2>2, <3>1 DEF Enum
    <3>3. e # NoEnum
      BY <2>3, <3>2 DEF NoEnum
    <3>4. NotBefore(s, x, t)
      BY <2>1, <2>2, <2>3, <3>2 DEF NotBefore
    <3>5. ASSUME NEW h \in Passed(x, t) PROVE h \in Passed(s, t) \/ Applied(s) = {h}
      <4>1. h \in left[t] /\ d.chunk = 1 /\ Place(t, h) < d.index + 1
        BY <2>1, <3>2, <3>3, <3>5 DEF Passed
      <4> QED BY <2>5, <4>1
    <3> QED BY <1>6, <3>4, <3>5
  <2>7. CASE ~(d.index + d.chunk < n) /\ d.chunk < 2
    <3>1. e = NoEnum /\ d.chunk = 1
      BY <2>1, <2>3, <2>7 DEF BinaryAdvance
    <3>2. NotBefore(s, x, t)
      BY <2>1, <3>1 DEF NotBefore
    <3>3. ASSUME NEW h \in Passed(x, t) PROVE h \in Passed(s, t) \/ Applied(s) = {h}
      <4>1. h \in left[t]
        BY <3>3 DEF Passed
      <4>2. Place(t, h) < d.index + 1
        BY <1>2, <2>3, <2>4, <2>7, <3>1, <4>1
      <4> QED BY <2>5, <3>1, <4>1, <4>2
    <3> QED BY <1>6, <3>2, <3>3
  <2>8. CASE ~(d.index + d.chunk < n) /\ ~(d.chunk < 2)
    <3> DEFINE half == d.chunk \div 2
    <3>1. half \in Nat /\ half > 0 /\ half < d.chunk
      BY <2>3, <2>8
    <3>2. e = [d EXCEPT !.chunk = half, !.index = 0]
      BY <2>1, <2>3, <2>8 DEF BinaryAdvance
    <3> HIDE DEF half
    <3>3. e.chunk = half /\ e.index = 0
      BY <2>2, <3>2 DEF Enum
    <3>4. e # NoEnum
      BY <3>1, <3>3 DEF NoEnum
    <3>5. NotBefore(s, x, t)
      BY <2>1, <2>2, <3>1, <3>3 DEF NotBefore
    <3>6. Passed(x, t) = {}
      BY <2>1, <2>4, <3>3, <3>4 DEF Passed
    <3> QED BY <3>5, <3>6
  <2> QED BY <2>6, <2>7, <2>8
<1> QED BY <1>5, <1>6

\* States of one batch come one after another.
LEMMA NotBeforeTransitive ==
  ASSUME NEW t \in HintTypes, NEW r, NEW s, NEW x,
         r.enum[t] \in Enum, s.enum[t] \in Enum, x.enum[t] \in Enum,
         NotBefore(r, s, t), NotBefore(s, x, t)
  PROVE  NotBefore(r, x, t)
BY DEF NotBefore, Enum

\* advance_on_success() after the hints of c and maybe others are gone, from a state s
\* that is not after c: no hint is passed that s had not passed, unless hints that s
\* had passed are among those that are gone.
LEMMA OnSuccessPasses ==
  ASSUME HintsInv, HintsInv', NEW t \in HintTypes \ Subsegment,
         NEW s, StateFits(s, left), NEW c, StateFits(c, left), NotBefore(s, c, t),
         left' \in HintsAfter(c), t \notin Disturbed(c, s, left'),
         NEW x \in AdvanceOnSuccess(s, left'),
         NEW h \in left'[t],
         x.enum[t] = NoEnum \/ (x.enum[t].chunk = 1
                                /\ Cardinality({g \in left'[t] : g < h}) < x.enum[t].index)
  PROVE  h \in Passed(s, t)
<1> DEFINE d == s.enum[t]
           m == Cardinality(left'[t])
           R == left[t] \ left'[t]
<1>1. /\ left[t] \in SUBSET Nat /\ IsFiniteSet(left[t])
      /\ left'[t] \in SUBSET Nat /\ IsFiniteSet(left'[t])
  BY DEF HintsInv
<1>2. /\ left'[t] = left[t] \ R /\ R \in SUBSET left[t]
      /\ \A g \in R : g \in Kept(c)[t] \/ (c.at = t /\ g \in Applied(c))
  <2>1. left \in [HintTypes -> SUBSET Nat] /\ c.at \in HintTypes
    BY DEF HintsInv, StateFits, HintState
  <2>2. left'[t] \subseteq Kept(c)[t]
    BY DEF HintsAfter
  <2>3. Kept(c)[t] = IF c.at = t THEN left[t] \ Applied(c) ELSE left[t]
    BY <2>1 DEF Kept
  <2> QED BY <2>2, <2>3
<1>3. m \in Nat /\ Cardinality({g \in left'[t] : g < h}) < m
      /\ Cardinality({g \in left'[t] : g < h}) \in Nat
  BY <1>1, PlaceBound, FS_CardinalityType
<1>4. CASE d = NoEnum
  BY <1>2, <1>4 DEF Passed
<1>5. CASE d # NoEnum
  <2>1. PICK f \in Selections([u \in HintTypes |->
                IF s.enum[u] = NoEnum \/ Cardinality(left'[u]) = 0 THEN {NoEnum}
                ELSE ElementaryOnSuccess(u, s.enum[u], Cardinality(left'[u]))]) : x = StateOf(f)
    BY DEF AdvanceOnSuccess
  <2>2. m # 0
    BY <1>3
  <2>3. f[t] = BinaryAdvanceOnSuccess(d, m)
    <3>1. f[t] \in ElementaryOnSuccess(t, d, m)
      BY <1>5, <2>1, <2>2 DEF Selections
    <3> QED BY <3>1 DEF ElementaryOnSuccess
  <2>4. x.enum[t] = f[t]
    <3>1. Present(f) = {} => f[t] = NoEnum
      BY DEF Present
    <3> QED BY <2>1, <3>1 DEF StateOf, NoHintState
  <2>5. d \in Enum /\ Bisection(d, Cardinality(left[t]))
    <3>1. d \in Enum /\ Fits(t, d, Cardinality(left[t]))
      BY <1>5 DEF StateFits, HintState
    <3> QED BY <1>1, <3>1, BinaryFits, FS_CardinalityType
  <2>6. d.chunk \in Nat \ {0} /\ d.index \in Nat
    BY <2>5 DEF Bisection, Enum
  <2> DEFINE shrunk == [d EXCEPT !.instances = m]
  <2>7. /\ shrunk.instances = m /\ shrunk.chunk = d.chunk /\ shrunk.index = d.index
        /\ f[t] = IF d.index >= m THEN BinaryAdvance(shrunk) ELSE shrunk
    BY <2>2, <2>3, <2>5 DEF BinaryAdvanceOnSuccess, Enum
  <2>8. shrunk \in Enum
    BY <1>3, <2>5 DEF Enum
  <2> HIDE DEF shrunk, d
  <2>9. d.chunk = 1 /\ Cardinality({g \in left'[t] : g < h}) < d.index
    <3>1. CASE d.index >= m
      <4>1. ~(shrunk.index + shrunk.chunk < shrunk.instances)
        BY <1>3, <2>6, <2>7, <3>1
      <4>2. CASE d.chunk < 2
        BY <1>3, <2>6, <3>1, <4>2
      <4>3. CASE ~(d.chunk < 2)
        <5> DEFINE half == d.chunk \div 2
        <5>1. f[t] = [shrunk EXCEPT !.chunk = half, !.index = 0]
          BY <2>7, <3>1, <4>1, <4>3 DEF BinaryAdvance
        <5>2. half \in Nat /\ half > 0
          BY <2>6, <4>3
        <5> HIDE DEF half
        <5>3. f[t].chunk = half /\ f[t].index = 0
          BY <2>8, <5>1 DEF Enum
        <5>4. f[t] # NoEnum
          BY <5>2, <5>3 DEF NoEnum
        <5> QED BY <1>3, <2>4, <5>3, <5>4
      <4> QED BY <4>2, <4>3
    <3>2. CASE ~(d.index >= m)
      <4>1. f[t] = shrunk
        BY <2>7, <3>2
      <4>2. f[t] # NoEnum
        BY <2>6, <2>7, <4>1 DEF NoEnum
      <4> QED BY <2>4, <2>7, <4>1, <4>2
    <3> QED BY <3>1, <3>2
  <2>10. \A g \in R : Cardinality({y \in left[t] : y < g}) >= d.index
    <3>g. ASSUME NEW g \in R, g \in Kept(c)[t]
          PROVE  Place(t, g) >= d.index
      <4>1. g \in Kept(c)[t] \ left'[t]
        BY <3>g
      <4>2. ~(Place(t, g) < d.index)
        BY <2>9, <4>1 DEF Disturbed, d
      <4>3. Place(t, g) \in Nat
        BY <1>1, <3>g, PlaceBound DEF Place
      <4> QED BY <2>6, <4>2, <4>3
    <3> SUFFICES ASSUME c.at = t, NEW g \in Applied(c)
                 PROVE  Place(t, g) >= d.index
      BY <1>2, <3>g DEF Place
    <3>1. c.enum[t] \in Enum /\ c.enum[t] # NoEnum /\ Fits(t, c.enum[t], Cardinality(left[t]))
      BY DEF StateFits, HintState
    <3>2. c.enum[t].chunk > 0 /\ c.enum[t].chunk \in Nat /\ c.enum[t].index \in Nat
      BY <1>1, <3>1, BinaryFits, FS_CardinalityType DEF Bisection, Enum
    <3>3. d.index <= c.enum[t].index
      BY <2>9, <3>1, <3>2 DEF NotBefore, d
    <3>4. g \in left[t] /\ c.enum[t].index <= Place(t, g)
      BY DEF Applied
    <3>5. Place(t, g) \in Nat
      BY <1>1, <3>4, PlaceBound DEF Place
    <3> QED BY <2>6, <3>2, <3>3, <3>4, <3>5
  <2>11. h \in left[t] /\ Cardinality({g \in left[t] \ R : g < h}) < d.index
    BY <1>2, <2>9
  <2> HIDE DEF R
  <2>12. Cardinality({g \in left[t] : g < h}) < d.index
    <3>1. ASSUME NEW S, NEW i, S = left[t], i = d.index
          PROVE  Cardinality({g \in S : g < h}) < i
      <4>1. S \in SUBSET Nat /\ IsFiniteSet(S) /\ R \in SUBSET S /\ i \in Nat /\ h \in S
        BY <1>1, <1>2, <2>6, <2>11, <3>1
      <4>2. \A g \in R : Cardinality({y \in S : y < g}) >= i
        BY <2>10, <3>1
      <4>3. Cardinality({y \in S \ R : y < h}) < i
        BY <2>11, <3>1
      <4> QED BY <4>1, <4>2, <4>3, PlaceStays
    <3> QED BY <3>1
  <2> QED BY <2>9, <2>11, <2>12 DEF Passed, Place, d
<1> QED BY <1>4, <1>5

\* A hint that a job tried alone is noted when the job is done.
LEMMA AloneIsTried ==
  ASSUME NEW jobs, NEW j \in jobs, NEW t, NEW h, TriesAlone(j, t, h)
  PROVE  <<t, h>> \in TriedAlone(jobs)
<1>1. j.state.at = t /\ Applied(j.state) = {h}
  BY DEF TriesAlone
<1>2. Cardinality(Applied(j.state)) = 1
  BY <1>1, FS_Singleton
<1>3. j \in {i \in jobs : Cardinality(Applied(i.state)) = 1}
  BY <1>2
<1>4. <<t, h>> \in {<<j.state.at, g>> : g \in Applied(j.state)}
  BY <1>1
<1> QED BY <1>3, <1>4 DEF TriedAlone

\* The state that process_result goes back to: no job before it is unfinished,
\* and it is not after the success.
LEMMA RewoundJob ==
  ASSUME HintsInv, TriedInv, NEW done \in SUBSET running, NEW candidate \in done
  PROVE  \E j \in running :
            /\ RewoundState(running \ done, candidate) = j.state
            /\ \A i \in running : i.order < j.order => i \in done
            /\ \A t \in HintTypes \ Subsegment : NotBefore(j.state, candidate.state, t)
<1> DEFINE unfinished == running \ done
           earliest == CHOOSE j \in unfinished : \A i \in unfinished : j.order <= i.order
<1>1. unfinished # {} => earliest \in unfinished /\ \A i \in unfinished : earliest.order <= i.order
  <2> DEFINE orders == {j.order : j \in unfinished}
  <2>1. orders \in SUBSET Nat
    BY DEF HintsInv
  <2>2. unfinished # {} => \E m \in orders : \A n \in orders : m <= n
    <3>1. unfinished # {} => orders # {}
      OBVIOUS
    <3> HIDE DEF orders
    <3> QED BY <2>1, <3>1, MinExists
  <2>3. unfinished # {} => \E j \in unfinished : \A i \in unfinished : j.order <= i.order
    BY <2>2
  <2> QED BY <2>3
<1>2. RewoundState(unfinished, candidate) =
        IF unfinished = {} \/ candidate.order <= earliest.order THEN candidate.state
        ELSE earliest.state
  BY DEF RewoundState
<1> HIDE DEF earliest
<1>3. \A j \in running : j.order \in Nat
  BY DEF HintsInv
<1>4. CASE unfinished = {} \/ candidate.order <= earliest.order
  <2>1. \A i \in running : i.order < candidate.order => i \in done
    BY <1>1, <1>3, <1>4
  <2>2. \A t \in HintTypes \ Subsegment : NotBefore(candidate.state, candidate.state, t)
    <3> TAKE t \in HintTypes \ Subsegment
    <3>1. candidate.state.enum[t] \in Enum
      BY DEF HintsInv, StateFits, HintState
    <3> QED BY <3>1 DEF NotBefore, Enum
  <2> QED BY <1>2, <1>4, <2>1, <2>2
<1>5. CASE ~(unfinished = {} \/ candidate.order <= earliest.order)
  <2>1. earliest \in running /\ earliest.order < candidate.order
    BY <1>1, <1>3, <1>5
  <2>2. \A i \in running : i.order < earliest.order => i \in done
    BY <1>1, <1>3, <1>5
  <2>3. \A t \in HintTypes \ Subsegment : NotBefore(earliest.state, candidate.state, t)
    BY <2>1 DEF TriedInv
  <2> QED BY <1>2, <1>5, <2>1, <2>2, <2>3
<1> QED BY <1>4, <1>5

LEMMA InitTried ==
  ASSUME Init
  PROVE  TriedInv
<1> SUFFICES ASSUME NEW t \in HintTypes \ Subsegment PROVE Passed(current, t) = {}
  BY DEF Init, TriedInv
<1>0. left = Hints /\ left[t] \in SUBSET Nat /\ IsFiniteSet(left[t])
  BY HintAssumption DEF Init
<1> DEFINE n == Cardinality(left[t])
<1>1. PICK f \in Selections([u \in HintTypes |->
              IF Cardinality(Hints[u]) = 0 THEN {NoEnum}
              ELSE CreateElementary(u, Cardinality(Hints[u]))]) : current = StateOf(f)
  BY DEF Init, New
<1>2. current.enum[t] = f[t]
  <2>1. Present(f) = {} => f[t] = NoEnum
    BY DEF Present
  <2> QED BY <1>1, <2>1 DEF StateOf, NoHintState
<1>3. n \in Nat /\ \A h \in left[t] : Place(t, h) \in Nat /\ Place(t, h) < n
  BY <1>0, PlaceBound, FS_CardinalityType DEF Place
<1>4. CASE n = 0
  BY <1>3, <1>4 DEF Passed
<1>5. CASE n # 0
  <2>1. f[t] = [NoEnum EXCEPT !.instances = n, !.chunk = n]
    BY <1>0, <1>1, <1>5 DEF Selections, CreateElementary, BinaryCreate
  <2>2. f[t] = [instances |-> n, chunk |-> n, index |-> 0, start |-> 0, maxChunk |-> 0]
    BY <2>1 DEF NoEnum
  <2>3. f[t].chunk = n /\ f[t].index = 0
    BY <2>2
  <2>4. f[t] # NoEnum
    BY <1>5, <2>3 DEF NoEnum
  <2> QED BY <1>2, <1>3, <2>3, <2>4 DEF Passed
<1> QED BY <1>4, <1>5

LEMMA StartJobTried ==
  ASSUME HintsInv, TriedInv, StartJob
  PROVE  TriedInv'
<1>0. /\ StateFits(current, left) /\ order \in Nat /\ order' = order + 1
      /\ running' = running \cup {[order |-> order, state |-> current]}
      /\ UNCHANGED <<left, tried, disturbed>>
      /\ \A j \in running : j.order \in Nat /\ StateFits(j.state, left)
  BY DEF StartJob, HintsInv
<1>1. PICK x \in Advance(current) : current' = x
  BY DEF StartJob
<1> DEFINE new == [order |-> order, state |-> current]
<1>2. /\ new \in running' /\ new.order = order /\ new.state = current
      /\ \A j \in running' : j \in running \/ j = new
  BY <1>0
<1> HIDE DEF new
<1> SUFFICES ASSUME NEW t \in HintTypes \ Subsegment
             PROVE  /\ t \notin disturbed =>
                          /\ \A h \in Passed(current, t)' :
                                <<t, h>> \in tried \/ \E j \in running' : TriesAlone(j, t, h)'
                          /\ \A j \in running' : \A h \in Passed(j.state, t)' :
                                <<t, h>> \in tried \/ \E i \in running' :
                                    i.order < j.order /\ TriesAlone(i, t, h)'
                    /\ \A j \in running' : j.order < order' /\ NotBefore(j.state, current', t)
                    /\ \A i, j \in running' : i.order < j.order => NotBefore(i.state, j.state, t)
  BY <1>0 DEF TriedInv, NotBefore
<1>3. /\ NotBefore(current, x, t)
      /\ \A h \in Passed(x, t) : h \in Passed(current, t) \/ (current.at = t /\ Applied(current) = {h})
  BY <1>0, AdvancePasses DEF HintsInv
<1>4. /\ \A s : Passed(s, t)' = Passed(s, t)
      /\ \A j, h : TriesAlone(j, t, h)' <=> TriesAlone(j, t, h)
  BY <1>0 DEF Passed, Place, TriesAlone, Applied
<1>5. Passed(current, t)' = Passed(x, t)
  BY <1>0, <1>1 DEF Passed, Place
<1>6. ASSUME t \notin disturbed, NEW h \in Passed(x, t)
      PROVE  <<t, h>> \in tried \/ \E j \in running' : TriesAlone(j, t, h)
  <2>1. CASE h \in Passed(current, t)
    BY <1>2, <1>0, <1>6, <2>1 DEF TriedInv
  <2>2. CASE current.at = t /\ Applied(current) = {h}
    <3>1. TriesAlone(new, t, h)
      BY <1>2, <2>2 DEF TriesAlone
    <3> QED BY <1>2, <3>1
  <2> QED BY <1>3, <2>1, <2>2
<1>7. ASSUME t \notin disturbed, NEW j \in running', NEW h \in Passed(j.state, t)
      PROVE  <<t, h>> \in tried \/ \E i \in running' : i.order < j.order /\ TriesAlone(i, t, h)
  BY <1>0, <1>2, <1>7 DEF TriedInv
<1>8. \A j \in running' : j.order < order' /\ NotBefore(j.state, x, t)
  <2> TAKE j \in running'
  <2>1. CASE j = new
    BY <1>0, <1>2, <1>3, <2>1
  <2>2. CASE j \in running
    <3>1. j.order < order /\ NotBefore(j.state, current, t) /\ j.order \in Nat
      BY <1>0, <2>2 DEF TriedInv
    <3>2. j.state.enum[t] \in Enum /\ current.enum[t] \in Enum
      BY <1>0, <2>2 DEF StateFits, HintState
    <3>3. x.enum[t] \in Enum
      <4>1. x = NoHintState \/ StateFits(x, left)
        BY <1>0, Counted, AdvanceKeepsFitting DEF HintsInv
      <4> QED BY <4>1, NoEnumIsEnum DEF StateFits, HintState, NoHintState
    <3> QED BY <1>0, <1>3, <3>1, <3>2, <3>3, NotBeforeTransitive
  <2> QED BY <1>2, <2>1, <2>2
<1>9. \A i, j \in running' : i.order < j.order => NotBefore(i.state, j.state, t)
  BY <1>0, <1>2 DEF TriedInv
<1> QED BY <1>1, <1>4, <1>5, <1>6, <1>7, <1>8, <1>9

LEMMA HandleFailuresTried ==
  ASSUME HintsInv, TriedInv, HandleFailures
  PROVE  TriedInv'
<1>1. PICK done \in SUBSET running :
         running' = running \ done /\ tried' = tried \cup TriedAlone(done)
  BY DEF HandleFailures
<1>2. UNCHANGED <<left, current, order, disturbed>>
  BY DEF HandleFailures
<1>3. ASSUME NEW t, NEW h, NEW i \in running, TriesAlone(i, t, h)
      PROVE  <<t, h>> \in tried' \/ i \in running'
  BY <1>1, <1>3, AloneIsTried
<1>4. /\ \A s, t : Passed(s, t)' = Passed(s, t)
      /\ \A j, t, h : TriesAlone(j, t, h)' <=> TriesAlone(j, t, h)
  BY <1>2 DEF Passed, Place, TriesAlone, Applied
<1>5. \A t : Passed(current, t)' = Passed(current, t)
  BY <1>2 DEF Passed, Place
<1> SUFFICES ASSUME NEW t \in HintTypes \ Subsegment
             PROVE  /\ t \notin disturbed =>
                          /\ \A h \in Passed(current, t) :
                                <<t, h>> \in tried' \/ \E j \in running' : TriesAlone(j, t, h)
                          /\ \A j \in running' : \A h \in Passed(j.state, t) :
                                <<t, h>> \in tried' \/ \E i \in running' :
                                    i.order < j.order /\ TriesAlone(i, t, h)
                    /\ \A j \in running' : j.order < order /\ NotBefore(j.state, current, t)
                    /\ \A i, j \in running' : i.order < j.order => NotBefore(i.state, j.state, t)
  BY <1>2, <1>4, <1>5 DEF TriedInv, NotBefore
<1>6. running' \subseteq running /\ tried \subseteq tried'
  BY <1>1
<1> QED BY <1>3, <1>6 DEF TriedInv

LEMMA HandleSuccessTried ==
  ASSUME HintsInv, TriedInv, HintsInv', HandleSuccess
  PROVE  TriedInv'
<1>1. PICK done \in SUBSET running : \E candidate \in done :
         LET rewound == RewoundState(running \ done, candidate)
         IN  /\ left' \in HintsAfter(candidate.state)
             /\ current' \in AdvanceOnSuccess(rewound, left')
             /\ tried' = tried \cup TriedAlone(done)
             /\ disturbed' = disturbed \cup Disturbed(candidate.state, rewound, left')
  BY DEF HandleSuccess
<1>2. PICK candidate \in done :
         LET rewound == RewoundState(running \ done, candidate)
         IN  /\ left' \in HintsAfter(candidate.state)
             /\ current' \in AdvanceOnSuccess(rewound, left')
             /\ tried' = tried \cup TriedAlone(done)
             /\ disturbed' = disturbed \cup Disturbed(candidate.state, rewound, left')
  BY <1>1
<1>3. PICK j \in running :
         /\ RewoundState(running \ done, candidate) = j.state
         /\ \A i \in running : i.order < j.order => i \in done
         /\ \A t \in HintTypes \ Subsegment : NotBefore(j.state, candidate.state, t)
  BY RewoundJob
<1>4. PICK x \in AdvanceOnSuccess(j.state, left') : current' = x
  BY <1>2, <1>3
<1>5. running' = {}
  BY DEF HandleSuccess
<1> SUFFICES ASSUME NEW t \in HintTypes \ Subsegment, t \notin disturbed', NEW h \in left'[t],
                    x.enum[t] = NoEnum \/ (x.enum[t].chunk = 1
                        /\ Cardinality({g \in left'[t] : g < h}) < x.enum[t].index)
             PROVE  <<t, h>> \in tried'
  BY <1>4, <1>5 DEF TriedInv, Passed, Place
<1>6. StateFits(j.state, left) /\ StateFits(candidate.state, left)
  BY DEF HintsInv
<1>7. h \in Passed(j.state, t)
  <2>1. t \notin Disturbed(candidate.state, j.state, left') /\ t \notin disturbed
    BY <1>2, <1>3
  <2>2. NotBefore(j.state, candidate.state, t)
    BY <1>3
  <2> QED BY <1>2, <1>3, <1>4, <1>6, <2>1, <2>2, OnSuccessPasses
<1>8. <<t, h>> \in tried \/ \E i \in running : i.order < j.order /\ TriesAlone(i, t, h)
  <2>1. t \notin disturbed
    BY <1>2
  <2> QED BY <1>7, <2>1 DEF TriedInv
<1> QED BY <1>2, <1>3, <1>8, AloneIsTried

\* A bisection passes over no hint that was not tried alone, or is not being
\* tried by a job to which a success would rewind the pass, whatever hints vanish in
\* reductions, as long as those it had passed one by one do not.
THEOREM TriedInvariant == Spec => []TriedInv
<1>1. Init => TriedInv
  BY InitTried
<1>2. HintsInv /\ HintsInv' /\ TriedInv /\ [Next]_vars => TriedInv'
  <2> SUFFICES ASSUME HintsInv, HintsInv', TriedInv, [Next]_vars PROVE TriedInv'
    OBVIOUS
  <2>1. CASE StartJob
    BY <2>1, StartJobTried
  <2>2. CASE HandleFailures
    BY <2>2, HandleFailuresTried
  <2>3. CASE HandleSuccess
    BY <2>3, HandleSuccessTried
  <2>4. CASE UNCHANGED vars
    <3>1. UNCHANGED <<left, current, running, order, tried, disturbed>>
      BY <2>4 DEF vars
    <3>2. /\ \A s, t : Passed(s, t)' = Passed(s, t)
          /\ \A j, t, h : TriesAlone(j, t, h)' <=> TriesAlone(j, t, h)
      BY <3>1 DEF Passed, Place, TriesAlone, Applied
    <3>3. \A t : Passed(current, t)' = Passed(current, t)
      BY <3>1 DEF Passed, Place
    <3> QED BY <3>1, <3>2, <3>3 DEF TriedInv, NotBefore
  <2> QED BY <2>1, <2>2, <2>3, <2>4 DEF Next
<1> QED BY <1>1, <1>2, HintsInvariant, PTL DEF Spec

\* Bisection down to single hints is complete: when the pass is through, each
\* hint that is left was tried alone, whatever was cancelled and rewound on the
\* way (process_result, BinaryState.advance_on_success) and whatever else vanishes
\* in a success - except for a type of which hints vanish that had been passed one
\* by one, when the index no longer is where it was among the others.
THEOREM BisectionIsComplete == Spec => []EveryBisectedHintTriedAlone
<1>1. TriedInv => EveryBisectedHintTriedAlone
  <2> SUFFICES ASSUME TriedInv, Finished, NEW t \in HintTypes \ Subsegment, t \notin disturbed,
                      NEW h \in left[t]
               PROVE  <<t, h>> \in tried
    BY DEF EveryBisectedHintTriedAlone, TriedWhenThrough
  <2>1. h \in Passed(current, t)
    BY DEF Finished, NoHintState, Passed
  <2> QED BY <2>1 DEF TriedInv, Finished
<1> QED BY <1>1, TriedInvariant, PTL
=============================================================================
