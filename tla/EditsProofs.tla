----------------------------- MODULE EditsProofs -----------------------------
(***************************************************************************)
(* Machine-checked proofs about the contents of candidates, for files and    *)
(* hints of any size.                                                        *)
(*                                                                         *)
(* Merging and applying patches, moving positions, generating names and      *)
(* shifting patterns are recursive functions of the number of turns of a     *)
(* loop.  A claim about all turns is proved of the set of the turns that it   *)
(* holds of.                                                                 *)
(***************************************************************************)
EXTENDS Edits, FiniteSetTheorems, WellFoundedInduction, TLAPS

-----------------------------------------------------------------------------
(* Induction and recursion on the turns of a loop *)

LEMMA LeastExists ==
  ASSUME NEW S \in SUBSET Nat, S # {}
  PROVE  \E m \in S : \A n \in S : m <= n
<1> DEFINE R == OpToRel(<, Nat)
<1>1. IsWellFoundedOn(R, Nat)
  BY NatLessThanWellFounded
<1>2. \E x \in S : \A y \in S : ~(<<y, x>> \in R)
  <2> HIDE DEF R
  <2> QED BY <1>1, WFMin
<1>3. \A x, y \in S : <<y, x>> \in R <=> y < x
  BY DEF OpToRel
<1> HIDE DEF R
<1>4. \E x \in S : \A y \in S : ~(y < x)
  BY <1>2, <1>3, Zenon
<1> QED BY <1>4, SMT

LEMMA GreatestExists ==
  ASSUME NEW S \in SUBSET Nat, S # {}, NEW bound \in Nat, \A n \in S : n <= bound
  PROVE  \E m \in S : \A n \in S : n <= m
<1> DEFINE Distances == {bound - n : n \in S}
<1>1. PICK d \in Distances : \A e \in Distances : d <= e
  <2>1. Distances \in SUBSET Nat
    OBVIOUS
  <2>2. PICK n \in S : TRUE
    OBVIOUS
  <2>3. bound - n \in Distances
    OBVIOUS
  <2> HIDE DEF Distances
  <2> QED BY <2>1, <2>3, LeastExists
<1>2. PICK m \in S : d = bound - m
  OBVIOUS
<1>3. \A n \in S : bound - m <= bound - n
  BY <1>1, <1>2
<1>4. \A n \in S : n <= m
  BY <1>3
<1> QED BY <1>4

\* What holds before the first turn and goes on holding, holds after every turn.
LEMMA Turns ==
  ASSUME NEW n \in Nat, NEW S, 0 \in S,
         \A k \in 1..n : k - 1 \in S => k \in S
  PROVE  \A k \in 0..n : k \in S
<1> SUFFICES ASSUME NEW c \in 0..n, c \notin S PROVE FALSE
  OBVIOUS
<1> DEFINE Out == {k \in 0..n : k \notin S}
<1>1. PICK m \in Out : \A k \in Out : m <= k
  <2>1. Out \in SUBSET Nat /\ Out # {}
    OBVIOUS
  <2> HIDE DEF Out
  <2> QED BY <2>1, LeastExists
<1>2. m \in 1..n /\ m - 1 \in 0..n
  OBVIOUS
<1>3. m - 1 \in S
  BY <1>1, <1>2
<1> QED BY <1>2, <1>3

\* A loop with these turns has the values of a function.
IsTurn(turn, n, X) == turn \in [(1..n) \X X -> X]
Follows(f, base, n, turn, X) ==
  /\ f \in [0..n -> X]
  /\ f[0] = base
  /\ \A k \in 1..n : f[k] = turn[<<k, f[k - 1]>>]

LEMMA Recursion ==
  ASSUME NEW X, NEW base \in X, NEW n \in Nat, NEW turn, IsTurn(turn, n, X)
  PROVE  \E f : Follows(f, base, n, turn, X)
<1> USE DEF IsTurn
<1> DEFINE Upto(f, m) == f[0] = base /\ \A k \in 1..m : f[k] = turn[<<k, f[k - 1]>>]
           S == {m \in 0..n : \E f \in [0..m -> X] : Upto(f, m)}
<1>1. 0 \in S
  <2>1. [k \in 0..0 |-> base] \in [0..0 -> X] /\ Upto([k \in 0..0 |-> base], 0)
    OBVIOUS
  <2>2. \E f \in [0..0 -> X] : Upto(f, 0)
    BY <2>1, Zenon
  <2> HIDE DEF Upto
  <2> QED BY <2>2
<1>2. ASSUME NEW m \in 1..n, m - 1 \in S PROVE m \in S
  <2>1. PICK f \in [0..(m - 1) -> X] : Upto(f, m - 1)
    BY <1>2
  <2> DEFINE g == [k \in 0..m |-> IF k = m THEN turn[<<m, f[m - 1]>>] ELSE f[k]]
  <2>2. g \in [0..m -> X]
    OBVIOUS
  <2>3. g[0] = base
    BY <2>1
  <2>4. ASSUME NEW k \in 1..m PROVE g[k] = turn[<<k, g[k - 1]>>]
    <3>1. k \in 0..m /\ k - 1 \in 0..m /\ k - 1 # m
      OBVIOUS
    <3>2. g[k - 1] = f[k - 1]
      BY <3>1
    <3>3. CASE k = m
      BY <3>1, <3>2, <3>3
    <3>4. CASE k # m
      <4>1. k \in 1..(m - 1)
        BY <3>4
      <4>2. g[k] = f[k]
        BY <3>1, <3>4
      <4> QED BY <2>1, <3>2, <4>1, <4>2
    <3> QED BY <3>3, <3>4
  <2> HIDE DEF g
  <2> QED BY <2>2, <2>3, <2>4
<1> HIDE DEF S
<1>3. n \in S
  BY <1>1, <1>2, Turns
<1>4. PICK f \in [0..n -> X] : Upto(f, n)
  BY <1>3 DEF S
<1> QED BY <1>4 DEF Follows

-----------------------------------------------------------------------------
(* Sets in their order *)

\* below is a strict total order on S, given by what is before each member.
IsOrder(S, below) ==
  /\ below \in [S -> SUBSET S]
  /\ \A x \in S : x \notin below[x]
  /\ \A x \in S : \A y \in below[x] : below[y] \subseteq below[x]
  /\ \A x, y \in S : x # y => x \in below[y] \/ y \in below[x]

LEMMA RanksDiffer ==
  ASSUME NEW S, IsFiniteSet(S), NEW below, IsOrder(S, below)
  PROVE  /\ \A x \in S : Cardinality(below[x]) \in 0..(Cardinality(S) - 1)
         /\ \A x, y \in S : x \in below[y] => Cardinality(below[x]) < Cardinality(below[y])
<1>1. ASSUME NEW x \in S PROVE Cardinality(below[x]) \in 0..(Cardinality(S) - 1)
  <2>1. IsFiniteSet(S \ {x}) /\ Cardinality(S \ {x}) = Cardinality(S) - 1
    BY FS_RemoveElement
  <2>2. below[x] \in SUBSET (S \ {x})
    BY DEF IsOrder
  <2>3. IsFiniteSet(below[x]) /\ Cardinality(below[x]) <= Cardinality(S) - 1
    BY <2>1, <2>2, FS_Subset
  <2>4. Cardinality(below[x]) \in Nat /\ Cardinality(S) \in Nat
    BY <2>3, FS_CardinalityType
  <2> QED BY <2>3, <2>4
<1>2. ASSUME NEW x \in S, NEW y \in S, x \in below[y]
      PROVE  Cardinality(below[x]) < Cardinality(below[y])
  <2>1. below[x] \in SUBSET below[y] /\ below[x] # below[y]
    BY <1>2 DEF IsOrder
  <2>2. IsFiniteSet(below[y])
    BY FS_Subset DEF IsOrder
  <2>3. Cardinality(below[x]) <= Cardinality(below[y]) /\ Cardinality(below[x]) # Cardinality(below[y])
    BY <2>1, <2>2, FS_Subset
  <2>4. Cardinality(below[x]) \in Nat /\ Cardinality(below[y]) \in Nat
    BY <1>1
  <2> QED BY <2>3, <2>4
<1> QED BY <1>1, <1>2

\* Ranked lists every member once, in the order.
LEMMA RankedLists ==
  ASSUME NEW S, IsFiniteSet(S), NEW below, IsOrder(S, below)
  PROVE  /\ Ranked(S, below) \in [1..Cardinality(S) -> S]
         /\ \A x \in S : \E k \in 1..Cardinality(S) :
               Ranked(S, below)[k] = x /\ k = Cardinality(below[x]) + 1
         /\ \A j, k \in 1..Cardinality(S) :
               j < k => Ranked(S, below)[j] \in below[Ranked(S, below)[k]]
<1> DEFINE n == Cardinality(S)
           rank == [x \in S |-> Cardinality(below[x]) + 1]
<1>0. n \in Nat
  BY FS_CardinalityType
<1>1. rank \in [S -> 1..n]
  BY <1>0, RanksDiffer
<1>2. \A x, y \in S : rank[x] = rank[y] => x = y
  BY <1>0, RanksDiffer DEF IsOrder
<1>3. rank \in Injection(S, 1..n)
  BY <1>1, <1>2 DEF Injection, IsInjective
<1>4. IsFiniteSet(1..n) /\ Cardinality(1..n) = n
  BY <1>0, FS_Interval
<1>5. rank \in Surjection(S, 1..n)
  <2> HIDE DEF rank
  <2> QED BY <1>3, <1>4, FS_Injection
<1>6. \A k \in 1..n : \E x \in S : rank[x] = k
  BY <1>5 DEF Surjection
<1> DEFINE R == Ranked(S, below)
<1>7. ASSUME NEW k \in 1..n
      PROVE  R[k] \in S /\ Cardinality(below[R[k]]) = k - 1
  <2>1. PICK x \in S : rank[x] = k
    BY <1>6
  <2>2. Cardinality(below[x]) = k - 1
    BY <1>0, <2>1, RanksDiffer
  <2>3. R[k] = CHOOSE y \in S : Cardinality(below[y]) = k - 1
    BY DEF Ranked
  <2> HIDE DEF R
  <2> QED BY <2>2, <2>3
<1>8. R = [k \in 1..n |-> R[k]]
  BY DEF Ranked
<1>9. R \in [1..n -> S]
  <2> HIDE DEF R, n
  <2> QED BY <1>7, <1>8
<1>10. ASSUME NEW x \in S PROVE rank[x] \in 1..n /\ R[rank[x]] = x
  <2>1. rank[x] \in 1..n
    BY <1>1
  <2>2. R[rank[x]] \in S /\ Cardinality(below[R[rank[x]]]) = rank[x] - 1
    BY <2>1, <1>7
  <2>3. rank[R[rank[x]]] = rank[x]
    <3>1. rank[R[rank[x]]] = Cardinality(below[R[rank[x]]]) + 1
      BY <2>2
    <3> HIDE DEF rank, R
    <3> QED BY <3>1, <2>1, <2>2, <1>0
  <2> HIDE DEF R, rank
  <2> QED BY <2>1, <2>2, <2>3, <1>2
<1>11. ASSUME NEW j \in 1..n, NEW k \in 1..n, j < k PROVE R[j] \in below[R[k]]
  <2>1. R[j] \in S /\ R[k] \in S /\ Cardinality(below[R[j]]) = j - 1 /\ Cardinality(below[R[k]]) = k - 1
    BY <1>7
  <2> HIDE DEF R
  <2>2. R[j] # R[k]
    BY <2>1, <1>0, <1>11
  <2>3. CASE R[k] \in below[R[j]]
    <3>1. k - 1 < j - 1
      BY <2>1, <2>3, RanksDiffer
    <3> QED BY <3>1, <1>0, <1>11
  <2> QED BY <2>1, <2>2, <2>3 DEF IsOrder
<1> QED BY <1>9, <1>10, <1>11

\* Numbers in their order
LEMMA InOrderLists ==
  ASSUME NEW numbers \in SUBSET Int, IsFiniteSet(numbers)
  PROVE  /\ InOrder(numbers) \in [1..Cardinality(numbers) -> numbers]
         /\ Cardinality(numbers) \in Nat
         /\ \A x \in numbers : \E k \in 1..Cardinality(numbers) :
               InOrder(numbers)[k] = x /\ k = Cardinality({j \in numbers : j < x}) + 1
         /\ \A j, k \in 1..Cardinality(numbers) :
               j < k => InOrder(numbers)[j] < InOrder(numbers)[k]
<1> DEFINE below == [i \in numbers |-> {j \in numbers : j < i}]
<1>1. IsOrder(numbers, below)
  <2>1. below \in [numbers -> SUBSET numbers]
    OBVIOUS
  <2>2. ASSUME NEW x \in numbers, NEW y \in below[x] PROVE below[y] \subseteq below[x]
    <3>1. y \in numbers /\ y < x
      OBVIOUS
    <3>2. below[y] = {j \in numbers : j < y} /\ below[x] = {j \in numbers : j < x}
      BY <3>1
    <3>3. \A j \in numbers : j < y => j < x
      BY <3>1
    <3> QED BY <3>2, <3>3
  <2>3. \A x, y \in numbers : x # y => x \in below[y] \/ y \in below[x]
    OBVIOUS
  <2>4. \A x \in numbers : x \notin below[x]
    OBVIOUS
  <2> HIDE DEF below
  <2> QED BY <2>1, <2>2, <2>3, <2>4 DEF IsOrder
<1>2. Cardinality(numbers) \in Nat
  BY FS_CardinalityType
<1>3. InOrder(numbers) = Ranked(numbers, below)
  BY DEF InOrder
<1>4. \A x \in numbers : below[x] = {j \in numbers : j < x}
  OBVIOUS
<1>5. \A x \in numbers : \A y \in below[x] : y < x
  OBVIOUS
<1> HIDE DEF below
<1> DEFINE n == Cardinality(numbers)
           R == Ranked(numbers, below)
<1>6. /\ R \in [1..n -> numbers]
      /\ \A x \in numbers : \E k \in 1..n : R[k] = x /\ k = Cardinality(below[x]) + 1
      /\ \A j, k \in 1..n : j < k => R[j] \in below[R[k]]
  BY <1>1, RankedLists
<1>7. \A x \in numbers : \E k \in 1..n : R[k] = x /\ k = Cardinality({j \in numbers : j < x}) + 1
  BY <1>4, <1>6, Zenon
<1>8. \A j, k \in 1..n : j < k => R[j] < R[k]
  <2> HIDE DEF R, n
  <2> QED BY <1>5, <1>6
<1> HIDE DEF R
<1>9. InOrder(numbers) = R
  BY <1>3 DEF R
<1> QED BY <1>2, <1>6, <1>7, <1>8, <1>9, Zenon

-----------------------------------------------------------------------------
(* Sorting and merging patches *)

LEMMA PatchFacts ==
  ASSUME NEW size \in Nat, NEW p \in PatchesOf(size)
  PROVE  /\ p.left \in 0..size /\ p.right \in 0..size /\ p.left <= p.right
         /\ p.value \in {NoValue, 2}
         /\ p = [left |-> p.left, right |-> p.right, value |-> p.value]
BY DEF PatchesOf

\* The order of the sorting key is total on the positions of a list.
Comes(ps, j, i) == Precedes(ps[j], ps[i]) \/ (ps[j] = ps[i] /\ j < i)
ComesBefore(ps) == [i \in DOMAIN ps |-> {j \in DOMAIN ps : Comes(ps, j, i)}]

LEMMA KeyIsOrder ==
  ASSUME NEW size \in Nat, NEW ps \in Seq(PatchesOf(size))
  PROVE  IsOrder(DOMAIN ps, ComesBefore(ps))
<1> DEFINE D == DOMAIN ps
           B == ComesBefore(ps)
<1>0. D = 1..Len(ps) /\ Len(ps) \in Nat /\ \A i \in D : ps[i] \in PatchesOf(size)
  OBVIOUS
<1>1. B \in [D -> SUBSET D]
  BY DEF ComesBefore
<1>2. \A i, j \in D : j \in B[i] <=> Comes(ps, j, i)
  BY DEF ComesBefore
<1>3. \A i \in D : /\ ps[i].left \in Int /\ ps[i].right \in Int /\ ps[i].value \in Int
                   /\ ps[i] = [left |-> ps[i].left, right |-> ps[i].right, value |-> ps[i].value]
  BY <1>0, PatchFacts DEF NoValue
<1>4. \A i \in D : ~Comes(ps, i, i)
  BY <1>0, <1>3 DEF Comes, Precedes
<1>5. \A i, j, k \in D : Comes(ps, j, i) /\ Comes(ps, k, j) => Comes(ps, k, i)
  <2> SUFFICES ASSUME NEW i \in D, NEW j \in D, NEW k \in D, Comes(ps, j, i), Comes(ps, k, j)
               PROVE  Comes(ps, k, i)
    OBVIOUS
  <2>1. i \in Int /\ j \in Int /\ k \in Int
    BY <1>0
  <2>2. CASE ps[j] = ps[i] /\ j < i
    BY <2>1, <2>2 DEF Comes
  <2>3. CASE Precedes(ps[j], ps[i]) /\ ps[k] = ps[j]
    BY <2>3 DEF Comes
  <2>4. CASE Precedes(ps[j], ps[i]) /\ Precedes(ps[k], ps[j])
    BY <1>3, <2>4 DEF Comes, Precedes
  <2> QED BY <2>2, <2>3, <2>4 DEF Comes
<1>6. \A i, j \in D : i # j => Comes(ps, i, j) \/ Comes(ps, j, i)
  <2> SUFFICES ASSUME NEW i \in D, NEW j \in D, i # j PROVE Comes(ps, i, j) \/ Comes(ps, j, i)
    OBVIOUS
  <2>1. i < j \/ j < i
    BY <1>0
  <2>2. CASE ps[i] = ps[j]
    BY <2>1, <2>2 DEF Comes
  <2>3. CASE ps[i] # ps[j]
    <3>1. ps[i].left # ps[j].left \/ ps[i].right # ps[j].right \/ ps[i].value # ps[j].value
      BY <1>3, <2>3
    <3> QED BY <1>3, <3>1 DEF Comes, Precedes
  <2> QED BY <2>2, <2>3
<1>7. \A i \in D : i \notin B[i]
  BY <1>2, <1>4
<1>8. \A i \in D : \A j \in B[i] : B[j] \subseteq B[i]
  <2> SUFFICES ASSUME NEW i \in D, NEW j \in B[i], NEW k \in B[j] PROVE k \in B[i]
    OBVIOUS
  <2>1. j \in D /\ k \in D
    BY <1>1
  <2> HIDE DEF D, B
  <2> QED BY <2>1, <1>2, <1>5
<1>9. \A i, j \in D : i # j => i \in B[j] \/ j \in B[i]
  BY <1>2, <1>6
<1> QED
  <2> HIDE DEF D, B
  <2>1. IsOrder(D, B)
    BY <1>1, <1>7, <1>8, <1>9 DEF IsOrder
  <2> QED BY <2>1 DEF D, B

\* Sorting a list of patches keeps the patches and puts them in order of their left ends.
LEMMA SortedLists ==
  ASSUME NEW size \in Nat, NEW ps \in Seq(PatchesOf(size))
  PROVE  /\ Sorted(ps) \in [1..Len(ps) -> PatchesOf(size)]
         /\ ToSet(ps) = {Sorted(ps)[k] : k \in 1..Len(ps)}
         /\ \A j, k \in 1..Len(ps) : j < k => Sorted(ps)[j].left <= Sorted(ps)[k].left
<1> DEFINE D == DOMAIN ps
           B == ComesBefore(ps)
           n == Len(ps)
           R == Ranked(D, B)
<1>0. D = 1..n /\ n \in Nat /\ \A i \in D : ps[i] \in PatchesOf(size)
  OBVIOUS
<1>1. IsFiniteSet(D) /\ Cardinality(D) = n
  <2> HIDE DEF D, n
  <2>1. IsFiniteSet(1..n) /\ Cardinality(1..n) = IF 1 > n THEN 0 ELSE n - 1 + 1
    BY <1>0, FS_Interval
  <2> QED BY <1>0, <2>1
<1>2. /\ R \in [1..n -> D]
      /\ \A x \in D : \E k \in 1..n : R[k] = x
      /\ \A j, k \in 1..n : j < k => R[j] \in B[R[k]]
  <2>1. IsOrder(D, B)
    BY KeyIsOrder
  <2> HIDE DEF D, B, n
  <2> QED BY <1>1, <2>1, RankedLists
<1>3. Sorted(ps) = [k \in 1..n |-> ps[R[k]]]
  BY <1>0 DEF Sorted, ComesBefore, Comes
<1>4. \A j, k \in 1..n : j < k => Comes(ps, R[j], R[k])
  <2>1. \A i \in D : B[i] = {j \in D : Comes(ps, j, i)}
    BY DEF ComesBefore
  <2> HIDE DEF D, B, n, R
  <2> QED BY <1>2, <2>1
<1>5. \A j, k \in 1..n : j < k => ps[R[j]].left <= ps[R[k]].left
  <2> SUFFICES ASSUME NEW j \in 1..n, NEW k \in 1..n, j < k PROVE ps[R[j]].left <= ps[R[k]].left
    OBVIOUS
  <2>1. Comes(ps, R[j], R[k]) /\ R[j] \in D /\ R[k] \in D
    BY <1>2, <1>4
  <2> HIDE DEF D, R
  <2>2. ps[R[j]] \in PatchesOf(size) /\ ps[R[k]] \in PatchesOf(size)
    BY <1>0, <2>1
  <2>3. ps[R[j]].left \in Int /\ ps[R[k]].left \in Int
    BY <2>2, PatchFacts
  <2> QED BY <2>1, <2>3 DEF Comes, Precedes
<1>6. ToSet(ps) = {ps[i] : i \in D}
  BY DEF ToSet
<1> HIDE DEF D, B, n, R
<1>7. {ps[i] : i \in D} = {ps[R[k]] : k \in 1..n}
  BY <1>2
<1>8. \A k \in 1..n : Sorted(ps)[k] = ps[R[k]]
  BY <1>3
<1>9. {ps[R[k]] : k \in 1..n} = {Sorted(ps)[k] : k \in 1..n}
  BY <1>8
<1>10. Sorted(ps) \in [1..n -> PatchesOf(size)]
  BY <1>0, <1>2, <1>3
<1>11. \A j, k \in 1..n : j < k => Sorted(ps)[j].left <= Sorted(ps)[k].left
  BY <1>5, <1>8
<1>12. ToSet(ps) = {Sorted(ps)[k] : k \in 1..n}
  BY <1>6, <1>7, <1>9
<1> QED BY <1>10, <1>11, <1>12 DEF n

LEMMA OfTwo ==
  ASSUME NEW a \in Int, NEW b \in Int
  PROVE  /\ Max({a, b}) = IF a >= b THEN a ELSE b
         /\ Min({a, b}) = IF a <= b THEN a ELSE b
<1>1. Max({a, b}) \in {a, b} /\ Max({a, b}) >= a /\ Max({a, b}) >= b
  <2>1. \E x \in {a, b} : \A y \in {a, b} : x >= y
    BY a >= b \/ b >= a
  <2> QED BY <2>1 DEF Max
<1>2. Min({a, b}) \in {a, b} /\ Min({a, b}) <= a /\ Min({a, b}) <= b
  <2>1. \E x \in {a, b} : \A y \in {a, b} : x =< y
    BY a <= b \/ b <= a
  <2> QED BY <2>1 DEF Min
<1> QED BY <1>1, <1>2

\* What overlaps begins within the previous patch or at its end; what does not, begins
\* behind it.
LEMMA OverlapMeans ==
  ASSUME NEW size \in Nat, NEW p \in PatchesOf(size), NEW c \in PatchesOf(size), p.left <= c.left
  PROVE  IF Overlap(p, c) THEN c.left <= p.right ELSE p.right <= c.left
<1>1. /\ p.left \in Int /\ p.right \in Int /\ c.left \in Int /\ c.right \in Int
      /\ p.left <= p.right /\ c.left <= c.right
  BY PatchFacts
<1>2. Max({p.left, c.left}) = c.left
  BY <1>1, OfTwo
<1>3. Min({p.right, c.right}) = IF p.right <= c.right THEN p.right ELSE c.right
  BY <1>1, OfTwo
<1> QED BY <1>1, <1>2, <1>3 DEF Overlap

\* The end of the previous patch when it is extended
Extended(p, c) == IF p.right >= c.right THEN p.right ELSE c.right

\* One turn of the merging: append the patch, or extend the last one.
LEMMA MergePatchDoes ==
  ASSUME NEW size \in Nat, NEW m \in Seq(PatchesOf(size)), NEW c \in PatchesOf(size)
  PROVE  /\ MergePatch(m, c) \in Seq(PatchesOf(size))
         /\ (m = <<>> \/ ~Overlap(m[Len(m)], c)) => MergePatch(m, c) = Append(m, c)
         /\ (m # <<>> /\ Overlap(m[Len(m)], c)) =>
               /\ Len(MergePatch(m, c)) = Len(m)
               /\ \A k \in 1..(Len(m) - 1) : MergePatch(m, c)[k] = m[k]
               /\ MergePatch(m, c)[Len(m)].left = m[Len(m)].left
               /\ MergePatch(m, c)[Len(m)].right = Extended(m[Len(m)], c)
<1>1. CASE m = <<>> \/ ~Overlap(m[Len(m)], c)
  <2>1. MergePatch(m, c) = Append(m, c)
    BY <1>1 DEF MergePatch, Last
  <2> QED BY <1>1, <2>1
<1>2. CASE m # <<>> /\ Overlap(m[Len(m)], c)
  <2> DEFINE n == Len(m)
             l == m[n]
             d == [m EXCEPT ![n].right = Max({@, c.right})]
  <2>1. n \in Nat \ {0} /\ l \in PatchesOf(size)
    BY <1>2
  <2>2. MergePatch(m, c) = d
    BY <1>2 DEF MergePatch, Last
  <2>3. Max({l.right, c.right}) = Extended(l, c) /\ Extended(l, c) \in 0..size /\ l.left <= Extended(l, c)
    <3>1. l.right \in 0..size /\ c.right \in 0..size /\ l.left \in 0..size /\ l.left <= l.right
      BY <2>1, PatchFacts
    <3> HIDE DEF l
    <3> QED BY <3>1, OfTwo DEF Extended
  <2>4. d = [k \in 1..n |-> IF k = n THEN [l EXCEPT !.right = Extended(l, c)] ELSE m[k]]
    <3>1. d = [m EXCEPT ![n] = [l EXCEPT !.right = Max({l.right, c.right})]]
      OBVIOUS
    <3>2. d = [m EXCEPT ![n] = [l EXCEPT !.right = Extended(l, c)]]
      BY <3>1, <2>3
    <3>3. DOMAIN m = 1..n /\ m = [k \in 1..n |-> m[k]]
      OBVIOUS
    <3> HIDE DEF l, d
    <3> QED BY <3>2, <3>3
  <2>5. /\ [l EXCEPT !.right = Extended(l, c)] \in PatchesOf(size)
        /\ [l EXCEPT !.right = Extended(l, c)].left = l.left
        /\ [l EXCEPT !.right = Extended(l, c)].right = Extended(l, c)
    <3> HIDE DEF l
    <3>1. l \in [left : 0..size, right : 0..size, value : {NoValue, 2}]
      BY <2>1 DEF PatchesOf
    <3> QED BY <2>3, <3>1 DEF PatchesOf
  <2>6. \A k \in 1..n : m[k] \in PatchesOf(size)
    OBVIOUS
  <2> HIDE DEF l, d
  <2>7. d \in [1..n -> PatchesOf(size)]
    BY <2>4, <2>5, <2>6
  <2>8. d \in Seq(PatchesOf(size)) /\ Len(d) = n
    <3>1. Len(d) = n
      <4> HIDE DEF n
      <4> QED BY <2>1, <2>7
    <3>2. d \in Seq(PatchesOf(size))
      <4> HIDE DEF n
      <4> QED BY <2>1, <2>7
    <3> QED BY <3>1, <3>2
  <2>9. d[n].left = l.left /\ d[n].right = Extended(l, c) /\ \A k \in 1..(n - 1) : d[k] = m[k]
    <3>1. d[n] = [l EXCEPT !.right = Extended(l, c)]
      <4> HIDE DEF n
      <4> QED BY <2>1, <2>4
    <3>2. \A k \in 1..(n - 1) : d[k] = m[k]
      <4> HIDE DEF n
      <4> QED BY <2>1, <2>4
    <3> QED BY <2>5, <3>1, <3>2
  <2> QED BY <1>2, <2>2, <2>8, <2>9 DEF l
<1> QED BY <1>1, <1>2

LEMMA MergingTurns ==
  ASSUME NEW size \in Nat, NEW ps \in Seq(PatchesOf(size))
  PROVE  /\ Merging(ps)[0] = <<>>
         /\ \A k \in 1..Len(ps) : Merging(ps)[k] = MergePatch(Merging(ps)[k - 1], Sorted(ps)[k])
<1> DEFINE n == Len(ps)
           s == Sorted(ps)
           Lists == Seq(PatchesOf(size))
           start == <<>>
           step == [kx \in (1..n) \X Lists |-> MergePatch(kx[2], s[kx[1]])]
           Eq(f) == f = [k \in 0..n |-> IF k = 0 THEN <<>> ELSE MergePatch(f[k - 1], s[k])]
<1>0. n \in Nat /\ s \in [1..n -> PatchesOf(size)] /\ <<>> \in Lists
  BY SortedLists
<1>1. IsTurn(step, n, Lists)
  <2> HIDE DEF s, n
  <2> QED BY <1>0, MergePatchDoes DEF IsTurn
<1>2. \A k \in 1..n, x \in Lists : step[<<k, x>>] = MergePatch(x, s[k])
  <2> HIDE DEF s, n, Lists
  <2> QED OBVIOUS
<1>3. PICK f : Follows(f, start, n, step, Lists)
  <2>1. start \in Lists
    BY <1>0
  <2> HIDE DEF step, Lists, n, s, start
  <2> QED BY <1>0, <1>1, <2>1, Recursion
<1>4. \A k \in 0..n : f[k] = IF k = 0 THEN <<>> ELSE MergePatch(f[k - 1], s[k])
  <2> HIDE DEF step, Lists, n, s
  <2>1. \A k \in 1..n : f[k - 1] \in Lists
    BY <1>0, <1>3 DEF Follows
  <2>2. \A k \in 1..n : f[k] = MergePatch(f[k - 1], s[k])
    BY <1>2, <1>3, <2>1 DEF Follows
  <2> QED BY <1>0, <1>3, <2>2 DEF start, Follows
<1>5. Eq(f)
  <2> HIDE DEF step, Lists, n, s
  <2>1. f = [k \in 0..n |-> f[k]]
    BY <1>3 DEF Follows
  <2> QED BY <1>0, <1>4, <2>1
<1>6. Merging(ps) = CHOOSE g : Eq(g)
  BY DEF Merging
<1>7. Eq(Merging(ps))
  <2> HIDE DEF Eq
  <2> QED BY <1>5, <1>6
<1>8. Merging(ps)[0] = <<>> /\ \A k \in 1..n : Merging(ps)[k] = MergePatch(Merging(ps)[k - 1], s[k])
  <2> HIDE DEF Lists, n, s
  <2> QED BY <1>0, <1>7
<1> QED BY <1>8

\* A place that is within a patch
In(x, p) == p.left < x /\ x <= p.right

Apart(m) == \A j, k \in 1..Len(m) : j < k => m[j].right <= m[k].left

\* What holds of the merged patches m after i of the sorted patches s
MergedWell(m, s, i, size) ==
  /\ m \in Seq(PatchesOf(size))
  /\ Apart(m)
  /\ m # <<>> => i >= 1 /\ m[Len(m)].left <= s[i].left
  /\ \A x \in Int : (\E k \in 1..Len(m) : In(x, m[k])) <=> (\E j \in 1..i : In(x, s[j]))

LEMMA MergeTurn ==
  ASSUME NEW size \in Nat, NEW n \in Nat, NEW s \in [1..n -> PatchesOf(size)], NEW i \in 1..n,
         i > 1 => s[i - 1].left <= s[i].left,
         NEW m, MergedWell(m, s, i - 1, size)
  PROVE  MergedWell(MergePatch(m, s[i]), s, i, size)
<1> DEFINE c == s[i]
           d == MergePatch(m, c)
           l == Len(m)
<1>0. m \in Seq(PatchesOf(size)) /\ c \in PatchesOf(size) /\ l \in Nat
  BY DEF MergedWell
<1>1. /\ c.left \in Int /\ c.right \in Int /\ c.left <= c.right
      /\ \A k \in 1..l : m[k].left \in Int /\ m[k].right \in Int /\ m[k].left <= m[k].right
  <2>1. \A k \in 1..l : m[k] \in PatchesOf(size)
    BY <1>0
  <2> QED BY <1>0, <2>1, PatchFacts
<1>2. ASSUME m # <<>>
      PROVE  l \in 1..l /\ m[l].left <= c.left
  <2>1. i - 1 >= 1 /\ m[l].left <= s[i - 1].left
    BY <1>2 DEF MergedWell
  <2>2. s[i - 1] \in PatchesOf(size)
    BY <2>1
  <2>3. s[i - 1].left \in Int /\ l \in 1..l
    BY <1>0, <1>2, <2>2, PatchFacts
  <2> HIDE DEF c
  <2> QED BY <1>1, <2>1, <2>3 DEF c
<1>3. \A x \in Int : (\E j \in 1..i : In(x, s[j])) <=> (\E j \in 1..(i - 1) : In(x, s[j])) \/ In(x, c)
  <2>1. \A j \in 1..i : j \in 1..(i - 1) \/ j = i
    OBVIOUS
  <2> QED BY <2>1
<1>4. CASE m = <<>> \/ ~Overlap(m[l], c)
  <2>1. d = Append(m, c) /\ d \in Seq(PatchesOf(size))
    BY <1>0, <1>4, MergePatchDoes
  <2>2. Len(d) = l + 1 /\ d[l + 1] = c /\ \A k \in 1..l : d[k] = m[k]
    BY <1>0, <2>1
  <2>3. \A k \in 1..l : m[k].right <= c.left
    <3> SUFFICES ASSUME NEW k \in 1..l PROVE m[k].right <= c.left
      OBVIOUS
    <3>1. m # <<>>
      BY <1>0
    <3>2. ~Overlap(m[l], c) /\ m[l].left <= c.left /\ l \in 1..l /\ m[l] \in PatchesOf(size)
      BY <1>0, <1>2, <1>4, <3>1
    <3>3. m[l].right <= c.left
      BY <1>0, <3>2, OverlapMeans
    <3>4. CASE k = l
      BY <3>3, <3>4
    <3>5. CASE k < l
      <4>1. m[k].right <= m[l].left
        BY <3>2, <3>5 DEF MergedWell, Apart
      <4> HIDE DEF c
      <4> QED BY <1>1, <3>2, <3>3, <4>1
    <3> QED BY <1>0, <3>4, <3>5
  <2>4. Apart(d)
    <3> SUFFICES ASSUME NEW j \in 1..(l + 1), NEW k \in 1..(l + 1), j < k
                 PROVE  d[j].right <= d[k].left
      BY <2>2 DEF Apart
    <3>1. j \in 1..l /\ d[j] = m[j]
      BY <1>0, <2>2
    <3>2. CASE k = l + 1
      BY <2>2, <2>3, <3>1, <3>2
    <3>3. CASE k # l + 1
      <4>1. k \in 1..l /\ d[k] = m[k]
        BY <1>0, <2>2, <3>3
      <4> QED BY <3>1, <4>1 DEF MergedWell, Apart
    <3> QED BY <3>2, <3>3
  <2>5. \A x \in Int : (\E k \in 1..Len(d) : In(x, d[k])) <=> (\E k \in 1..l : In(x, m[k])) \/ In(x, c)
    <3>1. \A k \in 1..(l + 1) : k \in 1..l \/ k = l + 1
      BY <1>0
    <3>2. l + 1 \in 1..(l + 1) /\ \A k \in 1..l : k \in 1..(l + 1)
      BY <1>0
    <3> HIDE DEF d, c, l
    <3> QED BY <2>2, <3>1, <3>2
  <2>6. d[Len(d)].left <= c.left
    <3> HIDE DEF d, c
    <3> QED BY <1>1, <2>2
  <2>7. \A x \in Int : (\E k \in 1..Len(d) : In(x, d[k])) <=> (\E j \in 1..i : In(x, s[j]))
    <3>1. \A x \in Int : (\E k \in 1..l : In(x, m[k])) <=> (\E j \in 1..(i - 1) : In(x, s[j]))
      BY DEF MergedWell
    <3> HIDE DEF d, c, l
    <3> QED BY <1>3, <2>5, <3>1
  <2>8. MergedWell(d, s, i, size)
    <3>1. d # <<>> => i >= 1 /\ d[Len(d)].left <= s[i].left
      BY <2>6
    <3>2. d \in Seq(PatchesOf(size))
      BY <2>1
    <3> HIDE DEF d, c
    <3> QED BY <3>1, <3>2, <2>4, <2>7 DEF MergedWell
  <2> QED BY <2>8
<1>5. CASE m # <<>> /\ Overlap(m[l], c)
  <2>1. /\ d \in Seq(PatchesOf(size)) /\ Len(d) = l
        /\ \A k \in 1..(l - 1) : d[k] = m[k]
        /\ d[l].left = m[l].left /\ d[l].right = Extended(m[l], c)
    BY <1>0, <1>5, MergePatchDoes
  <2>2. l \in 1..l /\ m[l].left <= c.left /\ m[l] \in PatchesOf(size)
    BY <1>0, <1>2, <1>5
  <2>3. c.left <= m[l].right
    BY <1>0, <1>5, <2>2, OverlapMeans
  <2>4. Apart(d)
    <3> SUFFICES ASSUME NEW j \in 1..l, NEW k \in 1..l, j < k
                 PROVE  d[j].right <= d[k].left
      BY <2>1 DEF Apart
    <3>1. d[j] = m[j] /\ m[j].right <= m[k].left
      BY <1>0, <2>1 DEF MergedWell, Apart
    <3>2. d[k].left = m[k].left
      <4>1. k = l \/ k \in 1..(l - 1)
        BY <1>0
      <4> QED BY <2>1, <4>1
    <3> HIDE DEF d, l
    <3> QED BY <3>1, <3>2
  <2>5. \A x \in Int : In(x, d[l]) <=> In(x, m[l]) \/ In(x, c)
    <3> HIDE DEF d, c
    <3> QED BY <1>1, <2>1, <2>2, <2>3 DEF In, Extended
  <2>6. \A x \in Int : (\E k \in 1..Len(d) : In(x, d[k])) <=> (\E k \in 1..l : In(x, m[k])) \/ In(x, c)
    <3>1. \A k \in 1..l : k \in 1..(l - 1) \/ k = l
      BY <1>0
    <3>2. \A k \in 1..l, x \in Int : In(x, d[k]) <=> In(x, m[k]) \/ (k = l /\ In(x, c))
      <4> SUFFICES ASSUME NEW k \in 1..l, NEW x \in Int
                   PROVE  In(x, d[k]) <=> In(x, m[k]) \/ (k = l /\ In(x, c))
        OBVIOUS
      <4>1. CASE k = l
        BY <2>5, <4>1
      <4>2. CASE k # l
        <5>1. k \in 1..(l - 1)
          BY <3>1, <4>2
        <5>2. d[k] = m[k]
          BY <2>1, <5>1
        <5> QED BY <4>2, <5>2
      <4> QED BY <4>1, <4>2
    <3> HIDE DEF d, c, l
    <3> QED BY <2>1, <2>2, <3>2
  <2>7. \A x \in Int : (\E k \in 1..Len(d) : In(x, d[k])) <=> (\E j \in 1..i : In(x, s[j]))
    <3>1. \A x \in Int : (\E k \in 1..l : In(x, m[k])) <=> (\E j \in 1..(i - 1) : In(x, s[j]))
      BY DEF MergedWell
    <3> HIDE DEF d, c, l
    <3> QED BY <1>3, <2>6, <3>1
  <2>8. d[Len(d)].left <= s[i].left
    <3> HIDE DEF d, l
    <3> QED BY <2>1, <2>2
  <2>9. MergedWell(d, s, i, size)
    <3> HIDE DEF d
    <3> QED BY <2>1, <2>4, <2>7, <2>8 DEF MergedWell
  <2> QED BY <2>9
<1> QED BY <1>4, <1>5

LEMMA MergedInvariant ==
  ASSUME NEW size \in Nat, NEW ps \in Seq(PatchesOf(size))
  PROVE  \A i \in 0..Len(ps) : MergedWell(Merging(ps)[i], Sorted(ps), i, size)
<1> DEFINE n == Len(ps)
           s == Sorted(ps)
           M == Merging(ps)
           S == {i \in 0..n : MergedWell(M[i], s, i, size)}
<1>0. n \in Nat /\ s \in [1..n -> PatchesOf(size)]
      /\ \A j, k \in 1..n : j < k => s[j].left <= s[k].left
  BY SortedLists
<1>1. M[0] = <<>> /\ \A k \in 1..n : M[k] = MergePatch(M[k - 1], s[k])
  BY MergingTurns
<1> HIDE DEF n, s, M
<1>2. 0 \in S
  <2>1. MergedWell(<<>>, s, 0, size)
    BY DEF MergedWell, Apart
  <2> QED BY <1>0, <1>1, <2>1
<1>3. ASSUME NEW i \in 1..n, i - 1 \in S PROVE i \in S
  <2>1. MergedWell(M[i - 1], s, i - 1, size)
    BY <1>3
  <2>2. i > 1 => s[i - 1].left <= s[i].left
    BY <1>0
  <2>3. MergedWell(MergePatch(M[i - 1], s[i]), s, i, size)
    BY <1>0, <2>1, <2>2, MergeTurn
  <2> QED BY <1>0, <1>1, <2>3
<1> HIDE DEF S
<1>4. \A i \in 0..n : i \in S
  BY <1>0, <1>2, <1>3, Turns
<1> QED BY <1>4 DEF S, n, s, M

LEMMA CoveredMeans ==
  ASSUME NEW size \in Nat, NEW ps \in Seq(PatchesOf(size)), NEW x
  PROVE  x \in Covered(ps) <=> x \in Int /\ \E k \in 1..Len(ps) : In(x, ps[k])
<1>1. \A k \in 1..Len(ps) : ps[k] \in PatchesOf(size)
  OBVIOUS
<1>2. \A k \in 1..Len(ps) : ps[k].left \in Int /\ ps[k].right \in Int
  BY <1>1, PatchFacts
<1>3. \A k \in 1..Len(ps) : x \in (ps[k].left + 1)..ps[k].right <=> x \in Int /\ In(x, ps[k])
  BY <1>2 DEF In
<1>4. x \in Covered(ps) <=> \E k \in 1..Len(ps) : x \in (ps[k].left + 1)..ps[k].right
  BY DEF Covered, ToSet
<1> QED BY <1>3, <1>4

\* Merging keeps what is covered, and its patches are in order and apart.
LEMMA MergeFacts ==
  ASSUME NEW size \in Nat, NEW ps \in Seq(PatchesOf(size))
  PROVE  /\ Merge(ps) \in Seq(PatchesOf(size))
         /\ Apart(Merge(ps))
         /\ \A x \in Int : (\E k \in 1..Len(Merge(ps)) : In(x, Merge(ps)[k])) <=> x \in Covered(ps)
<1> DEFINE n == Len(ps)
           s == Sorted(ps)
           m == Merge(ps)
<1>1. MergedWell(m, s, n, size)
  BY MergedInvariant DEF Merge
<1>2. ToSet(ps) = {s[k] : k \in 1..n}
  BY SortedLists
<1>3. ToSet(ps) = {ps[k] : k \in 1..n}
  BY DEF ToSet
<1>4. \A x \in Int : (\E k \in 1..n : In(x, ps[k])) <=> (\E k \in 1..n : In(x, s[k]))
  <2> HIDE DEF s, n
  <2>1. \A x \in Int : (\E k \in 1..n : In(x, ps[k])) <=> (\E p \in ToSet(ps) : In(x, p))
    BY <1>3
  <2>2. \A x \in Int : (\E k \in 1..n : In(x, s[k])) <=> (\E p \in ToSet(ps) : In(x, p))
    BY <1>2
  <2> QED BY <2>1, <2>2
<1>5. \A x \in Int : x \in Covered(ps) <=> \E k \in 1..n : In(x, ps[k])
  BY CoveredMeans
<1> HIDE DEF m, n, s
<1>6. /\ m \in Seq(PatchesOf(size))
      /\ Apart(m)
      /\ \A x \in Int : (\E k \in 1..Len(m) : In(x, m[k])) <=> x \in Covered(ps)
  BY <1>1, <1>4, <1>5 DEF MergedWell
<1> QED BY <1>6 DEF m

-----------------------------------------------------------------------------
(* Applying patches *)

LEMMA ConcatAt ==
  ASSUME NEW S, NEW s \in Seq(S), NEW t \in Seq(S)
  PROVE  /\ s \o t \in Seq(S)
         /\ Len(s \o t) = Len(s) + Len(t)
         /\ \A i \in 1..(Len(s) + Len(t)) :
               (s \o t)[i] = IF i <= Len(s) THEN s[i] ELSE t[i - Len(s)]
OBVIOUS

LEMMA ChunkIs ==
  ASSUME NEW from \in Int, NEW to \in Int
  PROVE  /\ Chunk(from, to) \in Seq(Int)
         /\ from <= to => Len(Chunk(from, to)) = to - from
         /\ \A k \in 1..(to - from) : Chunk(from, to)[k] = from + k - 1
<1>1. Chunk(from, to) \in [1..(to - from) -> Int]
  BY DEF Chunk
<1>2. CASE from <= to
  <2>1. to - from \in Nat
    BY <1>2
  <2> DEFINE w == to - from
             c == Chunk(from, to)
  <2>2. c \in [1..w -> Int] /\ w \in Nat
    BY <1>1, <2>1
  <2>3. c \in Seq(Int) /\ Len(c) = w
    <3> HIDE DEF c, w
    <3> QED BY <2>2
  <2> QED BY <2>3 DEF Chunk
<1>3. CASE ~(from <= to)
  <2>1. 1..(to - from) = 1..0
    BY <1>3
  <2>2. Chunk(from, to) \in Seq(Int)
    <3> DEFINE c == Chunk(from, to)
    <3>1. c \in [1..0 -> Int]
      BY <1>1, <2>1
    <3> HIDE DEF c
    <3>2. c \in Seq(Int)
      BY <3>1
    <3> QED BY <3>2 DEF c
  <2> QED BY <1>3, <2>2 DEF Chunk
<1> QED BY <1>2, <1>3

LEMMA InsertionIs ==
  ASSUME NEW size \in Nat, NEW p \in PatchesOf(size)
  PROVE  /\ InsertedBy(p) \in Nat
         /\ [k \in 1..InsertedBy(p) |-> Inserted] \in Seq(Int)
         /\ Len([k \in 1..InsertedBy(p) |-> Inserted]) = InsertedBy(p)
<1> DEFINE w == InsertedBy(p)
           c == [k \in 1..w |-> Inserted]
<1>1. w \in Nat
  BY PatchFacts DEF InsertedBy, NoValue
<1>2. c \in [1..w -> Int]
  BY DEF Inserted
<1>3. c \in Seq(Int) /\ Len(c) = w
  <2> HIDE DEF c, w
  <2> QED BY <1>1, <1>2
<1> QED BY <1>1, <1>3

Done == [data : Seq(Int), start : Int]

\* One turn of applying: what is between the last patch and this one, then the replacement.
LEMMA ApplyPatchDoes ==
  ASSUME NEW size \in Nat, NEW done \in Done, NEW p \in PatchesOf(size)
  PROVE  /\ ApplyPatch(done, p) \in Done
         /\ ApplyPatch(done, p).start = p.right
         /\ done.start <= p.left =>
               LET l == Len(done.data)
                   w == p.left - done.start
                   d == ApplyPatch(done, p).data
               IN /\ Len(d) = l + w + InsertedBy(p)
                  /\ \A i \in 1..l : d[i] = done.data[i]
                  /\ \A i \in (l + 1)..(l + w) : d[i] = done.start + i - l - 1
                  /\ \A i \in (l + w + 1)..(l + w + InsertedBy(p)) : d[i] = Inserted
<1> DEFINE a == done.data
           b == Chunk(done.start, p.left)
           c == [k \in 1..InsertedBy(p) |-> Inserted]
           w == p.left - done.start
           l == Len(a)
           e == InsertedBy(p)
           d == (a \o b) \o c
<1>0. /\ a \in Seq(Int) /\ done.start \in Int /\ p.left \in Int /\ p.right \in Int /\ l \in Nat
  BY PatchFacts DEF Done
<1>1. /\ b \in Seq(Int)
      /\ done.start <= p.left => Len(b) = w
      /\ \A k \in 1..w : b[k] = done.start + k - 1
  BY <1>0, ChunkIs
<1>2. c \in Seq(Int) /\ Len(c) = e /\ e \in Nat /\ \A k \in 1..e : c[k] = Inserted
  BY InsertionIs
<1>3. ApplyPatch(done, p) = [data |-> d, start |-> p.right]
  BY DEF ApplyPatch
<1> HIDE DEF a, b, c, e, l
<1>4. /\ a \o b \in Seq(Int) /\ Len(a \o b) = l + Len(b)
      /\ \A i \in 1..(l + Len(b)) : (a \o b)[i] = IF i <= l THEN a[i] ELSE b[i - l]
  BY <1>0, <1>1, ConcatAt DEF l
<1> DEFINE ab == a \o b
<1> HIDE DEF ab
<1>5. d \in Seq(Int) /\ Len(d) = Len(ab) + e
      /\ \A i \in 1..(Len(ab) + e) : d[i] = IF i <= Len(ab) THEN ab[i] ELSE c[i - Len(ab)]
  BY <1>2, <1>4, ConcatAt DEF ab
<1>6. ASSUME done.start <= p.left
      PROVE  /\ Len(d) = l + w + e
             /\ \A i \in 1..l : d[i] = a[i]
             /\ \A i \in (l + 1)..(l + w) : d[i] = done.start + i - l - 1
             /\ \A i \in (l + w + 1)..(l + w + e) : d[i] = Inserted
  <2> HIDE DEF d
  <2>1. Len(ab) = l + w /\ w \in Nat /\ Len(b) = w
    BY <1>0, <1>1, <1>4, <1>6 DEF ab
  <2> DEFINE lw == l + w
  <2>0. lw \in Nat /\ Len(ab) = lw /\ \A i \in 1..lw : ab[i] = IF i <= l THEN a[i] ELSE b[i - l]
    BY <1>0, <1>4, <2>1 DEF ab
  <2>2. \A i \in 1..lw : d[i] = IF i <= l THEN a[i] ELSE b[i - l]
    <3> HIDE DEF lw, w
    <3>1. \A i \in 1..lw : i \in 1..(lw + e) /\ i <= lw
      BY <1>2, <2>0
    <3>2. \A i \in 1..lw : d[i] = ab[i]
      BY <1>5, <2>0, <3>1
    <3> QED BY <2>0, <3>2
  <2>3. \A i \in (lw + 1)..(lw + e) : d[i] = c[i - lw] /\ i - lw \in 1..e
    <3> HIDE DEF lw, w
    <3>1. \A i \in (lw + 1)..(lw + e) : i \in 1..(lw + e) /\ ~(i <= lw) /\ i - lw \in 1..e
      BY <1>2, <2>0
    <3> QED BY <1>5, <2>0, <3>1
  <2>4. \A i \in (l + 1)..(l + w) : i - l \in 1..w /\ i \in 1..(l + w) /\ ~(i <= l)
    <3> HIDE DEF w
    <3> QED BY <1>0, <2>1
  <2>5. Len(d) = l + w + e
    BY <1>5, <2>1
  <2>6. \A i \in 1..l : d[i] = a[i]
    <3> HIDE DEF w
    <3> QED BY <1>0, <2>1, <2>2
  <2>7. \A i \in (l + 1)..(l + w) : d[i] = done.start + (i - l) - 1
    BY <1>1, <2>2, <2>4
  <2>8. \A i \in (l + 1)..(l + w) : d[i] = done.start + i - l - 1
    <3> HIDE DEF w
    <3> QED BY <1>0, <2>1, <2>7
  <2> QED BY <1>2, <2>3, <2>5, <2>6, <2>8
<1> HIDE DEF d
<1>7. ApplyPatch(done, p) \in Done /\ ApplyPatch(done, p).start = p.right /\ ApplyPatch(done, p).data = d
  BY <1>0, <1>3, <1>5 DEF Done
<1>8. done.start <= p.left =>
             /\ Len(d) = l + w + e
             /\ \A i \in 1..l : d[i] = a[i]
             /\ \A i \in (l + 1)..(l + w) : d[i] = done.start + i - l - 1
             /\ \A i \in (l + w + 1)..(l + w + e) : d[i] = Inserted
  BY <1>6
<1> QED BY <1>7, <1>8 DEF a, l, e

LEMMA ApplyingTurns ==
  ASSUME NEW size \in Nat, NEW m \in Seq(PatchesOf(size))
  PROVE  /\ Applying(m)[0] = [data |-> <<>>, start |-> 0]
         /\ \A k \in 1..Len(m) : Applying(m)[k] = ApplyPatch(Applying(m)[k - 1], m[k])
<1> DEFINE n == Len(m)
           begin == [data |-> <<>>, start |-> 0]
           step == [kx \in (1..n) \X Done |-> ApplyPatch(kx[2], m[kx[1]])]
           Eq(f) == f = [k \in 0..n |-> IF k = 0 THEN begin ELSE ApplyPatch(f[k - 1], m[k])]
<1>0. n \in Nat /\ (\A k \in 1..n : m[k] \in PatchesOf(size)) /\ begin \in Done
  BY DEF Done
<1>1. IsTurn(step, n, Done)
  <2> HIDE DEF n
  <2> QED BY <1>0, ApplyPatchDoes DEF IsTurn
<1>2. \A k \in 1..n, x \in Done : step[<<k, x>>] = ApplyPatch(x, m[k])
  <2> HIDE DEF n
  <2> QED OBVIOUS
<1>3. PICK f : Follows(f, begin, n, step, Done)
  <2> HIDE DEF step, n, begin
  <2> QED BY <1>0, <1>1, Recursion
<1> HIDE DEF step, n, begin
<1>4. \A k \in 0..n : f[k] = IF k = 0 THEN begin ELSE ApplyPatch(f[k - 1], m[k])
  <2>1. \A k \in 1..n : f[k - 1] \in Done
    BY <1>0, <1>3 DEF Follows
  <2>2. \A k \in 1..n : f[k] = ApplyPatch(f[k - 1], m[k])
    BY <1>2, <1>3, <2>1 DEF Follows
  <2> QED BY <1>0, <1>3, <2>2 DEF Follows
<1>5. Eq(f)
  <2>1. f = [k \in 0..n |-> f[k]]
    BY <1>3 DEF Follows
  <2> QED BY <1>0, <1>4, <2>1
<1>6. Applying(m) = CHOOSE g : Eq(g)
  BY DEF Applying, n, begin
<1>7. Eq(Applying(m))
  <2> HIDE DEF Eq
  <2> QED BY <1>5, <1>6
<1>8. Applying(m)[0] = begin /\ \A k \in 1..n : Applying(m)[k] = ApplyPatch(Applying(m)[k - 1], m[k])
  BY <1>0, <1>7
<1> QED BY <1>8 DEF n, begin

\* What a patch adds to the positions behind it
Growth(p) == InsertedBy(p) - (p.right - p.left)

LEMMA DeltaTurns ==
  ASSUME NEW size \in Nat, NEW m \in Seq(PatchesOf(size))
  PROVE  /\ Delta(m)[0] = 0
         /\ \A k \in 1..Len(m) : Delta(m)[k] = Delta(m)[k - 1] + Growth(m[k])
         /\ \A k \in 0..Len(m) : Delta(m)[k] \in Int
<1> DEFINE n == Len(m)
           begin == 0
           step == [kx \in (1..n) \X Int |-> kx[2] + Growth(m[kx[1]])]
           Eq(f) == f = [k \in 0..n |-> IF k = 0 THEN 0
                            ELSE f[k - 1] + InsertedBy(m[k]) - (m[k].right - m[k].left)]
<1>0. n \in Nat /\ \A k \in 1..n : m[k] \in PatchesOf(size)
  OBVIOUS
<1>1. \A k \in 1..n : /\ InsertedBy(m[k]) \in Int /\ m[k].right \in Int /\ m[k].left \in Int
                      /\ Growth(m[k]) \in Int
  <2> SUFFICES ASSUME NEW k \in 1..n
               PROVE  /\ InsertedBy(m[k]) \in Int /\ m[k].right \in Int /\ m[k].left \in Int
                      /\ Growth(m[k]) \in Int
    OBVIOUS
  <2> DEFINE p == m[k]
  <2>1. p \in PatchesOf(size)
    BY <1>0
  <2> HIDE DEF p
  <2>0. InsertedBy(p) \in Nat
    BY <2>1, InsertionIs
  <2>2. InsertedBy(p) \in Nat /\ p.right \in Int /\ p.left \in Int
    BY <2>0, <2>1, PatchFacts
  <2>3. Growth(p) \in Int
    BY <2>2 DEF Growth
  <2> QED BY <2>2, <2>3 DEF p
<1>2. IsTurn(step, n, Int)
  <2> HIDE DEF n
  <2> QED BY <1>0, <1>1 DEF IsTurn
<1>3. \A k \in 1..n, x \in Int : step[<<k, x>>] = x + Growth(m[k])
  <2> HIDE DEF n
  <2> QED OBVIOUS
<1>4. PICK f : Follows(f, begin, n, step, Int)
  <2>1. begin \in Int
    OBVIOUS
  <2> HIDE DEF step, n, begin
  <2> QED BY <1>0, <1>2, <2>1, Recursion
<1> HIDE DEF step, n
<1>5. \A k \in 1..n : f[k - 1] \in Int /\ f[k] = f[k - 1] + Growth(m[k])
  <2>1. \A k \in 1..n : f[k - 1] \in Int
    BY <1>0, <1>4 DEF Follows
  <2> QED BY <1>3, <1>4, <2>1 DEF Follows
<1>6. \A k \in 0..n : f[k] = IF k = 0 THEN 0
                             ELSE f[k - 1] + InsertedBy(m[k]) - (m[k].right - m[k].left)
  <2>1. \A k \in 1..n : f[k] = f[k - 1] + (InsertedBy(m[k]) - (m[k].right - m[k].left))
    BY <1>5 DEF Growth
  <2>2. f[0] = 0 /\ \A k \in 0..n : k # 0 => k \in 1..n
    BY <1>0, <1>4 DEF Follows
  <2> QED BY <2>1, <2>2
<1>7. Eq(f)
  <2>1. f = [k \in 0..n |-> f[k]]
    BY <1>4 DEF Follows
  <2> QED BY <1>0, <1>6, <2>1
<1>8. Delta(m) = CHOOSE g : Eq(g)
  BY DEF Delta, n
<1>9. Eq(Delta(m))
  <2> HIDE DEF Eq
  <2> QED BY <1>7, <1>8
<1> DEFINE d == Delta(m)
<1>10. d[0] = 0 /\ \A k \in 1..n : d[k] = d[k - 1] + InsertedBy(m[k]) - (m[k].right - m[k].left)
  <2> HIDE DEF d
  <2> QED BY <1>0, <1>9 DEF d
<1> DEFINE S == {k \in 0..n : d[k] \in Int}
<1>11. \A k \in 0..n : k \in S
  <2>1. 0 \in S
    BY <1>0, <1>10
  <2>2. \A k \in 1..n : k - 1 \in S => k \in S
    <3> HIDE DEF d
    <3>1. ASSUME NEW k \in 1..n, d[k - 1] \in Int PROVE d[k] \in Int
      <4>1. d[k] = d[k - 1] + InsertedBy(m[k]) - (m[k].right - m[k].left)
        BY <1>10
      <4> QED BY <1>1, <3>1, <4>1
    <3> QED BY <1>0, <3>1
  <2> HIDE DEF S
  <2> QED BY <1>0, <2>1, <2>2, Turns
<1>12. \A k \in 1..n : d[k] = d[k - 1] + Growth(m[k])
  <2> HIDE DEF d
  <2>1. \A k \in 1..n : d[k - 1] \in Int
    BY <1>0, <1>11
  <2> QED BY <1>1, <1>10, <2>1 DEF Growth
<1> QED BY <1>10, <1>11, <1>12 DEF n

\* The characters between two patches are kept: gap g follows the g-th patch.
Left(m, g) == IF g = 0 THEN 0 ELSE m[g].right
Right(m, g, size) == IF g = Len(m) THEN size ELSE m[g + 1].left
Gap(m, g, size) == Left(m, g)..(Right(m, g, size) - 1)

LEMMA GapFacts ==
  ASSUME NEW size \in Nat, NEW m \in Seq(PatchesOf(size)), Apart(m)
  PROVE  /\ \A g \in 0..Len(m) : /\ Left(m, g) \in 0..size /\ Right(m, g, size) \in 0..size
                                 /\ Left(m, g) <= Right(m, g, size)
         /\ \A g, h \in 0..Len(m) : g < h => Right(m, g, size) <= Left(m, h)
         /\ \A g, h \in 0..Len(m) :
               g < h => Right(m, g, size) + Delta(m)[g] <= Left(m, h) + Delta(m)[h]
<1> DEFINE n == Len(m)
           D == Delta(m)
           Lo(g) == Left(m, g)
           Hi(g) == Right(m, g, size)
<1>0. n \in Nat
  OBVIOUS
<1>1. \A k \in 1..n : /\ m[k].left \in 0..size /\ m[k].right \in 0..size /\ m[k].left <= m[k].right
                      /\ Growth(m[k]) >= m[k].left - m[k].right /\ Growth(m[k]) \in Int
  <2> SUFFICES ASSUME NEW k \in 1..n
               PROVE  /\ m[k].left \in 0..size /\ m[k].right \in 0..size /\ m[k].left <= m[k].right
                      /\ Growth(m[k]) >= m[k].left - m[k].right /\ Growth(m[k]) \in Int
    OBVIOUS
  <2> DEFINE p == m[k]
  <2>1. p \in PatchesOf(size)
    OBVIOUS
  <2> HIDE DEF p
  <2>2. p.left \in 0..size /\ p.right \in 0..size /\ p.left <= p.right
    BY <2>1, PatchFacts
  <2>3. InsertedBy(p) \in Nat
    BY <2>1, InsertionIs
  <2>4. Growth(p) >= p.left - p.right /\ Growth(p) \in Int
    BY <2>2, <2>3 DEF Growth
  <2> QED BY <2>2, <2>4 DEF p
<1>2. \A j, k \in 1..n : j < k => m[j].right <= m[k].left
  BY DEF Apart
<1>3. /\ \A k \in 1..n : D[k] = D[k - 1] + Growth(m[k])
      /\ \A k \in 0..n : D[k] \in Int
  BY DeltaTurns
<1> HIDE DEF n, D
<1>4. \A g \in 0..n : Lo(g) = (IF g = 0 THEN 0 ELSE m[g].right) /\ Hi(g) = IF g = n THEN size ELSE m[g + 1].left
  BY DEF Left, Right, n
<1> HIDE DEF Lo, Hi
<1>5. ASSUME NEW g \in 0..n PROVE Lo(g) \in 0..size /\ Hi(g) \in 0..size /\ Lo(g) <= Hi(g)
  <2>1. g # 0 => g \in 1..n
    BY <1>0
  <2>2. g # n => g + 1 \in 1..n
    BY <1>0
  <2>3. Lo(g) \in 0..size
    BY <1>1, <1>4, <2>1
  <2>4. Hi(g) \in 0..size
    BY <1>1, <1>4, <2>2
  <2>5. CASE g = 0 \/ g = n
    BY <1>4, <2>3, <2>4, <2>5
  <2>6. CASE g # 0 /\ g # n
    <3>1. m[g].right <= m[g + 1].left
      BY <1>0, <1>2, <2>1, <2>2, <2>6
    <3> QED BY <1>4, <2>3, <2>4, <2>6, <3>1
  <2> QED BY <2>3, <2>4, <2>5, <2>6
<1>6. ASSUME NEW g \in 0..n, NEW h \in 0..n, g < h PROVE Hi(g) <= Lo(h)
  <2>1. g + 1 \in 1..n /\ h \in 1..n /\ g # n /\ h # 0
    BY <1>0, <1>6
  <2>2. Hi(g) = m[g + 1].left /\ Lo(h) = m[h].right
    BY <1>4, <2>1
  <2>3. CASE h = g + 1
    BY <1>1, <2>1, <2>2, <2>3
  <2>4. CASE h # g + 1
    <3>1. m[g + 1].right <= m[h].left
      BY <1>2, <1>6, <2>1, <2>4
    <3>2. /\ m[g + 1].left \in Int /\ m[g + 1].right \in Int /\ m[g + 1].left <= m[g + 1].right
          /\ m[h].left \in Int /\ m[h].right \in Int /\ m[h].left <= m[h].right
      BY <1>1, <2>1
    <3> QED BY <2>2, <3>1, <3>2
  <2> QED BY <2>3, <2>4
<1>7. ASSUME NEW h \in 1..n PROVE Hi(h - 1) + D[h - 1] <= Lo(h) + D[h]
  <2>1. h - 1 \in 0..n /\ h \in 0..n /\ h - 1 # n /\ h # 0
    BY <1>0
  <2>2. Hi(h - 1) = m[h].left /\ Lo(h) = m[h].right
    BY <1>4, <2>1
  <2>3. D[h] = D[h - 1] + Growth(m[h]) /\ D[h - 1] \in Int
    BY <1>3, <2>1
  <2>4. Growth(m[h]) >= m[h].left - m[h].right /\ Growth(m[h]) \in Int /\ m[h].left \in Int /\ m[h].right \in Int
    BY <1>1
  <2> QED BY <2>2, <2>3, <2>4
<1>8. ASSUME NEW g \in 0..n
      PROVE  \A h \in 0..n : g < h => Hi(g) + D[g] <= Lo(h) + D[h]
  <2> DEFINE S == {h \in 0..n : g < h => Hi(g) + D[g] <= Lo(h) + D[h]}
  <2>1. 0 \in S
    BY <1>0
  <2>2. ASSUME NEW h \in 1..n, h - 1 \in S PROVE h \in S
    <3>1. h \in 0..n /\ h - 1 \in 0..n
      BY <1>0
    <3>2. Hi(h - 1) + D[h - 1] <= Lo(h) + D[h]
      BY <1>7
    <3>3. /\ Lo(h - 1) \in Int /\ Hi(h - 1) \in Int /\ Lo(h) \in Int /\ Hi(g) \in Int /\ D[g] \in Int
          /\ D[h] \in Int /\ D[h - 1] \in Int /\ Lo(h - 1) <= Hi(h - 1)
      BY <1>3, <1>5, <3>1
    <3>4. CASE g < h - 1
      <4>1. Hi(g) + D[g] <= Lo(h - 1) + D[h - 1]
        BY <2>2, <3>4
      <4> QED BY <3>1, <3>2, <3>3, <4>1
    <3>5. CASE g = h - 1
      BY <3>1, <3>2, <3>5
    <3>6. CASE g > h - 1
      BY <3>1, <3>6
    <3> QED BY <3>4, <3>5, <3>6
  <2>3. \A h \in 0..n : h \in S
    <3> HIDE DEF S
    <3> QED BY <1>0, <2>1, <2>2, Turns
  <2> QED BY <2>3
<1> QED BY <1>5, <1>6, <1>8 DEF Lo, Hi, D, n

\* The characters of the first j gaps, each at the place that the patches before it leave
Placed(data, m, j, size) ==
  /\ \A i \in 1..Len(data) :
        data[i] # Inserted =>
            \E g \in 0..(j - 1) : data[i] \in Gap(m, g, size) /\ i = data[i] + Delta(m)[g] + 1
  /\ \A g \in 0..(j - 1) : \A x \in Gap(m, g, size) :
        x + Delta(m)[g] + 1 \in 1..Len(data) /\ data[x + Delta(m)[g] + 1] = x

\* What holds after j of the merged patches
AppliedWell(done, m, j, size) ==
  /\ done \in Done
  /\ done.start = Left(m, j)
  /\ Len(done.data) = Left(m, j) + Delta(m)[j]
  /\ Placed(done.data, m, j, size)

\* Appending the characters of gap j puts them where they belong; replacements do not matter.
LEMMA GapAppended ==
  ASSUME NEW size \in Nat, NEW m \in Seq(PatchesOf(size)), Apart(m), NEW j \in 0..Len(m),
         NEW a \in Seq(Int), Placed(a, m, j, size), Len(a) = Left(m, j) + Delta(m)[j],
         NEW d \in Seq(Int), NEW w, w = Right(m, j, size) - Left(m, j), Len(d) >= Len(a) + w,
         \A i \in 1..Len(a) : d[i] = a[i],
         \A i \in (Len(a) + 1)..(Len(a) + w) : d[i] = Left(m, j) + i - Len(a) - 1,
         \A i \in (Len(a) + w + 1)..Len(d) : d[i] = Inserted
  PROVE  Placed(d, m, j + 1, size)
<1> DEFINE l == Len(a)
           e == Len(d)
           D == Delta(m)
           lo == Left(m, j)
           hi == Right(m, j, size)
<1>0. l \in Nat /\ e \in Nat /\ j \in Nat
  OBVIOUS
<1>1. lo \in Nat /\ hi \in Nat /\ lo <= hi /\ D[j] \in Int
  BY GapFacts, DeltaTurns
<1>2. Gap(m, j, size) = lo..(hi - 1)
  BY DEF Gap
<1>3. l = lo + D[j] /\ w = hi - lo /\ e >= l + w
  OBVIOUS
<1> DEFINE dj == D[j]
<1>7. l = lo + dj /\ w = hi - lo /\ e >= l + w /\ dj \in Int /\ w \in Nat
  BY <1>1, <1>3
<1> HIDE DEF l, e, lo, hi, D
<1>4. ASSUME NEW i \in 1..e, d[i] # Inserted
      PROVE  \E g \in 0..j : d[i] \in Gap(m, g, size) /\ i = d[i] + D[g] + 1
  <2>1. CASE i \in 1..l
    <3>1. d[i] = a[i]
      BY <2>1 DEF l
    <3>2. \E g \in 0..(j - 1) : a[i] \in Gap(m, g, size) /\ i = a[i] + D[g] + 1
      BY <1>4, <2>1, <3>1 DEF Placed, l, D
    <3> QED BY <1>0, <3>1, <3>2
  <2>2. CASE i \in (l + 1)..(l + w)
    <3>1. d[i] = lo + i - l - 1
      BY <2>2 DEF l, lo
    <3>2. d[i] \in lo..(hi - 1) /\ i = d[i] + dj + 1
      <4> HIDE DEF dj
      <4>1. i \in Int /\ l + 1 <= i /\ i <= l + w
        BY <1>0, <1>7, <2>2
      <4> QED BY <1>0, <1>1, <1>7, <3>1, <4>1
    <3>3. d[i] \in Gap(m, j, size) /\ i = d[i] + D[j] + 1 /\ j \in 0..j
      BY <1>0, <1>2, <3>2
    <3> QED BY <3>3
  <2>3. CASE i \in (l + w + 1)..e
    <3>1. d[i] = Inserted
      BY <2>3 DEF l, e
    <3> QED BY <1>4, <3>1
  <2>4. i \in 1..l \/ i \in (l + 1)..(l + w) \/ i \in (l + w + 1)..e
    <3> HIDE DEF dj
    <3> QED BY <1>0, <1>7
  <2> QED BY <2>1, <2>2, <2>3, <2>4
<1>5. ASSUME NEW g \in 0..j, NEW x \in Gap(m, g, size)
      PROVE  x + D[g] + 1 \in 1..e /\ d[x + D[g] + 1] = x
  <2>1. CASE g = j
    <3>1. x \in lo..(hi - 1)
      BY <1>2, <2>1
    <3>2. x + dj + 1 \in (l + 1)..(l + w) /\ lo + (x + dj + 1) - l - 1 = x /\ x + dj + 1 \in 1..e
      <4> HIDE DEF dj
      <4>1. x \in Int /\ lo <= x /\ x <= hi - 1
        BY <1>1, <3>1
      <4>2. l + 1 <= x + dj + 1 /\ x + dj + 1 <= l + w /\ lo + (x + dj + 1) - l - 1 = x
        BY <1>0, <1>1, <1>7, <4>1
      <4>3. x + dj + 1 \in Int
        BY <1>7, <4>1
      <4> DEFINE y == x + dj + 1
      <4>4. y \in Int /\ l + 1 <= y /\ y <= l + w
        BY <4>2, <4>3
      <4> HIDE DEF y
      <4>5. y \in (l + 1)..(l + w) /\ y \in 1..e
        BY <1>0, <1>7, <4>4
      <4> QED BY <4>2, <4>5 DEF y
    <3>3. d[x + dj + 1] = lo + (x + dj + 1) - l - 1
      <4> HIDE DEF dj
      <4> QED BY <3>2 DEF l, lo
    <3> QED BY <2>1, <3>2, <3>3
  <2>2. CASE g # j
    <3>1. g \in 0..(j - 1)
      BY <1>0, <2>2
    <3>2. x + D[g] + 1 \in 1..l /\ a[x + D[g] + 1] = x
      BY <3>1 DEF Placed, l, D
    <3>3. d[x + D[g] + 1] = a[x + D[g] + 1]
      BY <3>2 DEF l
    <3>4. 1..l \subseteq 1..e
      BY <1>0, <1>1, <1>3
    <3> QED BY <3>2, <3>3, <3>4
  <2> QED BY <2>1, <2>2
<1>6. j + 1 - 1 = j
  BY <1>0
<1> QED BY <1>4, <1>5, <1>6 DEF Placed, e, D

LEMMA AppliedTurn ==
  ASSUME NEW size \in Nat, NEW m \in Seq(PatchesOf(size)), Apart(m), NEW j \in 1..Len(m),
         NEW done, AppliedWell(done, m, j - 1, size)
  PROVE  AppliedWell(ApplyPatch(done, m[j]), m, j, size)
<1> DEFINE p == m[j]
           i == j - 1
           a == done.data
           l == Len(a)
           w == p.left - done.start
           next == ApplyPatch(done, p)
           d == next.data
           D == Delta(m)
<1>1. done \in Done /\ done.start = Left(m, i) /\ l = Left(m, i) + D[i] /\ Placed(a, m, i, size)
  BY DEF AppliedWell
<1>2. p \in PatchesOf(size) /\ i \in 0..Len(m) /\ i # Len(m) /\ i + 1 = j /\ j # 0 /\ j \in 0..Len(m)
  OBVIOUS
<1>3. Right(m, i, size) = p.left /\ Left(m, j) = p.right
  BY <1>2 DEF Right, Left
<1>4. /\ Left(m, i) \in Nat /\ Left(m, i) <= p.left /\ p.left \in Nat /\ p.right \in Nat
      /\ p.left <= p.right
  <2>1. Left(m, i) \in 0..size /\ Left(m, i) <= Right(m, i, size)
    BY <1>2, GapFacts
  <2>2. p.left \in 0..size /\ p.right \in 0..size /\ p.left <= p.right
    BY <1>2, PatchFacts
  <2> HIDE DEF p, i
  <2> QED BY <1>3, <2>1, <2>2
<1>5. D[j] = D[i] + Growth(p) /\ D[i] \in Int
  BY <1>2, DeltaTurns
<1>6. InsertedBy(p) \in Nat
  BY <1>2, InsertionIs
<1>7. a \in Seq(Int) /\ l \in Nat
  BY <1>1 DEF Done
<1>8. w = Right(m, i, size) - Left(m, i)
  BY <1>1, <1>3
<1> HIDE DEF p, i, a, l, D
<1>9. next \in Done /\ next.start = p.right
  BY <1>1, <1>2, ApplyPatchDoes
<1>10. /\ Len(d) = l + w + InsertedBy(p)
       /\ \A k \in 1..l : d[k] = a[k]
       /\ \A k \in (l + 1)..(l + w) : d[k] = done.start + k - l - 1
       /\ \A k \in (l + w + 1)..(l + w + InsertedBy(p)) : d[k] = Inserted
  <2>1. done.start <= p.left
    BY <1>1, <1>4
  <2> QED BY <1>1, <1>2, <2>1, ApplyPatchDoes DEF a, l
<1>11. d \in Seq(Int)
  BY <1>9 DEF Done
<1> HIDE DEF next, d, w
<1>12. w \in Nat
  BY <1>3, <1>4, <1>8
<1>13. Placed(d, m, i + 1, size)
  <2>1. Len(d) >= l + w
    BY <1>6, <1>7, <1>10, <1>12
  <2>2. \A k \in (l + 1)..(l + w) : d[k] = Left(m, i) + k - l - 1
    BY <1>1, <1>10
  <2>3. \A k \in (l + w + 1)..Len(d) : d[k] = Inserted
    BY <1>10
  <2> QED BY <1>1, <1>2, <1>7, <1>8, <1>10, <1>11, <2>1, <2>2, <2>3, GapAppended DEF l, D
<1>14. Len(d) = Left(m, j) + D[j]
  <2>1. Growth(p) = InsertedBy(p) - (p.right - p.left)
    BY DEF Growth
  <2>2. w = p.left - Left(m, i)
    BY <1>3, <1>8
  <2> DEFINE st == Left(m, i)
             di == D[i]
             e == InsertedBy(p)
             x == p.left
             y == p.right
  <2>3. st \in Int /\ di \in Int /\ e \in Int /\ x \in Int /\ y \in Int
    BY <1>4, <1>5, <1>6
  <2>4. Len(d) = l + w + e /\ l = st + di /\ w = x - st /\ D[j] = di + (e - (y - x)) /\ Left(m, j) = y
    BY <1>1, <1>3, <1>5, <1>10, <2>1, <2>2
  <2> HIDE DEF st, di, e, x, y
  <2> QED BY <2>3, <2>4
<1>15. AppliedWell(next, m, j, size)
  BY <1>2, <1>3, <1>9, <1>13, <1>14 DEF AppliedWell, d, D
<1> QED BY <1>15 DEF next, p

LEMMA AppliedInvariant ==
  ASSUME NEW size \in Nat, NEW m \in Seq(PatchesOf(size)), Apart(m)
  PROVE  \A j \in 0..Len(m) : AppliedWell(Applying(m)[j], m, j, size)
<1> DEFINE n == Len(m)
           A == Applying(m)
           S == {j \in 0..n : AppliedWell(A[j], m, j, size)}
<1>0. n \in Nat
  OBVIOUS
<1>1. A[0] = [data |-> <<>>, start |-> 0] /\ \A k \in 1..n : A[k] = ApplyPatch(A[k - 1], m[k])
  BY ApplyingTurns
<1>2. Delta(m)[0] = 0
  BY DeltaTurns
<1> HIDE DEF A
<1>3. 0 \in S
  <2> DEFINE begin == [data |-> <<>>, start |-> 0]
  <2>1. begin \in Done /\ begin.data = <<>> /\ begin.start = 0
    BY DEF Done
  <2>2. Placed(<<>>, m, 0, size)
    BY DEF Placed
  <2>3. Left(m, 0) = 0
    BY DEF Left
  <2>4. Len(begin.data) = 0
    BY <2>1
  <2> HIDE DEF begin
  <2>5. AppliedWell(begin, m, 0, size)
    BY <1>2, <2>1, <2>2, <2>3, <2>4 DEF AppliedWell
  <2>6. A[0] = begin
    BY <1>1 DEF begin
  <2> QED BY <1>0, <2>5, <2>6
<1>4. ASSUME NEW j \in 1..n, j - 1 \in S PROVE j \in S
  <2>1. AppliedWell(ApplyPatch(A[j - 1], m[j]), m, j, size)
    BY <1>4, AppliedTurn
  <2> QED BY <1>0, <1>1, <2>1
<1> HIDE DEF S
<1>5. \A j \in 0..n : j \in S
  <2> HIDE DEF n
  <2> QED BY <1>0, <1>3, <1>4, Turns
<1> QED BY <1>5 DEF S, n, A

\* The file after all patches are applied
LEMMA ApplyFacts ==
  ASSUME NEW size \in Nat, NEW ps \in Seq(PatchesOf(size))
  PROVE  /\ Apply(ps, size) \in Seq(Int)
         /\ Len(Apply(ps, size)) = size + Delta(Merge(ps))[Len(Merge(ps))]
         /\ Placed(Apply(ps, size), Merge(ps), Len(Merge(ps)) + 1, size)
<1> DEFINE m == Merge(ps)
           n == Len(m)
           done == Applying(m)[n]
           a == done.data
           l == Len(a)
           lo == done.start
           d == Apply(ps, size)
           w == size - lo
           D == Delta(m)
<1>1. m \in Seq(PatchesOf(size)) /\ Apart(m)
  BY MergeFacts
<1> HIDE DEF m
<1>2. n \in 0..Len(m) /\ n \in Nat
  BY <1>1
<1>3. AppliedWell(done, m, n, size)
  BY <1>1, <1>2, AppliedInvariant
<1>4. Right(m, n, size) = size
  BY DEF Right
<1>5. Left(m, n) \in 0..size /\ D[n] \in Int
  BY <1>1, <1>2, GapFacts, DeltaTurns
<1>6. d = a \o Chunk(lo, size)
  BY DEF Apply, m
<1> HIDE DEF done, D, n
<1>7. done \in Done /\ lo = Left(m, n) /\ l = Left(m, n) + D[n] /\ Placed(a, m, n, size)
  BY <1>3 DEF AppliedWell, D
<1>8. a \in Seq(Int) /\ l \in Nat
  BY <1>7 DEF Done
<1> HIDE DEF a, l, lo, d
<1>9. w \in Nat /\ lo \in Int /\ size \in Int /\ lo <= size
  BY <1>5, <1>7
<1>10. /\ Chunk(lo, size) \in Seq(Int) /\ Len(Chunk(lo, size)) = w
       /\ \A k \in 1..w : Chunk(lo, size)[k] = lo + k - 1
  BY <1>9, ChunkIs
<1> DEFINE c == Chunk(lo, size)
<1> HIDE DEF c, w
<1>11. /\ d \in Seq(Int) /\ Len(d) = l + w
       /\ \A i \in 1..(l + w) : d[i] = IF i <= l THEN a[i] ELSE c[i - l]
  BY <1>6, <1>8, <1>10, ConcatAt DEF c, l
<1>12. \A i \in 1..l : d[i] = a[i]
  BY <1>8, <1>9, <1>11
<1>13. \A i \in (l + 1)..(l + w) : d[i] = lo + i - l - 1
  <2> SUFFICES ASSUME NEW i \in (l + 1)..(l + w) PROVE d[i] = lo + i - l - 1
    OBVIOUS
  <2>1. i \in 1..(l + w) /\ ~(i <= l) /\ i - l \in 1..w
    BY <1>8, <1>9
  <2>2. d[i] = c[i - l] /\ c[i - l] = lo + (i - l) - 1
    BY <1>10, <1>11, <2>1 DEF c
  <2> QED BY <1>8, <1>9, <2>1, <2>2
<1>14. Placed(d, m, n + 1, size)
  <2>1. Len(d) >= l + w
    BY <1>8, <1>9, <1>11
  <2>2. \A i \in (l + w + 1)..Len(d) : d[i] = Inserted
    BY <1>8, <1>9, <1>11
  <2>3. w = Right(m, n, size) - Left(m, n)
    BY <1>4, <1>7 DEF w
  <2>4. \A i \in (l + 1)..(l + w) : d[i] = Left(m, n) + i - l - 1
    BY <1>7, <1>13
  <2> QED BY <1>1, <1>2, <1>7, <1>8, <1>11, <1>12, <2>1, <2>2, <2>3, <2>4, GapAppended DEF l, D
<1>15. Len(d) = size + D[n]
  BY <1>5, <1>7, <1>8, <1>9, <1>11 DEF w
<1> QED BY <1>11, <1>14, <1>15 DEF d, m, n, D

\* What is in the gaps is what no patch covers.
LEMMA GapsAreUncovered ==
  ASSUME NEW size \in Nat, NEW m \in Seq(PatchesOf(size)), Apart(m), NEW x \in Int
  PROVE  (\E g \in 0..Len(m) : x \in Gap(m, g, size))
           <=> x \in 0..(size - 1) /\ \A k \in 1..Len(m) : ~In(x + 1, m[k])
<1> DEFINE n == Len(m)
           Lo(g) == Left(m, g)
           Hi(g) == Right(m, g, size)
<1>0. n \in Nat
  OBVIOUS
<1>1. \A g \in 0..n : Lo(g) \in 0..size /\ Hi(g) \in 0..size /\ Lo(g) <= Hi(g)
  BY GapFacts
<1>2. \A g, h \in 0..n : g < h => Hi(g) <= Lo(h)
  BY GapFacts
<1>3. \A k \in 1..n : /\ m[k].left = Hi(k - 1) /\ m[k].right = Lo(k)
                      /\ k \in 0..n /\ k - 1 \in 0..n
  BY <1>0 DEF Left, Right
<1>4. Lo(0) = 0 /\ Hi(n) = size
  BY DEF Left, Right
<1>5. \A g \in 0..n : x \in Gap(m, g, size) <=> Lo(g) <= x /\ x < Hi(g)
  <2> SUFFICES ASSUME NEW g \in 0..n PROVE x \in Gap(m, g, size) <=> Lo(g) <= x /\ x < Hi(g)
    OBVIOUS
  <2>1. Gap(m, g, size) = Lo(g)..(Hi(g) - 1)
    BY DEF Gap
  <2>2. Lo(g) \in Int /\ Hi(g) \in Int
    BY <1>1
  <2> HIDE DEF Lo, Hi
  <2> QED BY <2>1, <2>2
<1> HIDE DEF n, Lo, Hi
<1>6. ASSUME NEW g \in 0..n, Lo(g) <= x, x < Hi(g)
      PROVE  x \in 0..(size - 1) /\ \A k \in 1..n : ~In(x + 1, m[k])
  <2>1. x \in 0..(size - 1)
    BY <1>1, <1>6
  <2>2. ASSUME NEW k \in 1..n PROVE ~In(x + 1, m[k])
    <3>1. m[k].left = Hi(k - 1) /\ m[k].right = Lo(k) /\ k \in 0..n /\ k - 1 \in 0..n
      BY <1>3
    <3>2. /\ Hi(k - 1) \in Int /\ Lo(k) \in Int /\ Lo(k) <= Hi(k) /\ Lo(k - 1) <= Hi(k - 1)
          /\ Hi(k) \in Int /\ Lo(k - 1) \in Int /\ Lo(g) \in Int /\ Hi(g) \in Int
      BY <1>1, <3>1
    <3>3. CASE k <= g
      <4>1. Lo(k) <= Lo(g)
        <5>1. k = g \/ k < g
          BY <3>3
        <5> QED BY <1>2, <3>1, <3>2, <5>1
      <4>2. Lo(k) <= x
        BY <1>6, <3>2, <4>1
      <4> QED BY <3>1, <3>2, <4>2 DEF In
    <3>4. CASE k > g
      <4>1. Hi(g) <= Hi(k - 1)
        <5>1. g = k - 1 \/ g < k - 1
          BY <3>4
        <5> QED BY <1>2, <3>1, <3>2, <5>1
      <4>2. x < Hi(k - 1)
        BY <1>6, <3>2, <4>1
      <4> QED BY <3>1, <3>2, <4>2 DEF In
    <3> QED BY <3>3, <3>4
  <2> QED BY <2>1, <2>2
<1>7. ASSUME x \in 0..(size - 1), \A k \in 1..n : ~In(x + 1, m[k])
      PROVE  \E g \in 0..n : Lo(g) <= x /\ x < Hi(g)
  <2> DEFINE S == {g \in 0..n : Lo(g) <= x}
  <2>1. S \in SUBSET Nat /\ 0 \in S /\ \A g \in S : g <= n
    BY <1>0, <1>4, <1>7
  <2>2. PICK g \in S : \A h \in S : h <= g
    <3> HIDE DEF S
    <3> QED BY <1>0, <2>1, GreatestExists
  <2>3. CASE g = n
    BY <1>4, <1>7, <2>3
  <2>4. CASE g # n
    <3>1. g + 1 \in 1..n /\ g + 1 \in 0..n /\ g + 1 - 1 = g
      BY <1>0, <2>4
    <3>2. Lo(g + 1) > x
      <4>1. g + 1 \notin S
        BY <2>2, <3>1
      <4> QED BY <1>1, <3>1, <4>1
    <3>3. m[g + 1].left = Hi(g) /\ m[g + 1].right = Lo(g + 1)
      BY <1>3, <3>1
    <3>4. ~(Hi(g) < x + 1 /\ x + 1 <= Lo(g + 1))
      BY <1>7, <3>1, <3>3 DEF In
    <3>5. Hi(g) \in Int /\ Lo(g + 1) \in Int
      BY <1>1, <3>1
    <3> QED BY <3>2, <3>4, <3>5
  <2> QED BY <2>3, <2>4
<1> QED BY <1>5, <1>6, <1>7 DEF n

\* The outcome of applying patches is the file without what they cover.
LEMMA ApplyLeaves ==
  ASSUME NEW size \in Nat, NEW ps \in Seq(PatchesOf(size))
  PROVE  Leaves(Apply(ps, size), (1..size) \ Covered(ps))
<1> DEFINE merged == Merge(ps)
           n == Len(merged)
           file == Apply(ps, size)
           D == Delta(merged)
           e == Len(file)
           kept == (1..size) \ Covered(ps)
<1>1. merged \in Seq(PatchesOf(size)) /\ Apart(merged) /\ n \in Nat
      /\ \A x \in Int : (\E k \in 1..n : In(x, merged[k])) <=> x \in Covered(ps)
  BY MergeFacts
<1>2. file \in Seq(Int) /\ e \in Nat
  BY ApplyFacts
<1>3. Placed(file, merged, n + 1, size)
  BY ApplyFacts
<1> HIDE DEF merged, file
<1>4. \A g \in 0..n : D[g] \in Int
  BY <1>1, DeltaTurns
<1>5. \A g, h \in 0..n : g < h => Right(merged, g, size) + D[g] <= Left(merged, h) + D[h]
  BY <1>1, GapFacts
<1>6. \A g \in 0..n : /\ Left(merged, g) \in Int /\ Right(merged, g, size) \in Int
                      /\ Left(merged, g) <= Right(merged, g, size)
  BY <1>1, GapFacts
<1>7. \A g, h \in 0..n : g < h => Right(merged, g, size) <= Left(merged, h)
  BY <1>1, GapFacts
<1>8. \A x \in Int : (\E g \in 0..n : x \in Gap(merged, g, size)) <=> x + 1 \in kept
  <2> SUFFICES ASSUME NEW x \in Int
               PROVE  (\E g \in 0..n : x \in Gap(merged, g, size)) <=> x + 1 \in kept
    OBVIOUS
  <2>1. (\E g \in 0..n : x \in Gap(merged, g, size))
           <=> x \in 0..(size - 1) /\ \A k \in 1..n : ~In(x + 1, merged[k])
    BY <1>1, GapsAreUncovered
  <2>2. x \in 0..(size - 1) <=> x + 1 \in 1..size
    OBVIOUS
  <2>3. (\A k \in 1..n : ~In(x + 1, merged[k])) <=> x + 1 \notin Covered(ps)
    BY <1>1
  <2> QED BY <2>1, <2>2, <2>3
<1> HIDE DEF n
<1>9. 0..(n + 1 - 1) = 0..n /\ n \in Nat
  BY <1>1 DEF n
<1> HIDE DEF kept
<1>10. \A i \in 1..e :
        file[i] # Inserted =>
            \E g \in 0..n : file[i] \in Gap(merged, g, size) /\ i = file[i] + D[g] + 1
  BY <1>3, <1>9 DEF Placed, e, D
<1>11. \A g \in 0..n : \A x \in Gap(merged, g, size) :
        x + D[g] + 1 \in 1..e /\ file[x + D[g] + 1] = x
  BY <1>3, <1>9 DEF Placed
<1> HIDE DEF D, e
<1>12. DOMAIN file = 1..e /\ \A i \in 1..e : file[i] \in Int
  BY <1>2 DEF e
<1>13. \A c \in ToSet(file) : c # Inserted => c + 1 \in kept
  <2> SUFFICES ASSUME NEW i \in 1..e, file[i] # Inserted PROVE file[i] + 1 \in kept
    BY <1>12 DEF ToSet
  <2> QED BY <1>8, <1>10, <1>12
<1>14. \A i \in kept : i - 1 \in ToSet(file) /\ i - 1 # Inserted /\ i \in Int
  <2> SUFFICES ASSUME NEW i \in kept PROVE i - 1 \in ToSet(file) /\ i - 1 # Inserted /\ i \in Int
    OBVIOUS
  <2>1. i \in Int /\ i >= 1
    BY DEF kept
  <2>2. PICK g \in 0..n : i - 1 \in Gap(merged, g, size)
    <3>1. i - 1 \in Int /\ (i - 1) + 1 = i
      BY <2>1
    <3> QED BY <1>8, <3>1
  <2>3. (i - 1) + D[g] + 1 \in 1..e /\ file[(i - 1) + D[g] + 1] = i - 1
    BY <1>11, <2>2
  <2>4. i - 1 \in ToSet(file)
    BY <1>12, <2>3 DEF ToSet
  <2> QED BY <2>1, <2>4 DEF Inserted
<1>15. {c \in ToSet(file) : c # Inserted} = {i - 1 : i \in kept}
  <2>1. \A c \in ToSet(file) : c \in Int
    BY <1>12 DEF ToSet
  <2>2. ASSUME NEW c \in ToSet(file), c # Inserted PROVE c \in {i - 1 : i \in kept}
    <3>1. c + 1 \in kept /\ (c + 1) - 1 = c
      BY <1>13, <2>1, <2>2
    <3> QED BY <3>1
  <2> QED BY <1>14, <2>2
<1>16. ASSUME NEW i \in 1..e, NEW k \in 1..e, i < k, file[i] # Inserted, file[k] # Inserted
       PROVE  file[i] < file[k]
  <2>1. PICK g \in 0..n : file[i] \in Gap(merged, g, size) /\ i = file[i] + D[g] + 1
    BY <1>10, <1>16
  <2>2. PICK h \in 0..n : file[k] \in Gap(merged, h, size) /\ k = file[k] + D[h] + 1
    BY <1>10, <1>16
  <2> DEFINE x == file[i]
             y == file[k]
             gl == Left(merged, g)
             gr == Right(merged, g, size)
             hl == Left(merged, h)
             hr == Right(merged, h, size)
             dg == D[g]
             dh == D[h]
  <2>3. /\ x \in Int /\ y \in Int /\ gl \in Int /\ gr \in Int /\ hl \in Int /\ hr \in Int
        /\ dg \in Int /\ dh \in Int
    BY <1>4, <1>6, <1>12
  <2>4. gl <= x /\ x <= gr - 1 /\ hl <= y /\ y <= hr - 1
    <3>1. x \in gl..(gr - 1) /\ y \in hl..(hr - 1)
      BY <2>1, <2>2 DEF Gap
    <3> HIDE DEF x, y, gl, gr, hl, hr
    <3> QED BY <2>3, <3>1
  <2>5. i = x + dg + 1 /\ k = y + dh + 1
    BY <2>1, <2>2
  <2>6. g < h => gr <= hl
    BY <1>7
  <2>7. h < g => hr + dh <= gl + dg
    BY <1>5
  <2>8. g = h => dg = dh
    OBVIOUS
  <2> HIDE DEF x, y, gl, gr, hl, hr, dg, dh
  <2>9. g < h \/ g = h \/ h < g
    BY <1>1
  <2>10. x < y
    BY <1>16, <2>3, <2>4, <2>5, <2>6, <2>7, <2>8, <2>9
  <2> QED BY <2>10 DEF x, y
<1>17. Leaves(file, kept)
  BY <1>12, <1>15, <1>16 DEF Leaves
<1> QED BY <1>17 DEF file, kept
\* The merged patches satisfy the assertions that applying makes of them.
LEMMA MergeAppliesCleanly ==
  ASSUME NEW size \in Nat, NEW ps \in Seq(PatchesOf(size))
  PROVE  AppliesCleanly(Merge(ps), size)
<1> DEFINE m == Merge(ps)
           n == Len(m)
<1>1. m \in Seq(PatchesOf(size)) /\ Apart(m)
  BY MergeFacts
<1> HIDE DEF m
<1>2. DOMAIN m = 1..n /\ n \in Nat /\ \A k \in 1..n : m[k] \in PatchesOf(size)
  BY <1>1
<1>3. \A k \in 1..n : m[k].left \in 0..size /\ m[k].right \in 0..size /\ m[k].left <= m[k].right
  BY <1>2, PatchFacts
<1>4. ASSUME NEW k \in 1..n
      PROVE  /\ (IF k = 1 THEN 0 ELSE m[k - 1].right) <= m[k].left
             /\ m[k].left <= m[k].right /\ m[k].right <= size
  <2>1. CASE k = 1
    BY <1>3, <2>1
  <2>2. CASE k # 1
    <3>1. k - 1 \in 1..n /\ k - 1 < k
      BY <1>2, <2>2
    <3>2. m[k - 1].right <= m[k].left
      BY <1>1, <3>1 DEF Apart
    <3> QED BY <1>3, <2>2, <3>2
  <2> QED BY <2>1, <2>2
<1>5. AppliesCleanly(m, size)
  BY <1>2, <1>4 DEF AppliesCleanly
<1> QED BY <1>5 DEF m

-----------------------------------------------------------------------------
(* Moving positions *)

\* Passed is the number of patches up to the first that ends behind the position.
LEMMA PassedIs ==
  ASSUME NEW size \in Nat, NEW m \in Seq(PatchesOf(size)), NEW p \in Int
  PROVE  /\ Passed(m, p) \in 0..Len(m)
         /\ \A k \in 1..Passed(m, p) : m[k].right <= p
         /\ Passed(m, p) # Len(m) => m[Passed(m, p) + 1].right > p
<1> DEFINE n == Len(m)
           S == {k \in 0..n : \A j \in 1..k : m[j].right <= p}
<1>1. n \in Nat /\ DOMAIN m = 1..n /\ \A k \in 1..n : m[k] \in PatchesOf(size)
  OBVIOUS
<1>2. \A k \in 1..n : m[k].right \in Int
  BY <1>1, PatchFacts
<1> HIDE DEF n
<1>3. PICK g \in S : \A k \in S : k <= g
  <2>1. S \in SUBSET Nat /\ 0 \in S /\ \A k \in S : k <= n
    BY <1>1
  <2> HIDE DEF S
  <2> QED BY <1>1, <2>1, GreatestExists
<1>4. g \in 0..n /\ \A j \in 1..g : m[j].right <= p
  OBVIOUS
<1>5. g # n => m[g + 1].right > p
  <2> SUFFICES ASSUME g # n, ~(m[g + 1].right > p) PROVE FALSE
    OBVIOUS
  <2>1. g + 1 \in 1..n /\ \A j \in 1..(g + 1) : j \in 1..g \/ j = g + 1
    BY <1>1, <1>4
  <2>2. m[g + 1].right <= p
    BY <1>2, <2>1
  <2>3. g + 1 \in S
    BY <1>1, <1>4, <2>1, <2>2
  <2> QED BY <1>3, <1>4, <2>3
<1>6. {k \in DOMAIN m : \A j \in 1..k : m[j].right <= p} = 1..g
  <2>1. \A k \in 1..n : (\A j \in 1..k : m[j].right <= p) => k <= g
    BY <1>3
  <2>2. \A k \in 1..g : k \in 1..n /\ \A j \in 1..k : j \in 1..g
    BY <1>1, <1>4
  <2> QED BY <1>1, <1>4, <2>1, <2>2
<1>7. Cardinality(1..g) = g
  <2>1. g \in Nat
    BY <1>4
  <2> QED BY <2>1, FS_Interval
<1>8. Passed(m, p) = g
  BY <1>6, <1>7 DEF Passed
<1> QED BY <1>4, <1>5, <1>8 DEF n

\* A position is moved to where the characters before it end.
LEMMA MovedFollows ==
  ASSUME NEW size \in Nat, NEW ps \in Seq(PatchesOf(size)), NEW p \in 0..size
  PROVE  /\ MapPosition(ps, p) \in 0..Len(Apply(ps, size))
         /\ \A k \in 1..Len(Apply(ps, size)) :
               Apply(ps, size)[k] # Inserted =>
                   (Apply(ps, size)[k] < p <=> k <= MapPosition(ps, p))
<1> DEFINE m == Merge(ps)
           n == Len(m)
           D == Delta(m)
           file == Apply(ps, size)
           c == Passed(m, p)
           lo(g) == Left(m, g)
           hi(g) == Right(m, g, size)
           q == IF p <= hi(c) THEN p ELSE hi(c)
           moved == MapPosition(ps, p)
<1>1. m \in Seq(PatchesOf(size)) /\ Apart(m) /\ n \in Nat
  BY MergeFacts
<1>2. /\ file \in Seq(Int) /\ Len(file) = size + D[n]
      /\ Placed(file, m, n + 1, size)
  BY ApplyFacts
<1>3. moved = (p + D[c]) - (IF c + 1 \in DOMAIN m THEN Max({0, p - m[c + 1].left}) ELSE 0)
  <2>1. Shifted(ps, p) = p + D[c]
    BY DEF Shifted
  <2>2. moved = Shifted(ps, p) - (IF c + 1 \in DOMAIN m THEN Max({0, p - m[c + 1].left}) ELSE 0)
    BY DEF MapPosition
  <2> HIDE DEF moved, m, D, c
  <2> QED BY <2>1, <2>2
<1> HIDE DEF m, file, moved
<1>4. c \in 0..n /\ (\A k \in 1..c : m[k].right <= p) /\ (c # n => m[c + 1].right > p)
  <2>1. p \in Int
    OBVIOUS
  <2> QED BY <1>1, <2>1, PassedIs
<1>5. /\ \A g \in 0..n : lo(g) \in 0..size /\ hi(g) \in 0..size /\ lo(g) <= hi(g)
      /\ \A g, h \in 0..n : g < h => hi(g) <= lo(h)
      /\ \A g, h \in 0..n : g < h => hi(g) + D[g] <= lo(h) + D[h]
  BY <1>1, GapFacts
<1>6. D[0] = 0 /\ \A g \in 0..n : D[g] \in Int
  BY <1>1, DeltaTurns
<1>7. /\ lo(0) = 0 /\ hi(n) = size
      /\ \A k \in 1..n : lo(k) = m[k].right /\ hi(k - 1) = m[k].left
  BY <1>1 DEF Left, Right
<1>8. /\ \A i \in 1..Len(file) :
            file[i] # Inserted =>
                \E g \in 0..n : file[i] \in Gap(m, g, size) /\ i = file[i] + D[g] + 1
  <2>1. 0..(n + 1 - 1) = 0..n
    BY <1>1
  <2> QED BY <1>2, <2>1 DEF Placed
<1>9. DOMAIN m = 1..n
  BY <1>1
<1>10. Len(file) \in Nat /\ \A i \in 1..Len(file) : file[i] \in Int
  BY <1>2
<1> HIDE DEF n, D, c, lo, hi
<1>11. lo(c) <= p /\ (c # n => p < lo(c + 1))
  <2>1. CASE c = 0
    BY <1>1, <1>4, <1>7, <2>1
  <2>2. CASE c # 0
    <3>1. c \in 1..c /\ c \in 1..n
      BY <1>1, <1>4, <2>2
    <3>2. lo(c) <= p
      BY <1>4, <1>7, <3>1
    <3>3. c # n => c + 1 \in 1..n
      BY <1>1, <1>4
    <3> QED BY <1>4, <1>5, <1>7, <3>2, <3>3
  <2> QED BY <2>1, <2>2
<1>12. q \in Int /\ lo(c) <= q /\ q <= hi(c) /\ q <= p
  BY <1>4, <1>5, <1>11
<1>13. moved = q + D[c]
  <2>1. CASE c = n
    <3>1. hi(c) = size /\ c + 1 \notin DOMAIN m
      BY <1>1, <1>7, <1>9, <2>1
    <3>2. q = p /\ D[c] \in Int
      BY <1>4, <1>6, <3>1
    <3> QED BY <1>3, <3>1, <3>2 DEF moved
  <2>2. CASE c # n
    <3>1. c + 1 \in DOMAIN m /\ c + 1 \in 1..n /\ (c + 1) - 1 = c
      BY <1>1, <1>4, <1>9, <2>2
    <3>2. hi(c) = m[c + 1].left /\ hi(c) \in Int /\ D[c] \in Int
      BY <1>4, <1>5, <1>6, <1>7, <3>1
    <3>3. Max({0, p - hi(c)}) = IF 0 >= p - hi(c) THEN 0 ELSE p - hi(c)
      BY <3>2, OfTwo
    <3>4. moved = (p + D[c]) - Max({0, p - hi(c)})
      BY <1>3, <3>1, <3>2
    <3> DEFINE h == hi(c)
               d == D[c]
    <3>5. /\ h \in Int /\ d \in Int /\ q = (IF p <= h THEN p ELSE h)
          /\ moved = p + d - (IF 0 >= p - h THEN 0 ELSE p - h)
      BY <3>2, <3>3, <3>4
    <3> HIDE DEF h, d, q
    <3>6. moved = q + d
      BY <3>5
    <3> QED BY <3>6 DEF d
  <2> QED BY <2>1, <2>2
<1> HIDE DEF q
<1>14. moved \in 0..Len(file)
  <2>1. 0 \in 0..n /\ n \in 0..n /\ c \in 0..n
    BY <1>1, <1>4
  <2>2. 0 <= lo(c) + D[c]
    <3>1. CASE c = 0
      BY <1>6, <1>7, <3>1
    <3>2. CASE c # 0
      <4>1. hi(0) + D[0] <= lo(c) + D[c]
        BY <1>4, <1>5, <2>1, <3>2
      <4> QED BY <1>5, <1>6, <2>1, <4>1
    <3> QED BY <3>1, <3>2
  <2>3. hi(c) + D[c] <= size + D[n]
    <3>1. CASE c = n
      BY <1>5, <1>6, <1>7, <2>1, <3>1
    <3>2. CASE c # n
      <4>0. c < n
        BY <1>1, <2>1, <3>2
      <4>1. hi(c) + D[c] <= lo(n) + D[n]
        BY <1>5, <2>1, <4>0
      <4> QED BY <1>5, <1>6, <1>7, <2>1, <4>1
    <3> QED BY <3>1, <3>2
  <2>4. lo(c) \in Int /\ hi(c) \in Int /\ D[c] \in Int /\ D[n] \in Int
    BY <1>5, <1>6, <2>1
  <2> DEFINE cl == lo(c)
             cr == hi(c)
             dc == D[c]
             dn == D[n]
             e == Len(file)
  <2>5. /\ cl \in Int /\ cr \in Int /\ dc \in Int /\ dn \in Int /\ q \in Int /\ e \in Int
        /\ cl <= q /\ q <= cr /\ moved = q + dc /\ e = size + dn /\ 0 <= cl + dc /\ cr + dc <= size + dn
    BY <1>2, <1>10, <1>12, <1>13, <2>2, <2>3, <2>4
  <2> HIDE DEF cl, cr, dc, dn, e
  <2>6. moved \in 0..e
    BY <2>5
  <2> QED BY <2>6 DEF e
<1>15. ASSUME NEW k \in 1..Len(file), file[k] # Inserted
       PROVE  file[k] < p <=> k <= moved
  <2>1. PICK g \in 0..n : file[k] \in Gap(m, g, size) /\ k = file[k] + D[g] + 1
    BY <1>8, <1>15
  <2> DEFINE x == file[k]
             gl == lo(g)
             gr == hi(g)
             cl == lo(c)
             cr == hi(c)
             dg == D[g]
             dc == D[c]
  <2>2. /\ x \in Int /\ gl \in Int /\ gr \in Int /\ cl \in Int /\ cr \in Int /\ dg \in Int /\ dc \in Int
        /\ q \in Int /\ p \in Int /\ k \in Int
    BY <1>4, <1>5, <1>6, <1>10, <1>12
  <2>3. gl <= x /\ x <= gr - 1
    <3>1. x \in gl..(gr - 1)
      BY <2>1 DEF Gap, lo, hi
    <3> HIDE DEF x, gl, gr
    <3> QED BY <2>2, <3>1
  <2>4. k = x + dg + 1 /\ moved = q + dc /\ cl <= q /\ q <= cr /\ q <= p /\ cl <= p
    BY <1>11, <1>12, <1>13, <2>1
  <2>5. CASE g < c
    <3>1. gr <= cl /\ gr + dg <= cl + dc
      BY <1>4, <1>5, <2>5
    <3> HIDE DEF x, gl, gr, cl, cr, dg, dc
    <3>2. x < p /\ k <= moved
      BY <2>2, <2>3, <2>4, <3>1
    <3> QED BY <3>2 DEF x
  <2>6. CASE g = c
    <3>1. gr = cr /\ gl = cl /\ dg = dc
      BY <2>6
    <3>2. q = IF p <= cr THEN p ELSE cr
      BY DEF q
    <3> HIDE DEF x, gl, gr, cl, cr, dg, dc
    <3>3. x < p <=> k <= moved
      BY <2>2, <2>3, <2>4, <3>1, <3>2
    <3> QED BY <3>3 DEF x
  <2>7. CASE g > c
    <3>1. cr <= gl /\ cr + dc <= gl + dg
      BY <1>4, <1>5, <2>7
    <3>2. c # n /\ c + 1 \in 0..n /\ p < lo(c + 1)
      BY <1>1, <1>4, <1>11, <2>7
    <3>3. p < gl
      <4>1. CASE g = c + 1
        BY <3>2, <4>1
      <4>2. CASE g # c + 1
        <5>1. c + 1 < g
          BY <1>4, <2>7, <4>2
        <5>2. hi(c + 1) <= lo(g) /\ lo(c + 1) <= hi(c + 1) /\ lo(c + 1) \in Int /\ hi(c + 1) \in Int
          BY <1>5, <3>2, <5>1
        <5> QED BY <2>2, <3>2, <5>2
      <4> QED BY <4>1, <4>2
    <3> HIDE DEF x, gl, gr, cl, cr, dg, dc
    <3>4. ~(x < p) /\ ~(k <= moved)
      BY <2>2, <2>3, <2>4, <3>1, <3>3
    <3> QED BY <3>4 DEF x
  <2> QED BY <1>4, <2>5, <2>6, <2>7
<1> QED BY <1>14, <1>15 DEF file, moved
-----------------------------------------------------------------------------
(* The names that next_name runs through *)

\* Shorter names first, then by their letters
NameBefore(s, t) ==
  \/ Len(s) < Len(t)
  \/ Len(s) = Len(t) /\ \E k \in 1..Len(s) : s[k] < t[k] /\ \A j \in 1..(k - 1) : s[j] = t[j]

LEMMA NameBeforeIsStrict ==
  ASSUME NEW s \in Seq(Nat), NEW t \in Seq(Nat), NEW u \in Seq(Nat)
  PROVE  /\ ~NameBefore(s, s)
         /\ NameBefore(s, t) /\ NameBefore(t, u) => NameBefore(s, u)
<1>1. /\ Len(s) \in Nat /\ Len(t) \in Nat /\ Len(u) \in Nat
      /\ \A k \in 1..Len(s) : s[k] \in Nat
      /\ \A k \in 1..Len(t) : t[k] \in Nat
      /\ \A k \in 1..Len(u) : u[k] \in Nat
  OBVIOUS
<1>2. ~NameBefore(s, s)
  BY <1>1 DEF NameBefore
<1>3. ASSUME NameBefore(s, t), NameBefore(t, u) PROVE NameBefore(s, u)
  <2>1. CASE Len(s) < Len(t) \/ Len(t) < Len(u)
    <3>1. Len(s) < Len(u)
      BY <1>1, <1>3, <2>1 DEF NameBefore
    <3> QED BY <3>1 DEF NameBefore
  <2>2. CASE ~(Len(s) < Len(t) \/ Len(t) < Len(u))
    <3> DEFINE n == Len(s)
    <3>1. Len(t) = n /\ Len(u) = n
      BY <1>3, <2>2 DEF NameBefore
    <3>2. PICK k \in 1..n : s[k] < t[k] /\ \A j \in 1..(k - 1) : s[j] = t[j]
      BY <1>3, <2>2 DEF NameBefore
    <3>3. PICK l \in 1..n : t[l] < u[l] /\ \A j \in 1..(l - 1) : t[j] = u[j]
      BY <1>3, <2>2, <3>1 DEF NameBefore
    <3>0. n \in Nat /\ \A j \in 1..n : s[j] \in Nat /\ t[j] \in Nat /\ u[j] \in Nat
      BY <1>1, <3>1
    <3> HIDE DEF n
    <3>4. CASE k <= l
      <4>1. s[k] < u[k]
        <5>1. k = l \/ k \in 1..(l - 1)
          BY <3>0, <3>4
        <5>2. s[k] \in Nat /\ t[k] \in Nat /\ u[k] \in Nat
          BY <3>0
        <5>3. t[k] < u[k] \/ t[k] = u[k]
          BY <3>3, <5>1
        <5> QED BY <3>2, <5>2, <5>3
      <4>2. \A j \in 1..(k - 1) : s[j] = u[j]
        <5>1. \A j \in 1..(k - 1) : j \in 1..(l - 1)
          BY <3>0, <3>4
        <5> QED BY <3>2, <3>3, <5>1
      <4> QED BY <3>1, <4>1, <4>2 DEF NameBefore, n
    <3>5. CASE l < k
      <4>1. s[l] < u[l]
        <5>1. l \in 1..(k - 1)
          BY <3>0, <3>5
        <5> QED BY <3>2, <3>3, <5>1
      <4>2. \A j \in 1..(l - 1) : s[j] = u[j]
        <5>1. \A j \in 1..(l - 1) : j \in 1..(k - 1)
          BY <3>0, <3>5
        <5> QED BY <3>2, <3>3, <5>1
      <4> QED BY <3>1, <4>1, <4>2 DEF NameBefore, n
    <3> QED BY <3>0, <3>4, <3>5
  <2> QED BY <2>1, <2>2
<1> QED BY <1>2, <1>3

LEMMA MaxIs ==
  ASSUME NEW S \in SUBSET Nat, S # {}, NEW bound \in Nat, \A n \in S : n <= bound
  PROVE  Max(S) \in S /\ \A n \in S : n <= Max(S)
<1>1. PICK m \in S : \A n \in S : n <= m
  BY GreatestExists
<1>2. \A n \in S : m >= n
  BY <1>1
<1> QED BY <1>1, <1>2 DEF Max

\* next_name goes up in this order.
LEMMA NextNameFollows ==
  ASSUME NEW name \in Seq(Nat)
  PROVE  NextName(name) \in Seq(Nat) /\ NameBefore(name, NextName(name))
<1> DEFINE n == Len(name)
           rising == {k \in DOMAIN name : name[k] < LetterCount - 1}
           last == Max(rising)
           longer == [k \in 1..(n + 1) |-> 0]
           raised == [k \in 1..n |->
                        IF k = last THEN name[k] + 1 ELSE IF k > last THEN 0 ELSE name[k]]
<1>1. n \in Nat /\ DOMAIN name = 1..n /\ \A k \in 1..n : name[k] \in Nat
  OBVIOUS
<1>2. NextName(name) = IF rising = {} THEN longer ELSE raised
  BY <1>1 DEF NextName
<1>3. longer \in Seq(Nat) /\ Len(longer) = n + 1
  <2>1. longer \in [1..(n + 1) -> Nat]
    OBVIOUS
  <2> HIDE DEF longer, n
  <2> QED BY <1>1, <2>1
<1>4. ASSUME rising # {}
      PROVE  last \in 1..n /\ last \in Nat
  <2>1. rising \in SUBSET Nat /\ rising \in SUBSET (1..n) /\ \A k \in rising : k <= n
    BY <1>1
  <2>2. last \in rising
    <3> HIDE DEF rising, n
    <3> QED BY <1>1, <1>4, <2>1, MaxIs
  <2> HIDE DEF last, rising
  <2> QED BY <2>1, <2>2
<1>5. ASSUME rising # {}
      PROVE  raised \in Seq(Nat) /\ NameBefore(name, raised)
  <2> HIDE DEF last, n
  <2>0. last \in 1..n
    BY <1>4, <1>5
  <2>1. raised \in [1..n -> Nat]
    BY <1>1
  <2>2. raised \in Seq(Nat) /\ Len(raised) = n
    <3> HIDE DEF raised
    <3> QED BY <1>1, <2>1
  <2>3. name[last] < raised[last]
    BY <1>1, <2>0
  <2>4. \A j \in 1..(last - 1) : name[j] = raised[j]
    BY <1>1, <2>0
  <2> HIDE DEF raised
  <2> QED BY <2>0, <2>2, <2>3, <2>4 DEF NameBefore, n
<1> HIDE DEF rising, longer, raised
<1>6. NameBefore(name, longer)
  <2>1. Len(name) < Len(longer)
    BY <1>1, <1>3
  <2> QED BY <2>1 DEF NameBefore
<1> QED BY <1>2, <1>3, <1>5, <1>6

\* find_unused_name's loop
Nth ==
  LET nth[k \in 0..Len(toks)] == IF k = 0 THEN <<0>> ELSE NextName(nth[k - 1])
  IN nth

LEMMA NthTurns ==
  ASSUME toks \in Files
  PROVE  /\ Nth \in [0..Len(toks) -> Seq(Nat)]
         /\ \A k \in 1..Len(toks) : Nth[k] = NextName(Nth[k - 1])
<1> DEFINE n == Len(toks)
           Names == Seq(Nat)
           begin == <<0>>
           step == [kx \in (1..n) \X Names |-> NextName(kx[2])]
           Eq(f) == f = [k \in 0..n |-> IF k = 0 THEN begin ELSE NextName(f[k - 1])]
<1>0. n \in Nat /\ begin \in Names
  BY DEF Files
<1>1. IsTurn(step, n, Names)
  <2> HIDE DEF n
  <2> QED BY <1>0, NextNameFollows DEF IsTurn
<1>2. \A k \in 1..n, x \in Names : step[<<k, x>>] = NextName(x)
  <2> HIDE DEF n, Names
  <2> QED OBVIOUS
<1>3. PICK f : Follows(f, begin, n, step, Names)
  <2> HIDE DEF step, n, begin, Names
  <2> QED BY <1>0, <1>1, Recursion
<1> HIDE DEF step, n, begin, Names
<1>4. \A k \in 0..n : f[k] = IF k = 0 THEN begin ELSE NextName(f[k - 1])
  <2>1. \A k \in 1..n : f[k - 1] \in Names
    BY <1>0, <1>3 DEF Follows
  <2>2. \A k \in 1..n : f[k] = NextName(f[k - 1])
    BY <1>2, <1>3, <2>1 DEF Follows
  <2> QED BY <1>0, <1>3, <2>2 DEF Follows
<1>5. Eq(f)
  <2>1. f = [k \in 0..n |-> f[k]]
    BY <1>3 DEF Follows
  <2> QED BY <1>0, <1>4, <2>1
<1>6. Nth = CHOOSE g : Eq(g)
  BY DEF Nth, n, begin
<1>7. Eq(Nth)
  <2> HIDE DEF Eq
  <2> QED BY <1>5, <1>6
<1>8. Nth[0] = begin /\ \A k \in 1..n : Nth[k] = NextName(Nth[k - 1])
  BY <1>0, <1>7
<1>9. DOMAIN Nth = 0..n /\ Nth = [k \in 0..n |-> Nth[k]]
  BY <1>7
<1> DEFINE S == {k \in 0..n : Nth[k] \in Names}
<1>10. \A k \in 0..n : k \in S
  <2>1. 0 \in S
    BY <1>0, <1>8
  <2>2. \A k \in 1..n : k - 1 \in S => k \in S
    BY <1>0, <1>8, NextNameFollows DEF Names
  <2> HIDE DEF S
  <2> QED BY <1>0, <2>1, <2>2, Turns
<1>11. Nth \in [0..n -> Names]
  BY <1>9, <1>10
<1> QED BY <1>8, <1>11 DEF n, Names

LEMMA NthDiffer ==
  ASSUME toks \in Files
  PROVE  \A j, k \in 0..Len(toks) : Nth[j] = Nth[k] => j = k
<1> DEFINE n == Len(toks)
<1>0. n \in Nat
  BY DEF Files
<1>1. (\A k \in 0..n : Nth[k] \in Seq(Nat)) /\ \A k \in 1..n : Nth[k] = NextName(Nth[k - 1])
  BY NthTurns
<1> HIDE DEF n
<1>2. \A k \in 1..n : NameBefore(Nth[k - 1], Nth[k])
  <2> SUFFICES ASSUME NEW k \in 1..n PROVE NameBefore(Nth[k - 1], Nth[k])
    OBVIOUS
  <2>1. k - 1 \in 0..n
    BY <1>0
  <2> QED BY <1>1, <2>1, NextNameFollows
<1>3. ASSUME NEW j \in 0..n
      PROVE  \A k \in 0..n : j < k => NameBefore(Nth[j], Nth[k])
  <2> DEFINE S == {k \in 0..n : j < k => NameBefore(Nth[j], Nth[k])}
  <2>1. 0 \in S
    BY <1>0
  <2>2. ASSUME NEW k \in 1..n, k - 1 \in S PROVE k \in S
    <3>1. k \in 0..n /\ k - 1 \in 0..n
      BY <1>0
    <3>2. CASE j < k - 1
      <4>1. NameBefore(Nth[j], Nth[k - 1]) /\ NameBefore(Nth[k - 1], Nth[k])
        BY <1>2, <2>2, <3>2
      <4>2. Nth[j] \in Seq(Nat) /\ Nth[k - 1] \in Seq(Nat) /\ Nth[k] \in Seq(Nat)
        BY <1>1, <3>1
      <4>3. NameBefore(Nth[j], Nth[k])
        BY <4>1, <4>2, NameBeforeIsStrict
      <4> QED BY <3>1, <4>3
    <3>3. CASE j = k - 1
      BY <1>2, <3>1, <3>3
    <3>4. CASE j > k - 1
      BY <3>1, <3>4
    <3> QED BY <3>2, <3>3, <3>4
  <2>3. \A k \in 0..n : k \in S
    <3> HIDE DEF S
    <3> QED BY <1>0, <2>1, <2>2, Turns
  <2> QED BY <2>3
<1>4. ASSUME NEW j \in 0..n, NEW k \in 0..n, Nth[j] = Nth[k], j < k PROVE FALSE
  <2>1. NameBefore(Nth[j], Nth[j]) /\ Nth[j] \in Seq(Nat)
    BY <1>1, <1>3, <1>4
  <2> QED BY <2>1, NameBeforeIsStrict
<1>5. ASSUME NEW j \in 0..n, NEW k \in 0..n, Nth[j] = Nth[k] PROVE j = k
  <2>1. j < k \/ k < j \/ j = k
    OBVIOUS
  <2> QED BY <1>4, <1>5, <2>1
<1> QED BY <1>5 DEF n

\* Among one name more than there are tokens, one is no token's.
LEMMA UnusedNameIs ==
  ASSUME toks \in Files
  PROVE  UnusedName \in Seq(Nat) /\ UnusedName \notin Texts
<1> DEFINE n == Len(toks)
           Free(k) == Nth[k] \notin Texts /\ \A j \in 0..(k - 1) : Nth[j] \in Texts
           unused == CHOOSE k \in 0..n : Free(k)
<1>0. n \in Nat /\ Places = 1..n
  BY DEF Files, Places
<1>1. Nth \in [0..n -> Seq(Nat)] /\ \A j, k \in 0..n : Nth[j] = Nth[k] => j = k
  BY NthTurns, NthDiffer
<1>2. UnusedName = Nth[unused]
  BY DEF UnusedName, Nth
<1> HIDE DEF n
<1>3. IsFiniteSet(Texts) /\ Cardinality(Texts) <= n /\ Cardinality(Texts) \in Nat
  <2> DEFINE Words == {j \in Places : toks[j].kind # "string"}
             text == [i \in Words |-> toks[i].text]
  <2>1. IsFiniteSet(1..n) /\ Cardinality(1..n) = n
    BY <1>0, FS_Interval
  <2>2. IsFiniteSet(Words) /\ Cardinality(Words) <= n /\ Cardinality(Words) \in Nat
    <3>1. Words \in SUBSET (1..n)
      BY <1>0
    <3> HIDE DEF Words
    <3>2. IsFiniteSet(Words) /\ Cardinality(Words) <= Cardinality(1..n)
      BY <2>1, <3>1, FS_Subset
    <3> QED BY <2>1, <3>2, FS_CardinalityType
  <2>3. Texts = {toks[i].text : i \in Words}
    BY DEF Texts
  <2> HIDE DEF Words
  <2>4. text \in Surjection(Words, Texts)
    BY <2>3 DEF Surjection
  <2> HIDE DEF text
  <2>5. IsFiniteSet(Texts) /\ Cardinality(Texts) <= Cardinality(Words)
    BY <2>2, <2>4, FS_Surjection
  <2>6. Cardinality(Texts) \in Nat
    BY <2>5, FS_CardinalityType
  <2> QED BY <1>0, <2>2, <2>5, <2>6
<1>4. \E k \in 0..n : Nth[k] \notin Texts
  <2> SUFFICES ASSUME \A k \in 0..n : Nth[k] \in Texts PROVE FALSE
    OBVIOUS
  <2>1. IsFiniteSet(0..n) /\ Cardinality(0..n) = n + 1
    BY <1>0, FS_Interval
  <2>2. Nth \in [0..n -> Texts]
    BY <1>1
  <2>3. Cardinality(Texts) < Cardinality(0..n)
    BY <1>0, <1>3, <2>1
  <2>4. \E j, k \in 0..n : j # k /\ Nth[j] = Nth[k]
    BY <1>3, <2>1, <2>2, <2>3, FS_PigeonHole
  <2> QED BY <1>1, <2>4
<1>5. \E k \in 0..n : Free(k)
  <2> DEFINE S == {k \in 0..n : Nth[k] \notin Texts}
  <2>1. S \in SUBSET Nat /\ S # {}
    BY <1>4
  <2>2. PICK k \in S : \A j \in S : k <= j
    <3> HIDE DEF S
    <3> QED BY <2>1, LeastExists
  <2>3. k \in 0..n /\ Nth[k] \notin Texts
    OBVIOUS
  <2>4. ASSUME NEW j \in 0..(k - 1) PROVE Nth[j] \in Texts
    <3>1. j \in 0..n /\ ~(k <= j)
      BY <1>0, <2>3
    <3> QED BY <2>2, <3>1
  <2> QED BY <2>3, <2>4
<1>6. unused \in 0..n /\ Free(unused)
  <2> HIDE DEF Free
  <2> QED BY <1>5
<1> HIDE DEF unused
<1> QED BY <1>1, <1>2, <1>6
-----------------------------------------------------------------------------
(* What clex prints is a file *)

Toks == [kind : Kinds, text : Seq(Nat)]

LEMMA CommandIs ==
  ASSUME command \in Commands
  PROVE  /\ n_toks \in Nat
         /\ command[1] \in {"rm-toks", "rm-tok-pattern", "rename-toks", "delete-string",
                            "shorten-string", "hints-toks"}
         /\ command[1] = "rm-toks" => n_toks \in 1..1000
         /\ command[1] = "rm-tok-pattern" => n_toks \in 2..8
BY ClexAssumption DEF n_toks

LEMMA FileIs ==
  ASSUME toks \in Files
  PROVE  /\ Len(toks) \in Nat /\ Places = 1..Len(toks)
         /\ \A i \in Places : /\ toks[i] \in Toks /\ toks[i].kind \in Kinds /\ toks[i].text \in Seq(Nat)
                              /\ toks[i] = [kind |-> toks[i].kind, text |-> toks[i].text]
<1>1. toks \in Seq(Toks)
  BY DEF Files, Toks
<1>2. Len(toks) \in Nat /\ Places = 1..Len(toks) /\ \A i \in 1..Len(toks) : toks[i] \in Toks
  BY <1>1 DEF Places
<1>3. \A tok \in Toks : /\ tok.kind \in Kinds /\ tok.text \in Seq(Nat)
                       /\ tok = [kind |-> tok.kind, text |-> tok.text]
  BY DEF Toks
<1> QED BY <1>2, <1>3

LEMMA CandidateIs ==
  ASSUME NEW idx
  PROVE  /\ command[1] = "rm-toks" => Candidate(idx) = Without(RmToks(idx)) /\ OKs = TokenCount
         /\ command[1] = "rm-tok-pattern" =>
               Candidate(idx) = Without(RmTokPattern(idx)) /\ OKs = TokenCount * Patterns
         /\ command[1] = "rename-toks" =>
               Candidate(idx) = RenameToks(idx) /\ OKs = Cardinality(FirstPlaces)
         /\ command[1] = "delete-string" =>
               Candidate(idx) = DeleteString(idx) /\ OKs = Cardinality(NonEmpty)
         /\ command[1] = "shorten-string" =>
               Candidate(idx) = ShortenString(idx) /\ OKs = CharsUpTo[Len(toks)]
BY DEF Candidate, OKs

\* The tokens that are kept, in their order
LEMMA WithoutIs ==
  ASSUME toks \in Files, NEW places
  PROVE  Without(places) \in Files
<1> DEFINE S == Places \ places
           n == Cardinality(S)
           kept == InOrder(S)
           w == [k \in 1..n |-> toks[kept[k]]]
<1>1. S \in SUBSET Int /\ IsFiniteSet(S) /\ S \in SUBSET Places
  <2>1. Len(toks) \in Nat /\ Places = 1..Len(toks)
    BY FileIs
  <2>2. IsFiniteSet(1..Len(toks))
    BY <2>1, FS_Interval
  <2>3. S \in SUBSET (1..Len(toks))
    BY <2>1
  <2>4. IsFiniteSet(S)
    <3> HIDE DEF S
    <3> QED BY <2>2, <2>3, FS_Subset
  <2> QED BY <2>1, <2>3, <2>4
<1> HIDE DEF S
<1>2. kept \in [1..n -> S] /\ n \in Nat
  BY <1>1, InOrderLists
<1>3. Without(places) = w
  BY <1>2 DEF Without, S
<1> HIDE DEF kept, n
<1>4. \A k \in 1..n : toks[kept[k]] \in Toks
  BY <1>1, <1>2, FileIs
<1>5. w \in [1..n -> Toks]
  BY <1>4
<1> HIDE DEF w
<1>6. w \in Seq(Toks)
  BY <1>2, <1>5
<1> QED BY <1>3, <1>6 DEF Files, Toks

LEMMA SubSeqIs ==
  ASSUME NEW s \in Seq(Nat), NEW k \in 1..Len(s)
  PROVE  RemoveAt(s, k) \in Seq(Nat)
<1>1. k \in Int /\ Len(s) \in Nat /\ 1 <= k /\ k <= Len(s)
  OBVIOUS
<1>2. SubSeq(s, 1, k - 1) \in Seq(Nat)
  BY <1>1
<1>3. SubSeq(s, k + 1, Len(s)) \in Seq(Nat)
  BY <1>1
<1> QED BY <1>2, <1>3, ConcatAt DEF RemoveAt

\* A file in which the texts of some tokens are changed
Changed(changed, text) ==
  [i \in Places |-> IF changed[i] THEN [toks[i] EXCEPT !.text = text[i]] ELSE toks[i]]

LEMMA TextsChanged ==
  ASSUME toks \in Files, NEW changed, NEW text,
         \A i \in Places : changed[i] => text[i] \in Seq(Nat)
  PROVE  Changed(changed, text) \in Files
<1> DEFINE n == Len(toks)
           f == [i \in 1..n |-> IF changed[i] THEN [toks[i] EXCEPT !.text = text[i]] ELSE toks[i]]
<1>1. n \in Nat /\ Places = 1..n /\ \A i \in 1..n : toks[i] \in Toks
  BY FileIs
<1>2. \A i \in 1..n : changed[i] => [toks[i] EXCEPT !.text = text[i]] \in Toks
  <2> SUFFICES ASSUME NEW i \in 1..n, changed[i] PROVE [toks[i] EXCEPT !.text = text[i]] \in Toks
    OBVIOUS
  <2>1. toks[i] \in Toks /\ text[i] \in Seq(Nat)
    BY <1>1
  <2> QED BY <2>1 DEF Toks
<1> HIDE DEF n
<1>3. f \in [1..n -> Toks]
  BY <1>1, <1>2
<1> HIDE DEF f
<1>4. f \in Seq(Toks)
  BY <1>1, <1>3
<1> QED BY <1>1, <1>4 DEF Files, Toks, f, Changed

LEMMA CandidateIsFile ==
  ASSUME command \in Commands, command[1] # "hints-toks", toks \in Files, NEW idx \in Nat
  PROVE  Candidate(idx) \in Files
<1>1. CASE command[1] = "rm-toks"
  BY <1>1, CandidateIs, WithoutIs
<1>2. CASE command[1] = "rm-tok-pattern"
  BY <1>2, CandidateIs, WithoutIs
<1>3. CASE command[1] = "rename-toks"
  <2> DEFINE first == CHOOSE i \in FirstPlaces : Cardinality({j \in FirstPlaces : j < i}) = idx
             name == toks[first].text
             changed == [i \in Places |-> toks[i].kind = "ident" /\ toks[i].text = name]
             text == [i \in Places |-> UnusedName]
  <2>1. RenameToks(idx) = Changed(changed, text)
    BY DEF RenameToks, Changed
  <2>2. \A i \in Places : changed[i] => text[i] \in Seq(Nat)
    BY UnusedNameIs
  <2> HIDE DEF changed, text
  <2>3. RenameToks(idx) \in Files
    BY <2>1, <2>2, TextsChanged
  <2> QED BY <1>3, <2>3, CandidateIs
<1>4. CASE command[1] = "delete-string"
  <2> DEFINE changed == [i \in Places |-> i \in NonEmpty /\ Cardinality({j \in NonEmpty : j < i}) = idx]
             text == [i \in Places |-> <<>>]
  <2>1. DeleteString(idx) = Changed(changed, text)
    BY DEF DeleteString, Changed
  <2>2. \A i \in Places : changed[i] => text[i] \in Seq(Nat)
    OBVIOUS
  <2> HIDE DEF changed, text
  <2>3. DeleteString(idx) \in Files
    BY <2>1, <2>2, TextsChanged
  <2> QED BY <1>4, <2>3, CandidateIs
<1>5. CASE command[1] = "shorten-string"
  <2> DEFINE at(i) == idx - CharsUpTo[i - 1] + 1
             changed == [i \in Places |-> i \in Strings /\ at(i) \in DOMAIN toks[i].text]
             text == [i \in Places |-> RemoveAt(toks[i].text, at(i))]
  <2>1. ShortenString(idx) = Changed(changed, text)
    BY DEF ShortenString, Changed
  <2>2. \A i \in Places : changed[i] => text[i] \in Seq(Nat)
    <3> SUFFICES ASSUME NEW i \in Places, changed[i] PROVE text[i] \in Seq(Nat)
      OBVIOUS
    <3>1. toks[i].text \in Seq(Nat)
      BY FileIs
    <3>2. at(i) \in DOMAIN toks[i].text /\ text[i] = RemoveAt(toks[i].text, at(i))
      OBVIOUS
    <3> DEFINE s == toks[i].text
    <3>3. s \in Seq(Nat) /\ at(i) \in 1..Len(s)
      BY <3>1, <3>2
    <3> HIDE DEF at, text, s
    <3> QED BY <3>2, <3>3, SubSeqIs DEF s
  <2> HIDE DEF changed, text
  <2>3. ShortenString(idx) \in Files
    BY <2>1, <2>2, TextsChanged
  <2> QED BY <1>5, <2>3, CandidateIs
<1> QED BY <1>1, <1>2, <1>3, <1>4, <1>5, CommandIs
-----------------------------------------------------------------------------
(* What holds of every state *)

\* A text has one kind. Needed where names are compared, and kept by renaming: the
\* new name is no token's.
KindsTold ==
  \A i, j \in Places : Written(toks[i]) = Written(toks[j]) => toks[i].kind = toks[j].kind

EditsInv ==
  /\ command \in Commands
  /\ toks \in Files
  /\ file_size \in Nat /\ start_pos \in Layouts(Len(toks), file_size)
  /\ index \in Nat
  /\ patches \in Seq(PatchesOf(file_size))
  /\ command[1] # "hints-toks" => patches = <<>>
  /\ command[1] = "rename-toks" => KindsTold

\* Tokens without comments between them
LEMMA PrintedLayout ==
  ASSUME NEW n \in Nat
  PROVE  [i \in 1..n |-> i - 1] \in Layouts(n, n)
<1> DEFINE s == [i \in 1..n |-> i - 1]
<1>1. s \in [1..n -> 0..(n - 1)]
  OBVIOUS
<1>2. \A i, j \in 1..n : i < j => s[i] < s[j]
  OBVIOUS
<1> HIDE DEF s
<1> QED BY <1>1, <1>2 DEF Layouts

\* Renaming keeps names apart that are apart before it.
LEMMA RenamingKeepsApart ==
  ASSUME toks \in Files, KindsTold, NEW idx, toks' = RenameToks(idx)
  PROVE  /\ \A i, j \in Places :
               (Written(toks[i]) = Written(toks[j])) <=> (Written(toks'[i]) = Written(toks'[j]))
         /\ KindsTold'
<1> DEFINE first == CHOOSE i \in FirstPlaces : Cardinality({j \in FirstPlaces : j < i}) = idx
           name == toks[first].text
           Renamed == {i \in Places : toks[i].kind = "ident" /\ toks[i].text = name}
<1>1. /\ DOMAIN toks' = Places
      /\ \A i \in Places \ Renamed : toks'[i] = toks[i]
      /\ \A i \in Renamed : toks'[i] = [toks[i] EXCEPT !.text = UnusedName]
  BY DEF RenameToks
<1> HIDE DEF name
<1>2. \A i \in Renamed : i \in Places /\ toks[i].kind = "ident" /\ toks[i].text = name
  OBVIOUS
<1>3. \A i \in Places \ Renamed : ~(toks[i].kind = "ident" /\ toks[i].text = name)
  OBVIOUS
<1> HIDE DEF Renamed
<1>4. \A i \in Renamed : toks'[i].kind = "ident" /\ toks'[i].text = UnusedName
  BY <1>1, <1>2, FileIs DEF Toks
<1>5. \A i \in Renamed : Written(toks[i]) = <<FALSE, name>> /\ Written(toks'[i]) = <<FALSE, UnusedName>>
  BY <1>2, <1>4 DEF Written
<1>6. ASSUME NEW i \in Renamed, NEW j \in Places \ Renamed
      PROVE  Written(toks[i]) # Written(toks[j]) /\ Written(toks'[i]) # Written(toks'[j])
  <2>1. Written(toks[i]) # Written(toks[j])
    <3> SUFFICES ASSUME Written(toks[i]) = Written(toks[j]) PROVE FALSE
      OBVIOUS
    <3>1. toks[j].kind = "ident"
      BY <1>2 DEF KindsTold
    <3>2. toks[j].text = name
      BY <1>5 DEF Written
    <3> QED BY <1>3, <3>1, <3>2
  <2>2. Written(toks'[i]) # Written(toks'[j])
    <3> SUFFICES ASSUME Written(toks'[i]) = Written(toks'[j]) PROVE FALSE
      OBVIOUS
    <3>1. Written(toks[j]) = <<FALSE, UnusedName>>
      BY <1>1, <1>5
    <3>2. toks[j].kind # "string" /\ toks[j].text = UnusedName
      BY <3>1 DEF Written
    <3>3. UnusedName \in Texts
      BY <3>2 DEF Texts
    <3> QED BY <3>3, UnusedNameIs
  <2> QED BY <2>1, <2>2
<1>7. ASSUME NEW i \in Places, NEW j \in Places
      PROVE  (Written(toks[i]) = Written(toks[j])) <=> (Written(toks'[i]) = Written(toks'[j]))
  <2>1. CASE i \in Renamed /\ j \in Renamed
    BY <1>5, <2>1
  <2>2. CASE i \notin Renamed /\ j \notin Renamed
    BY <1>1, <2>2
  <2>3. CASE i \in Renamed /\ j \notin Renamed
    BY <1>6, <2>3
  <2>4. CASE i \notin Renamed /\ j \in Renamed
    <3>1. Written(toks[j]) # Written(toks[i]) /\ Written(toks'[j]) # Written(toks'[i])
      BY <1>6, <2>4
    <3> QED BY <3>1
  <2> QED BY <2>1, <2>2, <2>3, <2>4
<1>8. \A i \in Places : toks'[i].kind = toks[i].kind
  BY <1>1, <1>2, <1>4
<1>9. KindsTold'
  <2> SUFFICES ASSUME NEW i \in Places, NEW j \in Places, Written(toks'[i]) = Written(toks'[j])
               PROVE  toks'[i].kind = toks'[j].kind
    BY <1>1 DEF KindsTold, Places
  <2>1. Written(toks[i]) = Written(toks[j])
    BY <1>7
  <2> QED BY <1>8, <2>1 DEF KindsTold
<1> QED BY <1>7, <1>9

LEMMA EditsInvInit == Init => EditsInv
<1> SUFFICES ASSUME Init PROVE EditsInv
  OBVIOUS
<1>1. command \in Commands /\ toks \in Inputs[command] /\ index = 0 /\ patches = <<>>
  BY DEF Init, ClexInit
<1>2. toks \in Files /\ KindsTold
  BY <1>1, ClexAssumption DEF KindsTold, Places
<1>3. file_size \in Nat /\ start_pos \in Layouts(Len(toks), file_size)
  <2>1. /\ file_size \in Len(toks)..(Len(toks) + CommentChars[command])
        /\ start_pos \in Layouts(Len(toks), file_size)
    BY DEF Init, ClexInit
  <2>2. Len(toks) \in Nat /\ CommentChars[command] \in Nat
    BY <1>1, <1>2, FileIs, ClexAssumption
  <2> QED BY <2>1, <2>2
<1>4. patches \in Seq(PatchesOf(file_size))
  BY <1>1
<1> QED BY <1>1, <1>2, <1>3, <1>4 DEF EditsInv

LEMMA EditsInvNext == EditsInv /\ [Next]_vars => EditsInv'
<1> SUFFICES ASSUME EditsInv, [Next]_vars PROVE EditsInv'
  OBVIOUS
<1> USE DEF EditsInv
<1>1. CASE AddPatch
  <2>1. command' = command /\ toks' = toks /\ index' = index /\ command[1] = "hints-toks"
    BY <1>1 DEF AddPatch, clexVars, fileVars
  <2>2. PICK p \in PatchesOf(file_size) : patches' = Append(patches, p)
    BY <1>1 DEF AddPatch
  <2>3. file_size' = file_size /\ start_pos' = start_pos
    BY <1>1 DEF AddPatch, clexVars, fileVars
  <2>4. patches' \in Seq(PatchesOf(file_size'))
    BY <2>2, <2>3
  <2> QED BY <2>1, <2>3, <2>4
<1>2. CASE ClexStep
  <2>1. command[1] # "hints-toks" /\ patches = <<>> /\ patches' = <<>>
    BY <1>2 DEF ClexStep
  <2>2. CASE Accept
    <3>1. command' = command /\ index' = index /\ toks' = Candidate(index)
      BY <2>2 DEF Accept
    <3>2. toks' \in Files
      BY <2>1, <3>1, CandidateIsFile
    <3>3. command[1] = "rename-toks" => KindsTold'
      <4>1. command[1] = "rename-toks" => toks' = RenameToks(index)
        BY <3>1, CandidateIs
      <4> QED BY <4>1, RenamingKeepsApart
    <3>4. file_size' \in Nat /\ start_pos' \in Layouts(Len(toks'), file_size')
      <4>1. file_size' = Len(toks') /\ start_pos' = [i \in DOMAIN toks' |-> i - 1]
        BY <2>2 DEF Accept
      <4>2. Len(toks') \in Nat /\ DOMAIN toks' = 1..Len(toks')
        BY <3>2 DEF Files
      <4> QED BY <4>1, <4>2, PrintedLayout
    <3>5. patches' \in Seq(PatchesOf(file_size'))
      BY <2>1
    <3> QED BY <2>1, <3>1, <3>2, <3>3, <3>4, <3>5
  <2>3. CASE Reject
    <3>1. command' = command /\ index' = index + 1 /\ UNCHANGED <<toks, start_pos, file_size>>
      BY <2>3 DEF Reject, fileVars
    <3> QED BY <2>1, <3>1 DEF KindsTold, Places
  <2>4. CASE Stop
    <3>1. command' = command /\ index' = index /\ UNCHANGED <<toks, start_pos, file_size>>
      BY <2>4 DEF Stop, fileVars
    <3> QED BY <2>1, <3>1 DEF KindsTold, Places
  <2> QED BY <1>2, <2>2, <2>3, <2>4 DEF ClexStep, ClexNext
<1>3. CASE UNCHANGED vars
  BY <1>3 DEF vars, clexVars, fileVars, KindsTold, Places
<1> QED BY <1>1, <1>2, <1>3 DEF Next

LEMMA EditsInvAlways == Spec => []EditsInv
BY EditsInvInit, EditsInvNext, PTL DEF Spec

-----------------------------------------------------------------------------
(* Patches, positions and names *)

\* Whatever patches the hints of passes bring to a file, they are in order, apart and
\* within the file once they are merged, as _apply_hint_patches_to_file asserts, and
\* what it writes is the file without what they cover.
THEOREM PatchesAlwaysApply == Spec => []PatchesApply
<1>1. EditsInv => PatchesApply
  <2> SUFFICES ASSUME EditsInv PROVE PatchesApply
    OBVIOUS
  <2>1. file_size \in Nat /\ patches \in Seq(PatchesOf(file_size))
    BY DEF EditsInv
  <2>2. AppliesCleanly(Merge(patches), file_size)
    BY <2>1, MergeAppliesCleanly
  <2>3. Leaves(Apply(patches, file_size), (1..file_size) \ Covered(patches))
    BY <2>1, ApplyLeaves
  <2> QED BY <2>2, <2>3 DEF PatchesApply
<1> QED BY <1>1, EditsInvAlways, PTL

\* subtract_hints moves every position of a file to where the characters that were
\* before it and are left end in the file with the patches applied.
THEOREM PositionsAlwaysFollow == Spec => []PositionsFollow
<1>1. EditsInv => PositionsFollow
  <2> SUFFICES ASSUME EditsInv PROVE PositionsFollow
    OBVIOUS
  <2>1. file_size \in Nat
    BY DEF EditsInv
  <2>2. patches \in Seq(PatchesOf(file_size))
    BY DEF EditsInv
  <2> DEFINE size == file_size
             file == Apply(patches, size)
  <2>3. DOMAIN file = 1..Len(file)
    <3>1. file \in Seq(Int)
      BY <2>1, <2>2, ApplyFacts
    <3> HIDE DEF file
    <3> QED BY <3>1
  <2>4. ASSUME NEW p \in 0..size
        PROVE  /\ MapPosition(patches, p) \in 0..Len(file)
               /\ \A k \in 1..Len(file) :
                     file[k] # Inserted => (file[k] < p <=> k <= MapPosition(patches, p))
    BY <2>1, <2>2, MovedFollows
  <2> QED
    <3> HIDE DEF file
    <3>1. PositionsFollow <=>
            \A p \in 0..size :
                /\ MapPosition(patches, p) \in 0..Len(file)
                /\ \A k \in DOMAIN file :
                      file[k] # Inserted => (file[k] < p <=> k <= MapPosition(patches, p))
      BY DEF PositionsFollow, file
    <3> QED BY <2>3, <2>4, <3>1
<1> QED BY <1>1, EditsInvAlways, PTL

\* A renaming gives no two different texts the same name, and equal ones stay equal: the
\* name that find_unused_name finds is no token's.
THEOREM NamesAlwaysKeptApart == Spec => NamesKeptApart
<1> DEFINE Kept ==
      command[1] = "rename-toks" =>
          \A i, j \in Places :
              (Written(toks[i]) = Written(toks[j])) <=> (Written(toks'[i]) = Written(toks'[j]))
<1>1. EditsInv /\ [Next]_vars => [Kept]_vars
  <2> SUFFICES ASSUME EditsInv, Next, command[1] = "rename-toks" PROVE Kept
    OBVIOUS
  <2>1. CASE toks' = toks
    BY <2>1
  <2>2. CASE Accept
    <3>1. toks' = RenameToks(index)
      BY <2>2, CandidateIs DEF Accept
    <3> QED BY <3>1, RenamingKeepsApart DEF EditsInv
  <2>3. toks' = toks \/ Accept
    BY DEF Next, AddPatch, clexVars, fileVars, ClexStep, ClexNext, Reject, Stop
  <2> QED BY <2>1, <2>2, <2>3
<1> QED BY <1>1, EditsInvAlways, PTL DEF Spec, NamesKeptApart
-----------------------------------------------------------------------------
(* Counting tokens *)

TokensUpTo(i) == {j \in 1..i : ~Space(j)}

LEMMA WhichIs ==
  ASSUME toks \in Files
  PROVE  /\ \A i \in 0..Len(toks) : IsFiniteSet(TokensUpTo(i)) /\ Which(i) \in Nat
         /\ \A i, j \in 0..Len(toks) : i <= j => Which(i) <= Which(j)
         /\ \A i, j \in 0..Len(toks) : i < j /\ ~Space(j) => Which(i) < Which(j)
         /\ \A i, j \in 0..Len(toks) : i <= j /\ (\A k \in (i + 1)..j : Space(k)) => Which(i) = Which(j)
         /\ TokenCount = Which(Len(toks))
<1> DEFINE n == Len(toks)
           T(i) == TokensUpTo(i)
<1>0. n \in Nat /\ Places = 1..n
  BY FileIs
<1>1. \A i : Which(i) = Cardinality(T(i))
  BY DEF Which, TokensUpTo
<1> HIDE DEF n
<1>2. ASSUME NEW i \in 0..n PROVE IsFiniteSet(T(i)) /\ Which(i) \in Nat
  <2>1. IsFiniteSet(1..i)
    BY FS_Interval
  <2>2. T(i) \in SUBSET (1..i)
    BY DEF TokensUpTo
  <2> HIDE DEF T
  <2>3. IsFiniteSet(T(i))
    BY <2>1, <2>2, FS_Subset
  <2>4. Cardinality(T(i)) \in Nat
    BY <2>3, FS_CardinalityType
  <2> QED BY <1>1, <2>3, <2>4
<1>3. ASSUME NEW i \in 0..n, NEW j \in 0..n, i <= j
      PROVE  T(i) \in SUBSET T(j) /\ Which(i) <= Which(j) /\ (Which(i) = Which(j) => T(i) = T(j))
  <2>1. T(i) \in SUBSET T(j)
    BY <1>3 DEF TokensUpTo
  <2>2. IsFiniteSet(T(j))
    BY <1>2
  <2> HIDE DEF T
  <2>3. Cardinality(T(i)) <= Cardinality(T(j)) /\ (Cardinality(T(j)) = Cardinality(T(i)) => T(j) = T(i))
    BY <2>1, <2>2, FS_Subset
  <2> QED BY <1>1, <2>1, <2>3
<1>4. ASSUME NEW i \in 0..n, NEW j \in 0..n, i < j, ~Space(j)
      PROVE  Which(i) < Which(j)
  <2>1. j \in T(j) /\ j \notin T(i)
    BY <1>4 DEF TokensUpTo
  <2>2. Which(i) <= Which(j) /\ Which(i) # Which(j)
    BY <1>3, <1>4, <2>1
  <2> QED BY <1>2, <2>2
<1>5. ASSUME NEW i \in 0..n, NEW j \in 0..n, i <= j, \A k \in (i + 1)..j : Space(k)
      PROVE  Which(i) = Which(j)
  <2>1. \A k \in 1..j : k \in 1..i \/ k \in (i + 1)..j
    OBVIOUS
  <2>2. T(i) = T(j)
    BY <1>3, <1>5, <2>1 DEF TokensUpTo
  <2> QED BY <1>1, <2>2
<1>6. TokenCount = Which(n)
  BY <1>0 DEF TokenCount, Which
<1> QED BY <1>2, <1>3, <1>4, <1>5, <1>6 DEF n, T

\* Every place that comes with some token comes with the last token before it.
LEMMA TokenOf ==
  ASSUME toks \in Files, NEW x \in Places, Which(x) # 0
  PROVE  \E t \in Tokens : /\ t <= x /\ Which(t) = Which(x)
                           /\ \A k \in (t + 1)..x : Space(k)
<1>0. Len(toks) \in Nat /\ Places = 1..Len(toks)
  BY FileIs
<1>1. TokensUpTo(x) # {}
  <2> SUFFICES ASSUME TokensUpTo(x) = {} PROVE FALSE
    OBVIOUS
  <2>1. Which(x) = Cardinality({})
    BY DEF Which, TokensUpTo
  <2> QED BY <2>1, FS_EmptySet
<1>2. TokensUpTo(x) \in SUBSET Nat /\ \A k \in TokensUpTo(x) : k <= x
  BY <1>0 DEF TokensUpTo
<1>3. PICK t \in TokensUpTo(x) : \A k \in TokensUpTo(x) : k <= t
  <2>1. x \in Nat
    BY <1>0
  <2> QED BY <1>1, <1>2, <2>1, GreatestExists
<1>4. t \in Tokens /\ t <= x /\ t \in Nat
  BY <1>0, <1>2 DEF Tokens, TokensUpTo
<1>5. ASSUME NEW k \in (t + 1)..x PROVE Space(k)
  <2>1. k \in 1..x /\ ~(k <= t)
    BY <1>4
  <2> QED BY <1>3, <2>1 DEF TokensUpTo
<1>6. Which(t) = Which(x)
  BY <1>0, <1>4, <1>5, WhichIs
<1> QED BY <1>4, <1>5, <1>6

\* The token at a place, and what hints_toks cuts with it
LEMMA CutEndIs ==
  ASSUME toks \in Files, NEW t \in Places
  PROVE  /\ CutEnd(t) \in t..Len(toks)
         /\ \A k \in (t + 1)..CutEnd(t) : Space(k) /\ ~TerminatingNewline(k)
         /\ \A x \in t..Len(toks) :
               (\A k \in (t + 1)..x : Space(k) /\ ~TerminatingNewline(k)) => x <= CutEnd(t)
<1> DEFINE n == Len(toks)
           S == {j \in t..n : \A k \in (t + 1)..j : Space(k) /\ ~TerminatingNewline(k)}
<1>0. n \in Nat /\ Places = 1..n
  BY FileIs
<1> HIDE DEF n
<1>1. S \in SUBSET Nat /\ t \in S /\ \A j \in S : j <= n
  BY <1>0
<1>2. CutEnd(t) = Max(S)
  BY DEF CutEnd, n
<1>3. Max(S) \in S /\ \A j \in S : j <= Max(S)
  <2> HIDE DEF S
  <2> QED BY <1>0, <1>1, MaxIs
<1>4. CutEnd(t) \in S /\ \A j \in S : j <= CutEnd(t)
  BY <1>2, <1>3
<1> QED BY <1>4 DEF n

\* The tokens that the hints from a place on are for
CutTokens(i) == {j \in Tokens : Which(j) \in Which(i)..(Which(i) + n_toks - 1)}
Hint(t) == [left |-> start_pos[t], right |-> start_pos[CutEnd(t)] + 1, value |-> NoValue]

\* Tokens do not overlap.
LEMMA PositionsRise ==
  ASSUME NEW n \in Nat, start_pos \in Layouts(n, file_size), file_size \in Nat
  PROVE  /\ \A i \in 1..n : start_pos[i] \in Nat /\ start_pos[i] + 1 \in 1..file_size
         /\ \A i, j \in 1..n : i < j <=> start_pos[i] < start_pos[j]
<1>1. start_pos \in [1..n -> 0..(file_size - 1)] /\ \A i, j \in 1..n : i < j => start_pos[i] < start_pos[j]
  BY DEF Layouts
<1>2. \A i \in 1..n : start_pos[i] \in Nat /\ start_pos[i] + 1 \in 1..file_size
  BY <1>1
<1>3. ASSUME NEW i \in 1..n, NEW j \in 1..n, start_pos[i] < start_pos[j]
      PROVE  i < j
  <2>1. i = j \/ i < j \/ j < i
    OBVIOUS
  <2>2. j < i => start_pos[j] < start_pos[i]
    BY <1>1
  <2> QED BY <1>2, <1>3, <2>1, <2>2
<1> QED BY <1>1, <1>2, <1>3

LEMMA HintsFromIs ==
  ASSUME toks \in Files, file_size \in Nat, start_pos \in Layouts(Len(toks), file_size),
         NEW i \in Tokens
  PROVE  /\ HintsFrom(i) \in Seq(PatchesOf(file_size))
         /\ ToSet(HintsFrom(i)) = {Hint(t) : t \in CutTokens(i)}
<1> DEFINE S == CutTokens(i)
           n == Cardinality(S)
           order == InOrder(S)
           h == [k \in 1..n |-> Hint(order[k])]
           size == Len(toks)
<1>0. size \in Nat /\ Places = 1..size
  BY FileIs
<1>1. S \in SUBSET (1..size) /\ S \in SUBSET Int
  BY <1>0 DEF CutTokens, Tokens
<1>2. HintsFrom(i) = [k \in DOMAIN order |-> Hint(order[k])]
  BY DEF HintsFrom, Hint, CutTokens
<1> HIDE DEF S, size
<1>3. IsFiniteSet(S)
  <2>1. IsFiniteSet(1..size)
    BY <1>0, FS_Interval
  <2> QED BY <1>1, <2>1, FS_Subset
<1>4. order \in [1..n -> S] /\ n \in Nat /\ \A t \in S : \E k \in 1..n : order[k] = t
  BY <1>1, <1>3, InOrderLists
<1>5. HintsFrom(i) = h
  BY <1>2, <1>4
<1>6. \A t \in S : Hint(t) \in PatchesOf(file_size)
  <2> SUFFICES ASSUME NEW t \in S PROVE Hint(t) \in PatchesOf(file_size)
    OBVIOUS
  <2>1. t \in Places /\ t \in 1..size
    BY <1>0, <1>1
  <2>2. CutEnd(t) \in t..size
    BY <2>1, CutEndIs DEF size
  <2> DEFINE e == CutEnd(t)
  <2>3. e \in 1..size /\ (t = e \/ t < e)
    BY <1>0, <2>1, <2>2
  <2> HIDE DEF e
  <2>4. /\ start_pos[t] \in Nat /\ start_pos[e] \in Nat /\ start_pos[e] + 1 \in 1..file_size
        /\ start_pos[t] + 1 \in 1..file_size
        /\ t < e => start_pos[t] < start_pos[e]
    BY <1>0, <2>1, <2>3, PositionsRise DEF size
  <2>5. start_pos[t] \in 0..file_size /\ start_pos[e] + 1 \in 0..file_size
        /\ start_pos[t] <= start_pos[e] + 1
    BY <2>3, <2>4
  <2> QED BY <2>5 DEF Hint, PatchesOf, e
<1> HIDE DEF order, n
<1>7. h \in [1..n -> PatchesOf(file_size)]
  BY <1>4, <1>6
<1>8. {h[k] : k \in 1..n} = {Hint(t) : t \in S}
  BY <1>4
<1>9. DOMAIN h = 1..n
  OBVIOUS
<1> HIDE DEF h
<1>10. h \in Seq(PatchesOf(file_size))
  BY <1>4, <1>7
<1>11. ToSet(h) = {Hint(t) : t \in S}
  BY <1>8, <1>9 DEF ToSet
<1> QED BY <1>5, <1>10, <1>11 DEF S, size

\* The tokens that the hints for n_toks tokens cut are those that rm-toks leaves out.
LEMMA HintsCover ==
  ASSUME toks \in Files, file_size \in Nat, start_pos \in Layouts(Len(toks), file_size),
         n_toks \in Nat, NEW i \in Tokens
  PROVE  CutBy(HintsFrom(i)) = RmToks(Which(i) - 1)
<1> DEFINE size == Len(toks)
           w == Which(i)
<1>0. size \in Nat /\ Places = 1..size
  BY FileIs
<1>1. i \in 1..size /\ ~Space(i)
  BY <1>0 DEF Tokens
<1>2. w \in Nat /\ w >= 1
  <2>1. Which(0) \in Nat /\ w \in Nat /\ Which(0) < w
    BY <1>0, <1>1, WhichIs
  <2> HIDE DEF w
  <2> QED BY <2>1
<1>3. ToSet(HintsFrom(i)) = {Hint(t) : t \in CutTokens(i)}
  BY HintsFromIs
<1>4. \A t \in CutTokens(i) : /\ t \in Places /\ t \in Int /\ ~Space(t)
                              /\ Which(t) \in w..(w + n_toks - 1)
  BY <1>0 DEF CutTokens, Tokens
<1>5. \A x : x \in CutBy(HintsFrom(i)) <=> x \in Places /\ \E t \in CutTokens(i) : x \in t..CutEnd(t)
  <2>1. \A x : x \in Covered(HintsFrom(i)) <=>
               \E p \in ToSet(HintsFrom(i)) : x \in (p.left + 1)..p.right
    BY DEF Covered
  <2>2. \A t : Hint(t).left = start_pos[t] /\ Hint(t).right = start_pos[CutEnd(t)] + 1
    BY DEF Hint
  <2>3. \A x : x \in Covered(HintsFrom(i)) <=>
               \E t \in CutTokens(i) : x \in (start_pos[t] + 1)..(start_pos[CutEnd(t)] + 1)
    BY <1>3, <2>1, <2>2
  <2>4. ASSUME NEW x \in Places, NEW t \in CutTokens(i)
        PROVE  start_pos[x] + 1 \in (start_pos[t] + 1)..(start_pos[CutEnd(t)] + 1)
                 <=> x \in t..CutEnd(t)
    <3> DEFINE e == CutEnd(t)
    <3>1. x \in 1..size /\ t \in 1..size /\ e \in 1..size
      <4>1. CutEnd(t) \in t..size /\ t \in 1..size
        BY <1>0, <1>4, CutEndIs
      <4> QED BY <1>0, <4>1
    <3> HIDE DEF e, size
    <3>2. /\ start_pos[x] \in Nat /\ start_pos[t] \in Nat /\ start_pos[e] \in Nat
          /\ x < t <=> start_pos[x] < start_pos[t]
          /\ e < x <=> start_pos[e] < start_pos[x]
      BY <1>0, <3>1, PositionsRise DEF size
    <3> QED BY <1>0, <3>1, <3>2 DEF e
  <2> QED BY <2>3, <2>4 DEF CutBy
<1> HIDE DEF w, size
<1>6. ASSUME NEW x \in CutBy(HintsFrom(i)) PROVE x \in RmToks(w - 1)
  <2>1. PICK t \in CutTokens(i) : x \in t..CutEnd(t)
    BY <1>5
  <2>2. CutEnd(t) \in t..size /\ \A k \in (t + 1)..CutEnd(t) : Space(k) /\ ~TerminatingNewline(k)
    BY <1>4, CutEndIs DEF size
  <2>3. t \in 1..size /\ x \in 1..size /\ t <= x
    BY <1>0, <1>4, <2>1, <2>2
  <2>4. \A k \in (t + 1)..x : k \in (t + 1)..CutEnd(t)
    BY <2>1, <2>2, <2>3
  <2>5. Which(t) = Which(x)
    <3>1. t \in 0..size /\ x \in 0..size
      BY <2>3
    <3> QED BY <2>2, <2>3, <2>4, <3>1, WhichIs DEF size
  <2>6. ~TerminatingNewline(x)
    <3>1. CASE x = t
      BY <1>4, <3>1 DEF TerminatingNewline, Space
    <3>2. CASE x # t
      <4>1. x \in (t + 1)..x
        BY <2>3, <3>2
      <4> QED BY <2>2, <2>4, <4>1
    <3> QED BY <3>1, <3>2
  <2>7. Which(x) > w - 1 /\ Which(x) <= (w - 1) + n_toks
    BY <1>2, <1>4, <2>5
  <2> QED BY <1>0, <2>3, <2>6, <2>7 DEF RmToks
<1>7. ASSUME NEW x \in RmToks(w - 1) PROVE x \in CutBy(HintsFrom(i))
  <2>1. x \in Places /\ Which(x) > w - 1 /\ Which(x) <= (w - 1) + n_toks /\ ~TerminatingNewline(x)
    BY DEF RmToks
  <2>2. x \in 1..size /\ Which(x) \in Nat
    <3>1. x \in 1..size /\ x \in 0..size
      BY <1>0, <2>1
    <3> QED BY <3>1, WhichIs DEF size
  <2>3. Which(x) # 0 /\ Which(x) \in w..(w + n_toks - 1)
    BY <1>2, <2>1, <2>2
  <2>4. PICK t \in Tokens : t <= x /\ Which(t) = Which(x) /\ \A k \in (t + 1)..x : Space(k)
    BY <2>1, <2>3, TokenOf
  <2>5. t \in CutTokens(i)
    BY <2>3, <2>4 DEF CutTokens, w
  <2>6. t \in Places /\ t \in 1..size
    BY <1>0, <2>4 DEF Tokens
  <2>7. \A k \in (t + 1)..x : Space(k) /\ ~TerminatingNewline(k)
    <3> SUFFICES ASSUME NEW k \in (t + 1)..x PROVE ~TerminatingNewline(k)
      BY <2>4
    <3>1. CASE k = x
      BY <2>1, <3>1
    <3>2. CASE k # x
      <4>1. k # size
        BY <1>0, <2>2, <2>6, <3>2
      <4> QED BY <4>1 DEF TerminatingNewline, size
    <3> QED BY <3>1, <3>2
  <2>8. x \in t..size /\ x <= CutEnd(t)
    <3>1. x \in t..size
      BY <1>0, <2>2, <2>4, <2>6
    <3> QED BY <2>6, <2>7, <3>1, CutEndIs DEF size
  <2>9. CutEnd(t) \in t..size
    BY <2>6, CutEndIs DEF size
  <2>10. x \in t..CutEnd(t)
    BY <1>0, <2>2, <2>6, <2>8, <2>9
  <2> QED BY <1>5, <2>1, <2>5, <2>10
<1> QED BY <1>6, <1>7 DEF w

\* The characters that tokens have are each one token's.
LEMMA CharsOfIs ==
  ASSUME NEW n \in Nat, file_size \in Nat, start_pos \in Layouts(n, file_size), Places = 1..n,
         NEW ps, NEW cut, cut = CutBy(ps)
  PROVE  (1..file_size) \ Covered(ps) = CharsOf(Places \ cut) \union (Comments \ Covered(ps))
<1>1. \A i \in Places : start_pos[i] \in Nat /\ start_pos[i] + 1 \in 1..file_size
  BY PositionsRise
<1>2. \A c : c \in CharsOf(Places \ cut) <=>
               c \in CharsOf(Places) /\ c \notin Covered(ps)
  BY DEF CharsOf, CutBy
<1>3. CharsOf(Places) \in SUBSET (1..file_size)
  BY <1>1 DEF CharsOf
<1> QED BY <1>2, <1>3 DEF Comments

\* "Two consecutive hints remove both tokens with all spaces between them": applying the
\* hints for n_toks tokens to the file leaves, of its tokens, those that rm-toks prints
\* for the same index, and of its comments, which rm-toks never prints, what is outside
\* of the cuts. For any file, comments and all.
THEOREM HintsAlwaysAgree == Spec => []HintsAgree
<1>1. EditsInv => HintsAgree
  <2> SUFFICES ASSUME EditsInv, NEW i \in Tokens
               PROVE  Leaves(Apply(HintsFrom(i), file_size),
                             CharsOf(Places \ RmToks(Which(i) - 1))
                                 \union (Comments \ Covered(HintsFrom(i))))
    BY DEF HintsAgree
  <2>1. /\ toks \in Files /\ Len(toks) \in Nat /\ Places = 1..Len(toks)
        /\ file_size \in Nat /\ start_pos \in Layouts(Len(toks), file_size)
    BY FileIs DEF EditsInv
  <2>2. HintsFrom(i) \in Seq(PatchesOf(file_size))
    BY <2>1, HintsFromIs
  <2>3. Leaves(Apply(HintsFrom(i), file_size), (1..file_size) \ Covered(HintsFrom(i)))
    BY <2>1, <2>2, ApplyLeaves
  <2>4. n_toks \in Nat
    BY CommandIs DEF EditsInv
  <2>5. CutBy(HintsFrom(i)) = RmToks(Which(i) - 1)
    BY <2>1, <2>4, HintsCover
  <2>6. (1..file_size) \ Covered(HintsFrom(i)) =
           CharsOf(Places \ RmToks(Which(i) - 1)) \union (Comments \ Covered(HintsFrom(i)))
    BY <2>1, <2>5, CharsOfIs
  <2> QED BY <2>3, <2>6
<1> QED BY <1>1, EditsInvAlways, PTL

-----------------------------------------------------------------------------
\* What clex prints depends on the tokens only.
LEMMA Steady ==
  ASSUME toks' = toks, command' = command, NEW idx
  PROVE  Candidate(idx)' = Candidate(idx) /\ OKs' = OKs
<1>1. n_toks' = n_toks /\ Places' = Places /\ \A i : Space(i)' <=> Space(i)
  BY DEF n_toks, Places, Space
<1>2. \A i : Which(i)' = Which(i)
  BY DEF Which, Space
<1>3. RmToks(idx)' = RmToks(idx)
  BY DEF RmToks, Which, Space, Places, n_toks, TerminatingNewline
<1>4. \A s : Without(s)' = Without(s)
  BY DEF Without, Places
<1>5. TokenCount' = TokenCount
  BY DEF TokenCount, Places, Space
<1>6. Patterns' = Patterns
  BY DEF Patterns, n_toks
<1>7. \A k : ShiftedPattern(k)' = ShiftedPattern(k)
  BY DEF ShiftedPattern, Pattern, Patterns, n_toks
<1>8. RmTokPattern(idx)' = RmTokPattern(idx)
  BY DEF RmTokPattern, Which, Space, Places, n_toks, WindowOf, Patterns, ShiftedPattern, Pattern
<1>9. UnusedName' = UnusedName
  BY DEF UnusedName, Texts, Places
<1>10. FirstPlaces' = FirstPlaces
  BY DEF FirstPlaces, UnusedName, Texts, Places
<1>11. RenameToks(idx)' = RenameToks(idx)
  BY DEF RenameToks, FirstPlaces, UnusedName, Texts, Places
<1>12. CharsUpTo' = CharsUpTo
  BY DEF CharsUpTo, Chars, Strings, Places
<1>13. ShortenString(idx)' = ShortenString(idx)
  BY DEF ShortenString, CharsUpTo, Chars, Strings, Places
<1>14. DeleteString(idx)' = DeleteString(idx)
  BY DEF DeleteString, NonEmpty, Strings, Places
<1>15. command[1]' = command[1] /\ Len(toks)' = Len(toks)
  OBVIOUS
<1>16. Without(RmToks(idx))' = Without(RmToks(idx)) /\ Without(RmTokPattern(idx))' = Without(RmTokPattern(idx))
  BY <1>3, <1>4, <1>8
<1>17. Cardinality(FirstPlaces)' = Cardinality(FirstPlaces) /\ Cardinality(NonEmpty)' = Cardinality(NonEmpty)
       /\ CharsUpTo[Len(toks)]' = CharsUpTo[Len(toks)]
  BY <1>10, <1>12 DEF NonEmpty, Strings, Places
<1>18. Candidate(idx)' = Candidate(idx)
  BY <1>11, <1>13, <1>14, <1>15, <1>16 DEF Candidate
<1>19. OKs' = OKs
  BY <1>5, <1>6, <1>15, <1>17 DEF OKs
<1> QED BY <1>18, <1>19
-----------------------------------------------------------------------------
(* The sweep through the indices *)

\* As long as nothing was interesting, the file is the one to begin with, and the
\* candidates of all indices so far have been tried.
SweepInv ==
  /\ ~accepted => \A k \in 0..(index - 1) : Candidate(k) \in tried
  /\ stopped => index >= OKs /\ command[1] # "hints-toks"

LEMMA SweepInvNext == EditsInv /\ SweepInv /\ [Next]_vars => SweepInv'
<1> SUFFICES ASSUME EditsInv, SweepInv, [Next]_vars PROVE SweepInv'
  OBVIOUS
<1>1. index \in Nat
  BY DEF EditsInv
<1>2. ASSUME toks' = toks, command' = command
      PROVE  OKs' = OKs /\ \A k : Candidate(k)' = Candidate(k)
  BY <1>2, Steady
<1> DEFINE All == \A k \in 0..(index - 1) : Candidate(k) \in tried
<1>3. CASE Accept
  BY <1>3 DEF Accept, SweepInv
<1>4. CASE Reject
  <2>1. /\ toks' = toks /\ command' = command /\ index' = index + 1 /\ accepted' = accepted
        /\ stopped' = stopped /\ ~stopped
        /\ ~accepted => tried' = tried \union {Candidate(index)}
    BY <1>4 DEF Reject, fileVars
  <2>2. ASSUME ~accepted', NEW k \in 0..(index' - 1) PROVE Candidate(k)' \in tried'
    <3>1. k \in 0..(index - 1) \/ k = index
      BY <1>1, <2>1
    <3>2. Candidate(k)' = Candidate(k)
      BY <1>2, <2>1
    <3>3. Candidate(k) \in tried \union {Candidate(index)}
      BY <2>1, <2>2, <3>1 DEF SweepInv
    <3> QED BY <2>1, <2>2, <3>2, <3>3
  <2> QED BY <2>1, <2>2 DEF SweepInv
<1>5. CASE ClexStep /\ Stop
  <2>1. toks' = toks /\ command' = command /\ index' = index /\ accepted' = accepted /\ tried' = tried
        /\ index >= OKs /\ command[1] # "hints-toks"
    BY <1>5 DEF Stop, ClexStep, fileVars
  <2>2. OKs' = OKs /\ \A k : Candidate(k)' = Candidate(k)
    BY <1>2, <2>1
  <2> QED BY <2>1, <2>2 DEF SweepInv
<1>6. CASE UNCHANGED clexVars
  <2>1. toks' = toks /\ command' = command /\ index' = index /\ accepted' = accepted /\ tried' = tried
        /\ stopped' = stopped
    BY <1>6 DEF clexVars, fileVars
  <2>2. OKs' = OKs /\ \A k : Candidate(k)' = Candidate(k)
    BY <1>2, <2>1
  <2> QED BY <2>1, <2>2 DEF SweepInv
<1>7. UNCHANGED vars => UNCHANGED clexVars
  BY DEF vars, clexVars, fileVars
<1> QED BY <1>3, <1>4, <1>5, <1>6, <1>7 DEF Next, AddPatch, ClexStep, ClexNext

LEMMA SweepInvAlways == Spec => [](EditsInv /\ SweepInv)
<1>1. Init => SweepInv
  BY DEF Init, ClexInit, SweepInv
<1> QED BY <1>1, EditsInvInit, EditsInvNext, SweepInvNext, PTL DEF Spec

\* An index that is less than the number of the OKs
HasIndex(outcome) == OKs \in Nat /\ \E k \in Nat : k < OKs /\ Candidate(k) = outcome

LEMMA IndexTried ==
  ASSUME EditsInv, SweepInv, stopped, ~accepted, NEW outcome, HasIndex(outcome)
  PROVE  outcome \in tried
<1>1. PICK k \in Nat : k < OKs /\ Candidate(k) = outcome
  BY DEF HasIndex
<1>2. OKs \in Nat /\ index \in Nat /\ index >= OKs
  BY DEF EditsInv, SweepInv, HasIndex
<1>3. k \in 0..(index - 1)
  BY <1>1, <1>2
<1> QED BY <1>1, <1>3 DEF SweepInv

\* The place that so many others of a set come before
LEMMA RankIs ==
  ASSUME NEW numbers \in SUBSET Int, IsFiniteSet(numbers), NEW i \in numbers
  PROVE  /\ Cardinality({j \in numbers : j < i}) \in Nat
         /\ Cardinality({j \in numbers : j < i}) < Cardinality(numbers)
         /\ Cardinality(numbers) \in Nat
         /\ \A x \in numbers : Cardinality({j \in numbers : j < x}) = Cardinality({j \in numbers : j < i})
                                  => x = i
<1> DEFINE n == Cardinality(numbers)
           order == InOrder(numbers)
           rank(x) == Cardinality({j \in numbers : j < x})
<1>1. n \in Nat /\ \A x \in numbers : \E k \in 1..n : order[k] = x /\ k = rank(x) + 1
  BY InOrderLists
<1>2. \A x \in numbers : rank(x) \in Nat
  <2> SUFFICES ASSUME NEW x \in numbers PROVE rank(x) \in Nat
    OBVIOUS
  <2> DEFINE B == {j \in numbers : j < x}
  <2>1. B \in SUBSET numbers
    OBVIOUS
  <2>2. IsFiniteSet(B)
    <3> HIDE DEF B
    <3> QED BY <2>1, FS_Subset
  <2>3. Cardinality(B) \in Nat
    <3> HIDE DEF B
    <3> QED BY <2>2, FS_CardinalityType
  <2> QED BY <2>3
<1> HIDE DEF n, order, rank
<1>3. \A x \in numbers : rank(x) < n /\ order[rank(x) + 1] = x
  <2> SUFFICES ASSUME NEW x \in numbers PROVE rank(x) < n /\ order[rank(x) + 1] = x
    OBVIOUS
  <2>1. PICK k \in 1..n : order[k] = x /\ k = rank(x) + 1
    BY <1>1
  <2> QED BY <1>1, <1>2, <2>1
<1>4. \A x \in numbers : rank(x) = rank(i) => x = i
  BY <1>3
<1> QED BY <1>1, <1>2, <1>3, <1>4 DEF n, rank

LEMMA FinitePlaces ==
  ASSUME toks \in Files, NEW S \in SUBSET Places
  PROVE  IsFiniteSet(S) /\ S \in SUBSET Int /\ S \in SUBSET Nat
<1>1. Len(toks) \in Nat /\ Places = 1..Len(toks)
  BY FileIs
<1>2. IsFiniteSet(1..Len(toks))
  BY <1>1, FS_Interval
<1>3. S \in SUBSET (1..Len(toks))
  BY <1>1
<1>4. IsFiniteSet(S)
  BY <1>2, <1>3, FS_Subset
<1> QED BY <1>1, <1>3, <1>4

-----------------------------------------------------------------------------
(* What each command is for has an index. *)

LEMMA RmToksIndex ==
  ASSUME EditsInv, command[1] = "rm-toks", NEW i \in Tokens
  PROVE  HasIndex(Without(CutBy(HintsFrom(i))))
<1> DEFINE n == Len(toks)
           k == Which(i) - 1
<1>1. toks \in Files /\ n_toks \in Nat /\ n \in Nat /\ Places = 1..n
  BY FileIs, CommandIs DEF EditsInv
<1>2. i \in 1..n /\ ~Space(i)
  BY <1>1 DEF Tokens
<1>3. /\ Which(0) \in Nat /\ Which(i) \in Nat /\ Which(n) \in Nat
      /\ Which(0) < Which(i) /\ Which(i) <= Which(n) /\ TokenCount = Which(n)
  <2>1. 0 \in 0..n /\ i \in 0..n /\ n \in 0..n /\ 0 < i /\ i <= n
    BY <1>1, <1>2
  <2> HIDE DEF n
  <2> QED BY <1>1, <1>2, <2>1, WhichIs DEF n
<1>4. k \in Nat /\ k < TokenCount /\ TokenCount \in Nat
  BY <1>3
<1>5. CutBy(HintsFrom(i)) = RmToks(k)
  BY <1>1, HintsCover DEF EditsInv
<1>6. Candidate(k) = Without(CutBy(HintsFrom(i))) /\ OKs = TokenCount
  BY <1>5, CandidateIs
<1> QED BY <1>4, <1>6 DEF HasIndex

LEMMA DeleteStringIndex ==
  ASSUME EditsInv, command[1] = "delete-string", NEW i \in NonEmpty
  PROVE  HasIndex([toks EXCEPT ![i].text = <<>>])
<1> DEFINE rank(x) == Cardinality({j \in NonEmpty : j < x})
           k == rank(i)
<1>1. toks \in Files /\ NonEmpty \in SUBSET Places /\ i \in Places
  BY DEF EditsInv, NonEmpty, Strings
<1>2. IsFiniteSet(NonEmpty) /\ NonEmpty \in SUBSET Int
  BY <1>1, FinitePlaces
<1>3. k \in Nat /\ k < Cardinality(NonEmpty) /\ Cardinality(NonEmpty) \in Nat
      /\ \A x \in NonEmpty : rank(x) = k => x = i
  BY <1>2, RankIs
<1>4. DeleteString(k) = [x \in Places |-> IF x \in NonEmpty /\ rank(x) = k
                                          THEN [toks[x] EXCEPT !.text = <<>>] ELSE toks[x]]
  BY DEF DeleteString
<1>5. \A x \in Places : x \in NonEmpty /\ rank(x) = k <=> x = i
  <2> HIDE DEF rank
  <2> QED BY <1>3
<1>6. [toks EXCEPT ![i].text = <<>>] = [x \in Places |-> IF x = i THEN [toks[x] EXCEPT !.text = <<>>]
                                                         ELSE toks[x]]
  BY <1>1, FileIs DEF Places
<1>7. DeleteString(k) = [toks EXCEPT ![i].text = <<>>]
  <2> HIDE DEF k, rank
  <2> QED BY <1>4, <1>5, <1>6
<1> QED BY <1>3, <1>7, CandidateIs DEF HasIndex

LEMMA RenameIndex ==
  ASSUME EditsInv, command[1] = "rename-toks", NEW i \in Places,
         toks[i].kind = "ident", CanGoDown(toks[i].text)
  PROVE  HasIndex(RenamedAt(i))
<1> DEFINE name == toks[i].text
           Same == {j \in Places : toks[j].kind = "ident" /\ toks[j].text = name}
           rank(x) == Cardinality({j \in FirstPlaces : j < x})
<1>0. toks \in Files /\ Len(toks) \in Nat /\ Places = 1..Len(toks)
  BY FileIs DEF EditsInv
<1>1. PICK f \in Same : \A j \in Same : f <= j
  <2>1. Same \in SUBSET Nat /\ i \in Same
    BY <1>0
  <2> HIDE DEF Same
  <2> QED BY <2>1, LeastExists
<1>2. f \in FirstPlaces
  <2>1. f \in Places /\ toks[f].kind = "ident" /\ toks[f].text = name /\ ShouldBeRenamed(toks[f].text, UnusedName)
    BY DEF ShouldBeRenamed, CanGoDown
  <2>2. ASSUME NEW j \in 1..(f - 1) PROVE ~(toks[j].kind = "ident" /\ toks[j].text = toks[f].text)
    <3>1. j \in Places /\ ~(f <= j)
      BY <1>0, <2>1
    <3> QED BY <1>1, <2>1, <3>1
  <2> QED BY <2>1, <2>2 DEF FirstPlaces
<1>3. FirstPlaces \in SUBSET Int /\ IsFiniteSet(FirstPlaces)
  <2>1. FirstPlaces \in SUBSET Places
    BY DEF FirstPlaces
  <2> QED BY <1>0, <2>1, FinitePlaces
<1> DEFINE k == rank(f)
<1>4. k \in Nat /\ k < Cardinality(FirstPlaces) /\ Cardinality(FirstPlaces) \in Nat
      /\ \A x \in FirstPlaces : rank(x) = k => x = f
  BY <1>2, <1>3, RankIs
<1> DEFINE first == CHOOSE x \in FirstPlaces : Cardinality({j \in FirstPlaces : j < x}) = k
<1>5. first = f
  <2>1. first = CHOOSE x \in FirstPlaces : rank(x) = k
    OBVIOUS
  <2> HIDE DEF first, rank
  <2> QED BY <1>2, <1>4, <2>1
<1>6. RenameToks(k) = [x \in Places |-> IF toks[x].kind = "ident" /\ toks[x].text = toks[first].text
                                        THEN [toks[x] EXCEPT !.text = UnusedName] ELSE toks[x]]
  BY DEF RenameToks
<1>7. \A x \in Places : (toks[x].kind = "ident" /\ toks[x].text = name) <=> toks[x] = toks[i]
  BY <1>0, FileIs
<1>8. RenameToks(k) = RenamedAt(i)
  <2>1. toks[first].text = name
    BY <1>1, <1>5
  <2> HIDE DEF first, k, name
  <2> QED BY <1>6, <1>7, <2>1 DEF RenamedAt
<1>9. HasIndex(RenameToks(k))
  <2> HIDE DEF k
  <2> QED BY <1>4, CandidateIs DEF HasIndex
<1> QED BY <1>8, <1>9

\* The characters of the strings up to a place
LEMMA CharsUpToIs ==
  ASSUME toks \in Files
  PROVE  /\ \A i \in 0..Len(toks) : CharsUpTo[i] \in Nat
         /\ \A i \in Places : Chars(i) \in Nat /\ CharsUpTo[i] = CharsUpTo[i - 1] + Chars(i)
         /\ \A i, j \in 0..Len(toks) : i <= j => CharsUpTo[i] <= CharsUpTo[j]
<1> DEFINE n == Len(toks)
           begin == 0
           step == [kx \in (1..n) \X Nat |-> kx[2] + Chars(kx[1])]
           Eq(f) == f = [k \in 0..n |-> IF k = 0 THEN 0 ELSE f[k - 1] + Chars(k)]
           C == CharsUpTo
<1>0. n \in Nat /\ Places = 1..n
  BY FileIs
<1>1. \A k \in 1..n : Chars(k) \in Nat
  <2> SUFFICES ASSUME NEW k \in 1..n PROVE Chars(k) \in Nat
    OBVIOUS
  <2>1. toks[k].text \in Seq(Nat)
    BY <1>0, FileIs
  <2>2. Len(toks[k].text) \in Nat
    BY <2>1
  <2> QED BY <2>2 DEF Chars
<1>2. IsTurn(step, n, Nat)
  <2> HIDE DEF n
  <2> QED BY <1>0, <1>1 DEF IsTurn
<1>3. \A k \in 1..n, x \in Nat : step[<<k, x>>] = x + Chars(k)
  <2> HIDE DEF n
  <2> QED OBVIOUS
<1>4. PICK f : Follows(f, begin, n, step, Nat)
  <2>1. begin \in Nat
    OBVIOUS
  <2> HIDE DEF step, n, begin
  <2> QED BY <1>0, <1>2, <2>1, Recursion
<1> HIDE DEF step, n
<1>5. \A k \in 0..n : f[k] = IF k = 0 THEN 0 ELSE f[k - 1] + Chars(k)
  <2>1. \A k \in 1..n : f[k - 1] \in Nat
    BY <1>0, <1>4 DEF Follows
  <2>2. \A k \in 1..n : f[k] = f[k - 1] + Chars(k)
    BY <1>3, <1>4, <2>1 DEF Follows
  <2> QED BY <1>0, <1>4, <2>2 DEF Follows
<1>6. Eq(f)
  <2>1. f = [k \in 0..n |-> f[k]]
    BY <1>4 DEF Follows
  <2> QED BY <1>0, <1>5, <2>1
<1>7. C = CHOOSE g : Eq(g)
  BY DEF CharsUpTo, n
<1>8. Eq(C)
  <2> HIDE DEF Eq, C
  <2> QED BY <1>6, <1>7
<1> HIDE DEF C
<1>9. C[0] = 0 /\ \A k \in 1..n : C[k] = C[k - 1] + Chars(k)
  BY <1>0, <1>8
<1> DEFINE S == {k \in 0..n : C[k] \in Nat}
<1>10. \A k \in 0..n : k \in S
  <2>1. 0 \in S
    BY <1>0, <1>9
  <2>2. \A k \in 1..n : k - 1 \in S => k \in S
    BY <1>0, <1>1, <1>9
  <2> HIDE DEF S
  <2> QED BY <1>0, <2>1, <2>2, Turns
<1>11. ASSUME NEW i \in 0..n
       PROVE  \A j \in 0..n : i <= j => C[i] <= C[j]
  <2> DEFINE U == {j \in 0..n : i <= j => C[i] <= C[j]}
  <2>1. 0 \in U
    <3>1. C[i] \in Nat
      BY <1>10
    <3>2. i <= 0 => i = 0
      BY <1>0
    <3> QED BY <1>0, <3>1, <3>2
  <2>2. ASSUME NEW j \in 1..n, j - 1 \in U PROVE j \in U
    <3>1. j \in 0..n /\ j - 1 \in 0..n
      BY <1>0
    <3>2. C[i] \in Nat /\ C[j - 1] \in Nat /\ C[j] = C[j - 1] + Chars(j) /\ Chars(j) \in Nat
      BY <1>1, <1>9, <1>10, <3>1
    <3>3. i <= j - 1 => C[i] <= C[j - 1]
      BY <2>2
    <3>4. i <= j => i <= j - 1 \/ i = j
      BY <3>1
    <3>5. i <= j => C[i] <= C[j]
      BY <3>2, <3>3, <3>4
    <3> QED BY <3>1, <3>5
  <2>3. \A j \in 0..n : j \in U
    <3> HIDE DEF U
    <3> QED BY <1>0, <2>1, <2>2, Turns
  <2> QED BY <2>3
<1> QED BY <1>0, <1>1, <1>9, <1>10, <1>11 DEF n, C

LEMMA ShortenStringIndex ==
  ASSUME EditsInv, command[1] = "shorten-string", NEW i \in Strings, NEW k \in DOMAIN toks[i].text
  PROVE  HasIndex([toks EXCEPT ![i].text = RemoveAt(@, k)])
<1> DEFINE n == Len(toks)
           C == CharsUpTo
           idx == (C[i - 1] + k) - 1
           at(x) == (idx - C[x - 1]) + 1
<1>1. toks \in Files /\ n \in Nat /\ Places = 1..n /\ i \in Places /\ i \in 1..n
  BY FileIs DEF EditsInv, Strings
<1>2. /\ \A x \in 0..n : C[x] \in Nat
      /\ \A x \in 1..n : Chars(x) \in Nat /\ C[x] = C[x - 1] + Chars(x)
      /\ \A x, y \in 0..n : x <= y => C[x] <= C[y]
  BY <1>1, CharsUpToIs
<1>3. \A x \in Strings : x \in 1..n /\ DOMAIN toks[x].text = 1..Chars(x)
  <2> SUFFICES ASSUME NEW x \in Strings PROVE x \in 1..n /\ DOMAIN toks[x].text = 1..Chars(x)
    OBVIOUS
  <2>1. x \in 1..n /\ toks[x].text \in Seq(Nat)
    BY <1>1, FileIs DEF Strings
  <2>2. Chars(x) = Len(toks[x].text)
    BY DEF Chars
  <2> QED BY <2>1, <2>2
<1>4. k \in 1..Chars(i)
  BY <1>3
<1> HIDE DEF n, C
<1>5. /\ i - 1 \in 0..n /\ i \in 0..n /\ n \in 0..n
      /\ C[i - 1] \in Nat /\ Chars(i) \in Nat /\ C[i] = C[i - 1] + Chars(i) /\ C[i] <= C[n] /\ C[n] \in Nat
  <2>1. i - 1 \in 0..n /\ i \in 0..n /\ n \in 0..n /\ i <= n
    BY <1>1
  <2> QED BY <1>1, <1>2, <2>1
<1>6. idx \in Nat /\ idx < C[n]
  BY <1>4, <1>5
<1>7. at(i) = k
  BY <1>4, <1>5
<1>8. ASSUME NEW x \in Strings, at(x) \in 1..Chars(x) PROVE x = i
  <2>1. /\ x \in 1..n /\ x - 1 \in 0..n /\ x \in 0..n
        /\ C[x - 1] \in Nat /\ C[x] \in Nat /\ Chars(x) \in Nat /\ C[x] = C[x - 1] + Chars(x)
    <3>1. x \in 1..n
      BY <1>3
    <3>2. x - 1 \in 0..n /\ x \in 0..n
      BY <1>1, <3>1
    <3> QED BY <1>2, <3>1, <3>2
  <2>2. CASE x < i
    <3>1. x <= i - 1
      BY <1>1, <2>1, <2>2
    <3>2. C[x] <= C[i - 1]
      BY <1>2, <1>5, <2>1, <3>1
    <3> QED BY <1>4, <1>5, <1>8, <2>1, <3>2
  <2>3. CASE i < x
    <3>1. i <= x - 1
      BY <1>1, <2>1, <2>3
    <3>2. C[i] <= C[x - 1]
      BY <1>2, <1>5, <2>1, <3>1
    <3> QED BY <1>4, <1>5, <1>8, <2>1, <3>2
  <2> QED BY <1>1, <2>1, <2>2, <2>3
<1>9. ShortenString(idx) =
        [x \in Places |-> IF x \in Strings /\ at(x) \in DOMAIN toks[x].text
                          THEN [toks[x] EXCEPT !.text = RemoveAt(@, at(x))] ELSE toks[x]]
  <2> HIDE DEF idx
  <2>1. \A x \in Strings : at(x) = idx - C[x - 1] + 1
    <3> SUFFICES ASSUME NEW x \in Strings PROVE at(x) = idx - C[x - 1] + 1
      OBVIOUS
    <3>1. x \in 1..n
      BY <1>3
    <3>2. x - 1 \in 0..n
      BY <1>1, <3>1
    <3>3. C[x - 1] \in Nat /\ idx \in Nat
      BY <1>2, <1>6, <3>2
    <3> QED BY <3>3
  <2> HIDE DEF at
  <2> QED BY <2>1 DEF ShortenString, C
<1>10. \A x \in Places : x \in Strings /\ at(x) \in DOMAIN toks[x].text <=> x = i
  <2> HIDE DEF at, idx
  <2> QED BY <1>3, <1>4, <1>7, <1>8
<1>11. [toks EXCEPT ![i].text = RemoveAt(@, k)] =
         [x \in Places |-> IF x = i THEN [toks[x] EXCEPT !.text = RemoveAt(@, k)] ELSE toks[x]]
  BY <1>1, FileIs DEF Places
<1>12. ShortenString(idx) = [toks EXCEPT ![i].text = RemoveAt(@, k)]
  <2> HIDE DEF at, idx
  <2> QED BY <1>7, <1>9, <1>10, <1>11
<1>13. Candidate(idx) = [toks EXCEPT ![i].text = RemoveAt(@, k)] /\ OKs = C[n]
  <2> HIDE DEF idx
  <2> QED BY <1>12, CandidateIs DEF C, n
<1> HIDE DEF idx
<1> QED BY <1>5, <1>6, <1>13 DEF HasIndex
-----------------------------------------------------------------------------
(* Patterns *)

\* Halving n times
Halves(h, p, n) ==
  /\ h \in [0..n -> Nat]
  /\ h[0] = p
  /\ \A k \in 1..n : h[k] = h[k - 1] \div 2

LEMMA HalvesAgree ==
  ASSUME NEW n \in Nat, NEW p, NEW h, NEW g, Halves(h, p, n), Halves(g, p, n)
  PROVE  \A k \in 0..n : h[k] = g[k]
<1> DEFINE S == {k \in 0..n : h[k] = g[k]}
<1>1. 0 \in S
  BY DEF Halves
<1>2. \A k \in 1..n : k - 1 \in S => k \in S
  BY DEF Halves
<1> HIDE DEF S
<1>3. \A k \in 0..n : k \in S
  BY <1>1, <1>2, Turns
<1> QED BY <1>3 DEF S

\* 1, 2, 4, ...
Power(n) ==
  LET power[k \in 0..n] == IF k = 0 THEN 1 ELSE 2 * power[k - 1] IN power

LEMMA PowerIs ==
  ASSUME NEW n \in Nat
  PROVE  /\ Power(n)[0] = 1
         /\ \A k \in 1..n : Power(n)[k] = 2 * Power(n)[k - 1]
         /\ \A k \in 0..n : Power(n)[k] \in Nat
<1> DEFINE begin == 1
           step == [kx \in (1..n) \X Nat |-> 2 * kx[2]]
           Eq(f) == f = [k \in 0..n |-> IF k = 0 THEN 1 ELSE 2 * f[k - 1]]
           P == Power(n)
<1>1. IsTurn(step, n, Nat)
  BY DEF IsTurn
<1>2. \A k \in 1..n, x \in Nat : step[<<k, x>>] = 2 * x
  OBVIOUS
<1>3. PICK f : Follows(f, begin, n, step, Nat)
  <2>1. begin \in Nat
    OBVIOUS
  <2> HIDE DEF step, begin
  <2> QED BY <1>1, <2>1, Recursion
<1> HIDE DEF step
<1>4. \A k \in 0..n : f[k] = IF k = 0 THEN 1 ELSE 2 * f[k - 1]
  <2>1. \A k \in 1..n : f[k - 1] \in Nat
    BY <1>3 DEF Follows
  <2>2. \A k \in 1..n : f[k] = 2 * f[k - 1]
    BY <1>2, <1>3, <2>1 DEF Follows
  <2> QED BY <1>3, <2>2 DEF Follows
<1>5. Eq(f)
  <2>1. f = [k \in 0..n |-> f[k]]
    BY <1>3 DEF Follows
  <2> QED BY <1>4, <2>1
<1>6. P = CHOOSE g : Eq(g)
  BY DEF Power
<1>7. Eq(P)
  <2> HIDE DEF Eq, P
  <2> QED BY <1>5, <1>6
<1> HIDE DEF P
<1>8. P[0] = 1 /\ \A k \in 1..n : P[k] = 2 * P[k - 1]
  BY <1>7
<1> DEFINE S == {k \in 0..n : P[k] \in Nat}
<1>9. \A k \in 0..n : k \in S
  <2>1. 0 \in S
    BY <1>8
  <2>2. \A k \in 1..n : k - 1 \in S => k \in S
    BY <1>8
  <2> HIDE DEF S
  <2> QED BY <2>1, <2>2, Turns
<1> QED BY <1>8, <1>9 DEF P

\* A pattern of n + 1 bits exists for any choice of bits.
LEMMA BitsExist ==
  ASSUME NEW n \in Nat
  PROVE  \A m \in 0..n : \A b \in [0..m -> {0, 1}] :
            \E p \in Nat : \E h :
                /\ p < 2 * Power(n)[m] /\ Halves(h, p, m)
                /\ \A t \in 0..m : h[t] % 2 = b[t]
<1> DEFINE P == Power(n)
           Made(m, b) == \E p \in Nat : \E h : /\ p < 2 * P[m] /\ Halves(h, p, m)
                                               /\ \A t \in 0..m : h[t] % 2 = b[t]
           S == {m \in 0..n : \A b \in [0..m -> {0, 1}] : Made(m, b)}
<1>1. P[0] = 1 /\ (\A k \in 1..n : P[k] = 2 * P[k - 1]) /\ \A k \in 0..n : P[k] \in Nat
  BY PowerIs
<1> HIDE DEF P
<1>2. 0 \in S
  <2> SUFFICES ASSUME NEW b \in [0..0 -> {0, 1}] PROVE Made(0, b)
    OBVIOUS
  <2> DEFINE h == [t \in 0..0 |-> b[0]]
             p == b[0]
  <2>1. p \in Nat /\ p < 2 * P[0]
    BY <1>1
  <2>2. Halves(h, p, 0)
    BY DEF Halves
  <2>3. \A t \in 0..0 : h[t] % 2 = b[t]
    <3>1. b[0] = 0 \/ b[0] = 1
      OBVIOUS
    <3>2. \A t \in 0..0 : t = 0 /\ h[t] = b[0]
      OBVIOUS
    <3> HIDE DEF h
    <3> QED BY <3>1, <3>2
  <2> HIDE DEF h, p
  <2> QED BY <2>1, <2>2, <2>3
<1>3. ASSUME NEW m \in 1..n, m - 1 \in S PROVE m \in S
  <2> SUFFICES ASSUME NEW b \in [0..m -> {0, 1}] PROVE Made(m, b)
    OBVIOUS
  <2> DEFINE i == m - 1
             c == [t \in 0..i |-> b[t + 1]]
  <2>0. i \in Nat /\ m = i + 1 /\ i \in 0..n /\ m \in 0..n
    OBVIOUS
  <2>1. c \in [0..i -> {0, 1}]
    OBVIOUS
  <2> HIDE DEF i, c
  <2> DEFINE Shows(q, g) == q < 2 * P[i] /\ Halves(g, q, i) /\ \A t \in 0..i : g[t] % 2 = c[t]
  <2>q. PICK q \in Nat : \E g : Shows(q, g)
    <3>1. Made(i, c)
      BY <1>3, <2>1 DEF i
    <3> QED BY <3>1
  <2>2. PICK g : Shows(q, g)
    BY <2>q
  <2>3. /\ g \in [0..i -> Nat] /\ g[0] = q /\ \A k \in 1..i : g[k] = g[k - 1] \div 2
    BY <2>2 DEF Halves
  <2> DEFINE p == b[0] + 2 * q
             h == [t \in 0..m |-> IF t = 0 THEN p ELSE g[t - 1]]
  <2>4. b[0] \in {0, 1}
    BY <2>0
  <2>5. p \in Nat /\ p < 2 * P[m] /\ p \div 2 = q /\ p % 2 = b[0]
    <3>1. P[m] = 2 * P[i] /\ P[i] \in Nat
      BY <1>1, <2>0 DEF i
    <3>2. CASE b[0] = 0
      BY <2>2, <3>1, <3>2
    <3>3. CASE b[0] = 1
      BY <2>2, <3>1, <3>3
    <3> QED BY <2>4, <3>2, <3>3
  <2> HIDE DEF p
  <2>6. h \in [0..m -> Nat]
    BY <2>0, <2>3, <2>5
  <2>7. \A k \in 0..m : h[k] = IF k = 0 THEN p ELSE g[k - 1]
    OBVIOUS
  <2> HIDE DEF h
  <2>8. ASSUME NEW k \in 1..m PROVE h[k] = h[k - 1] \div 2 /\ h[k] % 2 = b[k]
    <3>1. k - 1 \in 0..i /\ k \in 0..m /\ k - 1 \in 0..m /\ k # 0
      BY <2>0
    <3>2. h[k] = g[k - 1]
      BY <2>7, <3>1
    <3>3. h[k] % 2 = b[k]
      <4>1. c[k - 1] = b[k]
        BY <3>1 DEF c
      <4> QED BY <2>2, <3>1, <3>2, <4>1
    <3>4. h[k] = h[k - 1] \div 2
      <4>1. CASE k = 1
        BY <2>3, <2>5, <2>7, <3>1, <3>2, <4>1
      <4>2. CASE k # 1
        <5>1. k - 1 \in 1..i /\ h[k - 1] = g[k - 1 - 1]
          BY <2>0, <2>7, <3>1, <4>2
        <5> QED BY <2>3, <3>2, <5>1
      <4> QED BY <4>1, <4>2
    <3> QED BY <3>3, <3>4
  <2>9. h[0] = p
    BY <2>0, <2>7
  <2>10. Halves(h, p, m)
    BY <2>6, <2>8, <2>9 DEF Halves
  <2>11. \A t \in 0..m : h[t] % 2 = b[t]
    <3> SUFFICES ASSUME NEW t \in 0..m PROVE h[t] % 2 = b[t]
      OBVIOUS
    <3>1. t = 0 \/ t \in 1..m
      BY <2>0
    <3> QED BY <2>5, <2>8, <2>9, <3>1
  <2> QED BY <2>5, <2>10, <2>11
<1> HIDE DEF S
<1>4. \A m \in 0..n : m \in S
  BY <1>2, <1>3, Turns
<1> QED BY <1>4 DEF S, P
PatternCounts == {2, 4, 8, 16, 32, 64, 128}

\* As many patterns as the assertion on n_toks in main allows
LEMMA PatternsIs ==
  ASSUME n_toks \in 2..8
  PROVE  /\ Patterns \in PatternCounts
         /\ Patterns = Power(n_toks - 1)[n_toks - 1]
<1> DEFINE n == n_toks - 1
           P == Power(n)
<1>1. n \in 1..7
  OBVIOUS
<1>2. Patterns = P[n]
  BY DEF Patterns, Power
<1> HIDE DEF n
<1>3. P[0] = 1 /\ \A k \in 1..n : P[k] = 2 * P[k - 1]
  BY <1>1, PowerIs
<1> HIDE DEF P
<1>4. P[1] = 2
  <2>1. 1 \in 1..n
    BY <1>1
  <2>2. P[1] = 2 * P[1 - 1]
    BY <1>3, <2>1
  <2> QED BY <1>3, <2>2
<1>5. 2 <= n => P[2] = 4
  <2> SUFFICES ASSUME 2 <= n PROVE P[2] = 4
    OBVIOUS
  <2>1. P[2] = 2 * P[2 - 1]
    BY <1>1, <1>3
  <2> QED BY <1>4, <2>1
<1>6. 3 <= n => P[3] = 8
  <2> SUFFICES ASSUME 3 <= n PROVE P[3] = 8
    OBVIOUS
  <2>1. P[3] = 2 * P[3 - 1]
    BY <1>1, <1>3
  <2> QED BY <1>1, <1>5, <2>1
<1>7. 4 <= n => P[4] = 16
  <2> SUFFICES ASSUME 4 <= n PROVE P[4] = 16
    OBVIOUS
  <2>1. P[4] = 2 * P[4 - 1]
    BY <1>1, <1>3
  <2> QED BY <1>1, <1>6, <2>1
<1>8. 5 <= n => P[5] = 32
  <2> SUFFICES ASSUME 5 <= n PROVE P[5] = 32
    OBVIOUS
  <2>1. P[5] = 2 * P[5 - 1]
    BY <1>1, <1>3
  <2> QED BY <1>1, <1>7, <2>1
<1>9. 6 <= n => P[6] = 64
  <2> SUFFICES ASSUME 6 <= n PROVE P[6] = 64
    OBVIOUS
  <2>1. P[6] = 2 * P[6 - 1]
    BY <1>1, <1>3
  <2> QED BY <1>1, <1>8, <2>1
<1>10. 7 <= n => P[7] = 128
  <2> SUFFICES ASSUME 7 <= n PROVE P[7] = 128
    OBVIOUS
  <2>1. P[7] = 2 * P[7 - 1]
    BY <1>1, <1>3
  <2> QED BY <1>1, <1>9, <2>1
<1>11. n \in {1, 2, 3, 4, 5, 6, 7}
  BY <1>1
<1>12. P[n] \in {2, 4, 8, 16, 32, 64, 128}
  BY <1>4, <1>5, <1>6, <1>7, <1>8, <1>9, <1>10, <1>11
<1> QED BY <1>2, <1>12 DEF n, P, PatternCounts

\* An index is a window and a pattern.
LEMMA IndexSplits ==
  ASSUME NEW c \in PatternCounts, NEW w \in Nat, NEW v \in Nat, v < c,
         NEW total \in Nat, w < total
  PROVE  /\ (w * c + v) % c = v /\ (w * c + v) \div c = w
         /\ w * c + v \in Nat /\ w * c + v < total * c /\ total * c \in Nat
<1>1. CASE c = 2
  BY <1>1
<1>2. CASE c = 4
  BY <1>2
<1>3. CASE c = 8
  BY <1>3
<1>4. CASE c = 16
  BY <1>4
<1>5. CASE c = 32
  BY <1>5
<1>6. CASE c = 64
  BY <1>6
<1>7. CASE c = 128
  BY <1>7
<1> QED BY <1>1, <1>2, <1>3, <1>4, <1>5, <1>6, <1>7 DEF PatternCounts

LEMMA ShiftedPatternIs ==
  ASSUME n_toks \in 2..8, NEW idx \in Nat
  PROVE  Halves(ShiftedPattern(idx), Pattern(idx), n_toks - 1)
<1> DEFINE n == n_toks - 1
           begin == Pattern(idx)
           step == [kx \in (1..n) \X Nat |-> kx[2] \div 2]
           Eq(f) == f = [k \in 0..n |-> IF k = 0 THEN begin ELSE f[k - 1] \div 2]
<1>0. n \in Nat /\ begin \in Nat
  <2>1. Patterns \in Nat \ {0}
    BY PatternsIs DEF PatternCounts
  <2>2. idx % Patterns \in Nat
    BY <2>1
  <2> QED BY <2>2 DEF Pattern
<1> HIDE DEF begin, n
<1>1. IsTurn(step, n, Nat)
  BY DEF IsTurn
<1>2. \A k \in 1..n, x \in Nat : step[<<k, x>>] = x \div 2
  OBVIOUS
<1> HIDE DEF step
<1>3. PICK f : Follows(f, begin, n, step, Nat)
  BY <1>0, <1>1, Recursion
<1>4. \A k \in 0..n : f[k] = IF k = 0 THEN begin ELSE f[k - 1] \div 2
  <2>1. \A k \in 1..n : f[k - 1] \in Nat
    BY <1>0, <1>3 DEF Follows
  <2>2. \A k \in 1..n : f[k] = f[k - 1] \div 2
    BY <1>2, <1>3, <2>1 DEF Follows
  <2> QED BY <1>0, <1>3, <2>2 DEF Follows
<1>5. Eq(f)
  <2>1. f = [k \in 0..n |-> f[k]]
    BY <1>3 DEF Follows
  <2> QED BY <1>0, <1>4, <2>1
<1>6. ShiftedPattern(idx) = CHOOSE g : Eq(g)
  BY DEF ShiftedPattern, n, begin
<1>7. Eq(ShiftedPattern(idx))
  <2> HIDE DEF Eq
  <2> QED BY <1>5, <1>6
<1> DEFINE H == ShiftedPattern(idx)
<1> HIDE DEF H
<1>8. H[0] = begin /\ (\A k \in 1..n : H[k] = H[k - 1] \div 2) /\ H = [k \in 0..n |-> H[k]]
  BY <1>0, <1>7 DEF H
<1> DEFINE S == {k \in 0..n : H[k] \in Nat}
<1>9. \A k \in 0..n : k \in S
  <2>1. 0 \in S
    BY <1>0, <1>8
  <2>2. \A k \in 1..n : k - 1 \in S => k \in S
    BY <1>0, <1>8
  <2> HIDE DEF S
  <2> QED BY <1>0, <2>1, <2>2, Turns
<1>10. H \in [0..n -> Nat]
  BY <1>8, <1>9
<1>11. Halves(H, begin, n)
  BY <1>8, <1>10 DEF Halves
<1> QED BY <1>11 DEF H, begin, n

LEMMA RmTokPatternIndex ==
  ASSUME EditsInv, command[1] = "rm-tok-pattern",
         NEW cut \in SUBSET Tokens, cut # {}, \A i, j \in cut : Which(i) - Which(j) < n_toks
  PROVE  HasIndex(Without(cut))
<1> DEFINE size == Len(toks)
           n == n_toks - 1
<1>1. toks \in Files /\ size \in Nat /\ Places = 1..size /\ n_toks \in 2..8 /\ n \in Nat /\ n >= 1
  BY FileIs, CommandIs DEF EditsInv
<1>2. \A i \in Tokens : /\ i \in 1..size /\ i \in Places /\ ~Space(i)
                        /\ Which(i) \in Nat /\ 1 <= Which(i) /\ Which(i) <= TokenCount
  <2> SUFFICES ASSUME NEW i \in Tokens
               PROVE  /\ i \in 1..size /\ i \in Places /\ ~Space(i)
                      /\ Which(i) \in Nat /\ 1 <= Which(i) /\ Which(i) <= TokenCount
    OBVIOUS
  <2>1. i \in 1..size /\ i \in Places /\ ~Space(i)
    BY <1>1 DEF Tokens
  <2>2. 0 \in 0..size /\ i \in 0..size /\ size \in 0..size /\ 0 < i /\ i <= size
    BY <1>1, <2>1
  <2> HIDE DEF size
  <2>3. Which(0) \in Nat /\ Which(i) \in Nat /\ Which(0) < Which(i) /\ Which(i) <= Which(size)
        /\ TokenCount = Which(size)
    BY <1>1, <2>1, <2>2, WhichIs DEF size
  <2> QED BY <2>1, <2>3
<1>3. \A i, j \in Tokens : /\ i < j => Which(i) < Which(j)
                           /\ Which(i) = Which(j) => i = j
  <2> SUFFICES ASSUME NEW i \in Tokens, NEW j \in Tokens, i < j PROVE Which(i) < Which(j)
    BY <1>2
  <2>1. i \in 0..size /\ j \in 0..size /\ ~Space(j)
    BY <1>2
  <2> HIDE DEF size
  <2> QED BY <1>1, <2>1, WhichIs DEF size
<1>4. TokenCount \in Nat
  BY <1>1, WhichIs
<1> HIDE DEF size
<1>5. PICK first \in cut : \A i \in cut : first <= i
  <2>1. cut \in SUBSET Nat
    BY <1>1, <1>2
  <2> QED BY <2>1, LeastExists
<1> DEFINE w == Which(first) - 1
           turn(i) == (Which(i) - 1) - w
           bit == [t \in 0..n |-> IF \E i \in cut : turn(i) = t THEN 1 ELSE 0]
<1>6. first \in Tokens /\ w \in Nat /\ w < TokenCount
  BY <1>2, <1>4
<1>7. \A i \in cut : turn(i) \in 0..n
  <2> SUFFICES ASSUME NEW i \in cut PROVE turn(i) \in 0..n
    OBVIOUS
  <2>1. Which(i) \in Nat /\ Which(first) \in Nat /\ i \in Tokens
    BY <1>2, <1>6
  <2>2. Which(first) <= Which(i)
    <3>1. first = i \/ first < i
      BY <1>2, <1>5, <1>6, <2>1
    <3> QED BY <1>3, <1>6, <2>1, <3>1
  <2>3. Which(i) - Which(first) < n_toks
    OBVIOUS
  <2> QED BY <1>1, <2>1, <2>2, <2>3
<1>8. \A i \in Tokens : (\E j \in cut : turn(j) = turn(i)) => i \in cut
  <2> SUFFICES ASSUME NEW i \in Tokens, NEW j \in cut, turn(j) = turn(i) PROVE i \in cut
    OBVIOUS
  <2>1. Which(i) = Which(j)
    BY <1>2, <1>6
  <2> QED BY <1>3, <2>1
<1>9. bit \in [0..n -> {0, 1}] /\ bit[0] = 1
  <2>1. turn(first) = 0 /\ 0 \in 0..n
    BY <1>1, <1>2, <1>6
  <2> HIDE DEF turn, n
  <2> QED BY <2>1
<1>10. \A i \in Tokens : turn(i) \in 0..n => (bit[turn(i)] = 1 <=> i \in cut)
  <2> HIDE DEF turn, n
  <2> QED BY <1>8
<1> HIDE DEF n, turn, bit, w
<1> DEFINE Shows(p, h) == /\ p < 2 * Power(n)[n] /\ Halves(h, p, n)
                          /\ \A t \in 0..n : h[t] % 2 = bit[t]
<1>p. PICK p \in Nat : \E h : Shows(p, h)
  <2>1. n \in 0..n
    BY <1>1
  <2> QED BY <1>1, <1>9, <2>1, BitsExist
<1>11. PICK h : Shows(p, h)
  BY <1>p
<1> DEFINE v == p \div 2
           idx == w * Patterns + v
<1>12. Patterns \in PatternCounts /\ Patterns = Power(n)[n]
  BY <1>1, PatternsIs DEF n
<1>13. p = 1 + 2 * v /\ v \in Nat /\ v < Patterns
  <2>1. h[0] = p /\ 0 \in 0..n
    BY <1>1, <1>11 DEF Halves
  <2>2. p % 2 = 1
    BY <1>9, <1>11, <2>1
  <2>3. p < 2 * Patterns /\ Patterns \in Nat
    BY <1>11, <1>12 DEF PatternCounts
  <2> QED BY <2>2, <2>3
<1> HIDE DEF v
<1>14. /\ idx % Patterns = v /\ idx \div Patterns = w
       /\ idx \in Nat /\ idx < TokenCount * Patterns /\ TokenCount * Patterns \in Nat
  <2> DEFINE c == Patterns
             total == TokenCount
  <2>1. c \in PatternCounts /\ total \in Nat /\ w < total /\ v < c
    BY <1>4, <1>6, <1>12, <1>13
  <2> HIDE DEF c, total
  <2>2. /\ (w * c + v) % c = v /\ (w * c + v) \div c = w
        /\ w * c + v \in Nat /\ w * c + v < total * c /\ total * c \in Nat
    BY <1>6, <1>13, <2>1, IndexSplits, Zenon
  <2> QED BY <2>2, Zenon DEF c, total
<1> HIDE DEF idx
<1>15. Pattern(idx) = p /\ WindowOf(idx) = w
  BY <1>13, <1>14 DEF Pattern, WindowOf
<1>16. \A t \in 0..n : ShiftedPattern(idx)[t] % 2 = bit[t]
  <2>1. Halves(ShiftedPattern(idx), p, n)
    BY <1>1, <1>14, <1>15, ShiftedPatternIs DEF n
  <2>2. \A t \in 0..n : ShiftedPattern(idx)[t] = h[t]
    BY <1>1, <1>11, <2>1, HalvesAgree
  <2> QED BY <1>11, <2>2
<1>17. RmTokPattern(idx) = cut
  <2>1. \A i : i \in RmTokPattern(idx) <=>
                 i \in Tokens /\ turn(i) \in 0..n /\ ShiftedPattern(idx)[turn(i)] % 2 = 1
    BY <1>15 DEF RmTokPattern, Tokens, turn, n
  <2>2. \A i : i \in RmTokPattern(idx) <=> i \in Tokens /\ turn(i) \in 0..n /\ bit[turn(i)] = 1
    BY <1>16, <2>1
  <2> QED BY <1>7, <1>10, <2>2
<1>18. Candidate(idx) = Without(cut) /\ OKs = TokenCount * Patterns
  BY <1>17, CandidateIs
<1> QED BY <1>14, <1>18 DEF HasIndex

\* A sweep in which nothing is interesting has tried all that its command is for: no
\* index is skipped, and every choice of tokens in a window, every run of tokens, every
\* string and every character of one has one; for rename-toks every name that is not of
\* lowercase letters only, and every other that is not shorter than the unused name and
\* comes after it, has been renamed in all its places.
THEOREM SweepAlwaysComplete == Spec => []SweepIsComplete
<1>1. EditsInv /\ SweepInv => SweepIsComplete
  <2> SUFFICES ASSUME EditsInv, SweepInv, stopped, ~accepted
               PROVE  SweepIsComplete
    BY DEF SweepIsComplete
  <2>1. CASE command[1] = "rm-tok-pattern"
    <3>1. \A cut \in SUBSET Tokens :
             (cut # {} /\ \A i, j \in cut : Which(i) - Which(j) < n_toks) => Without(cut) \in tried
      BY <2>1, RmTokPatternIndex, IndexTried
    <3> QED BY <2>1, <3>1 DEF SweepIsComplete
  <2>2. CASE command[1] = "rm-toks"
    <3>1. \A i \in Tokens : Without(CutBy(HintsFrom(i))) \in tried
      BY <2>2, RmToksIndex, IndexTried
    <3> QED BY <2>2, <3>1 DEF SweepIsComplete
  <2>3. CASE command[1] = "delete-string"
    <3>1. \A i \in NonEmpty : [toks EXCEPT ![i].text = <<>>] \in tried
      BY <2>3, DeleteStringIndex, IndexTried
    <3> QED BY <2>3, <3>1 DEF SweepIsComplete
  <2>4. CASE command[1] = "shorten-string"
    <3>1. \A i \in Strings : \A k \in DOMAIN toks[i].text :
             [toks EXCEPT ![i].text = RemoveAt(@, k)] \in tried
      BY <2>4, ShortenStringIndex, IndexTried
    <3> QED BY <2>4, <3>1 DEF SweepIsComplete
  <2>5. CASE command[1] = "rename-toks"
    <3>1. \A i \in Places : (toks[i].kind = "ident" /\ CanGoDown(toks[i].text))
             => RenamedAt(i) \in tried
      BY <2>5, RenameIndex, IndexTried
    <3> QED BY <2>5, <3>1 DEF SweepIsComplete
  <2>6. command[1] # "hints-toks"
    BY DEF SweepInv
  <2> QED BY <2>1, <2>2, <2>3, <2>4, <2>5, <2>6, CommandIs DEF EditsInv
<1> QED BY <1>1, SweepInvAlways, PTL
=============================================================================
