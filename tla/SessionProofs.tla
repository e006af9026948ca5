--------------------------- MODULE SessionProofs ---------------------------
(***************************************************************************)
(* What the cache of results holds, and which directories are on the disk   *)
(* for it, in every reduction.                                              *)
(***************************************************************************)
EXTENDS Session, FiniteSetTheorems, TLAPS

-----------------------------------------------------------------------------
(* Where the program is *)

LEMMA GroupIsOne ==
  ASSUME PlaceInv, pc \in {"files", "run", "add"}
  PROVE  Group \in Groups /\ Key(Group) \in Keys
<1>1. category \in DOMAIN Categories /\ call \in DOMAIN CallsOf(Now)
  BY DEF PlaceInv
<1> QED
  BY <1>1 DEF Group, Groups, Now, Keys

\* The key of a group says what its passes are called.
LEMMA KeyNames ==
  ASSUME NEW g \in Groups
  PROVE  Named(g, Key(g))
BY DEF Named, Key

LEMMA CurrentIsOne ==
  ASSUME PlaceInv, todo # <<>>
  PROVE  Current \in TestCases /\ file[Current] \in Contents /\ Tail(todo) \in Seq(TestCases)
BY DEF PlaceInv, Current

LEMMA InitPlace == Init => PlaceInv
<1> SUFFICES ASSUME Init PROVE PlaceInv
  OBVIOUS
<1>1. file \in [TestCases -> Contents]
  BY SessionAssumption DEF Init
<1>2. start \in Contents
  BY <1>1 DEF Init
<1>3. todo \in Seq(TestCases) /\ pc = "category"
  BY DEF Init
<1> QED
  BY <1>1, <1>2, <1>3 DEF PlaceInv

\* What a hit puts in place is a content.
LEMMA HitIsContent ==
  ASSUME CacheInv, NEW g \in Keys, NEW e \in Items(g)
  PROVE  e \in CacheItem /\ e.before \in Contents /\ e.after \in Contents
<1>1. cache[g] \in Seq(CacheItem)
  BY DEF CacheInv
<1>2. PICK i \in 1..Len(cache[g]) : e = cache[g][i]
  BY DEF Items
<1>3. e \in CacheItem
  BY <1>1, <1>2
<1> QED
  BY <1>3 DEF CacheItem

LEMMA NextPlace == PlaceInv /\ CacheInv /\ [Next]_vars => PlaceInv'
<1> SUFFICES ASSUME PlaceInv, CacheInv, [Next]_vars PROVE PlaceInv'
  OBVIOUS
<1> USE DEF PlaceInv
<1>1. CASE UNCHANGED vars
  BY <1>1 DEF vars, where, runVars, Group, Now
<1>2. ASSUME pc \in {"files", "add"}, Leave, todo # <<>>, UNCHANGED start,
             file' \in [TestCases -> Contents]
      PROVE  PlaceInv'
  BY <1>2, CurrentIsOne DEF Leave, Now
<1>3. CASE SkipEmpty
  BY <1>3, <1>2 DEF SkipEmpty, runVars
<1>4. CASE CacheHit
  <2>1. PICK e \in Items(Key(Group)) : file' = [file EXCEPT ![Current] = e.after]
    BY <1>4 DEF CacheHit, Hits
  <2>2. e.after \in Contents
    BY <1>4, <2>1, GroupIsOne, HitIsContent DEF CacheHit
  <2> QED
    BY <1>4, <2>1, <2>2, <1>2 DEF CacheHit, runVars
<1>5. CASE StartPassRun
  BY <1>5, CurrentIsOne DEF StartPassRun, Now
<1>6. CASE BatchSucceeds
  <2>1. PICK after \in Contents : file' = [file EXCEPT ![Current] = after]
    BY <1>6 DEF BatchSucceeds
  <2>2. pc' \in {"run", "add"}
    BY <1>6 DEF BatchSucceeds
  <2> QED
    BY <1>6, <2>1, <2>2 DEF BatchSucceeds, Now
<1>7. CASE PassRunEnds
  BY <1>7 DEF PassRunEnds, runVars, Now
<1>8. CASE CacheAdd
  BY <1>8, <1>2 DEF CacheAdd, runVars
<1>9. CASE CallReturns
  BY <1>9 DEF CallReturns, NextCall, runVars
<1>10. CASE SkipCategory
  BY <1>10 DEF SkipCategory, NextCategory, runVars
<1>11. CASE BeginCategory
  BY <1>11 DEF BeginCategory, BeginRound, runVars
<1>12. CASE RoundReturns
  BY <1>12 DEF RoundReturns, runVars
<1>13. CASE CallIsSkipped
  BY <1>13 DEF CallIsSkipped, NextCall, runVars
<1>14. CASE BeginCall
  <2>1. pc' \in {"failed", "files"} /\ todo' \in Seq(TestCases)
    <3>1. CASE Total(file) = 0
      BY <1>14, <3>1 DEF BeginCall
    <3>2. CASE Total(file) # 0
      <4>1. pc' = "files" /\ todo' \in [1..Cardinality(TestCases) -> TestCases]
        BY <1>14, <3>2 DEF BeginCall, SortedTestCases
      <4> QED
        BY <4>1, SessionAssumption, FS_CardinalityType
    <3> QED
      BY <3>1, <3>2
  <2> QED
    BY <1>14, <2>1 DEF BeginCall, runVars, Now
<1>15. CASE EndRound
  BY <1>15 DEF EndRound, BeginRound, NextCategory, runVars
<1>16. CASE LeaveSession
  BY <1>16 DEF LeaveSession, runVars
<1> QED
  BY <1>1, <1>3, <1>4, <1>5, <1>6, <1>7, <1>8, <1>9, <1>10, <1>11, <1>12, <1>13, <1>14, <1>15, <1>16
  DEF Next, Step, Terminated
-----------------------------------------------------------------------------
(* The directories of the cache *)

\* A sequence without one of its elements.
LEMMA RemovedAt ==
  ASSUME NEW S, NEW s \in Seq(S), NEW k \in 1..Len(s)
  PROVE  /\ RemoveAt(s, k) \in Seq(S)
         /\ Len(RemoveAt(s, k)) = Len(s) - 1
         /\ \A j \in 1..(Len(s) - 1) : RemoveAt(s, k)[j] = s[IF j < k THEN j ELSE j + 1]
<1>1. SubSeq(s, 1, k - 1) \in Seq(S) /\ SubSeq(s, k + 1, Len(s)) \in Seq(S)
  OBVIOUS
<1>2. Len(SubSeq(s, 1, k - 1)) = k - 1 /\ Len(SubSeq(s, k + 1, Len(s))) = Len(s) - k
  OBVIOUS
<1>3. \A j \in 1..(k - 1) : SubSeq(s, 1, k - 1)[j] = s[j]
  OBVIOUS
<1>4. \A j \in 1..(Len(s) - k) : SubSeq(s, k + 1, Len(s))[j] = s[k + j]
  OBVIOUS
<1> DEFINE a == SubSeq(s, 1, k - 1)
           b == SubSeq(s, k + 1, Len(s))
<1>5. a \in Seq(S) /\ b \in Seq(S) /\ Len(a) = k - 1 /\ Len(b) = Len(s) - k
  BY <1>1, <1>2
<1>6. (\A j \in 1..(k - 1) : a[j] = s[j]) /\ (\A j \in 1..(Len(s) - k) : b[j] = s[k + j])
  BY <1>3, <1>4
<1>7. RemoveAt(s, k) = a \o b
  BY DEF RemoveAt
<1> HIDE DEF a, b
<1>8. a \o b \in Seq(S) /\ Len(a \o b) = Len(s) - 1
  BY <1>5
<1>9. \A j \in 1..(Len(s) - 1) : (a \o b)[j] = s[IF j < k THEN j ELSE j + 1]
  <2> SUFFICES ASSUME NEW j \in 1..(Len(s) - 1)
               PROVE  (a \o b)[j] = s[IF j < k THEN j ELSE j + 1]
    OBVIOUS
  <2>1. CASE j < k
    <3>1. (a \o b)[j] = a[j]
      BY <1>5, <2>1
    <3> QED
      BY <1>6, <2>1, <3>1
  <2>2. CASE j >= k
    <3>1. (a \o b)[j] = b[j - (k - 1)] /\ j - (k - 1) \in 1..(Len(s) - k)
      BY <1>5, <2>2
    <3>2. b[j - (k - 1)] = s[k + (j - (k - 1))]
      BY <1>6, <3>1
    <3>3. k + (j - (k - 1)) = IF j < k THEN j ELSE j + 1
      BY <2>2
    <3> QED
      BY <3>1, <3>2, <3>3
  <2>3. j < k \/ j >= k
    OBVIOUS
  <2> QED
    BY <2>1, <2>2, <2>3
<1> QED
  BY <1>7, <1>8, <1>9

\* A finite set leaves out one of the numbers up to one more than it has elements.
LEMMA OneIsFree ==
  ASSUME NEW S, IsFiniteSet(S)
  PROVE  \E d \in 1..(Cardinality(S) + 1) : d \notin S
<1>1. Cardinality(S) \in Nat
  BY FS_CardinalityType
<1> DEFINE N == 1..(Cardinality(S) + 1)
<1>2. Cardinality(N) = Cardinality(S) + 1
  BY <1>1, FS_Interval
<1>3. N \notin SUBSET S
  BY <1>1, <1>2, FS_Subset
<1> QED
  BY <1>3

\* What add() evicts: at most one item, after which none is of the content and
\* there is room for one more.
LEMMA EvictedIsOne ==
  ASSUME CacheInv, NEW g \in Keys, NEW content
  PROVE  LET old == Evicted(cache[g], content)
         IN /\ old = {} \/ \E k \in 1..Len(cache[g]) : old = {k}
            /\ old = {} => Len(cache[g]) < MaxItems
            /\ \A i \in 1..Len(cache[g]) : cache[g][i].before = content => i \in old
<1> DEFINE same == {i \in 1..Len(cache[g]) : cache[g][i].before = content}
<1>1. cache[g] \in Seq(CacheItem) /\ Len(cache[g]) \in Nat /\ MaxItems \in Nat \ {0}
  BY SessionAssumption DEF CacheInv
<1>2. CASE same # {}
  <2>1. PICK k \in same : TRUE
    BY <1>2
  <2>2. same = {k}
    BY <2>1 DEF CacheInv
  <2>3. Evicted(cache[g], content) = same
    BY <1>2 DEF Evicted
  <2> QED
    BY <2>1, <2>2, <2>3
<1>3. CASE same = {} /\ Len(cache[g]) >= MaxItems
  <2>1. Evicted(cache[g], content) = {1} /\ 1 \in 1..Len(cache[g])
    BY <1>1, <1>3 DEF Evicted
  <2> QED
    BY <2>1, <1>3
<1>4. CASE same = {} /\ Len(cache[g]) < MaxItems
  <2>1. Evicted(cache[g], content) = {}
    BY <1>1, <1>4 DEF Evicted
  <2> QED
    BY <2>1, <1>4
<1> QED
  BY <1>1, <1>2, <1>3, <1>4

\* What add() leaves of the items of the group: they stand at other positions
\* of the cache, each at one, and none of them is evicted.
Rest(g, old) == IF old = {} THEN cache[g] ELSE RemoveAt(cache[g], CHOOSE i \in old : TRUE)
From(old, j) == IF old = {} \/ \E k \in old : j < k THEN j ELSE j + 1

LEMMA RestOfItems ==
  ASSUME CacheInv, NEW g \in Keys, NEW old,
         old = {} \/ \E k \in 1..Len(cache[g]) : old = {k},
         old = {} => Len(cache[g]) < MaxItems
  PROVE  /\ Rest(g, old) \in Seq(CacheItem)
         /\ Len(Rest(g, old)) < MaxItems
         /\ \A j \in 1..Len(Rest(g, old)) :
                /\ From(old, j) \in 1..Len(cache[g]) \ old
                /\ Rest(g, old)[j] = cache[g][From(old, j)]
         /\ \A i, j \in 1..Len(Rest(g, old)) : From(old, i) = From(old, j) => i = j
         /\ \A i \in 1..Len(cache[g]) \ old :
                \E j \in 1..Len(Rest(g, old)) : i = From(old, j)
<1>1. cache[g] \in Seq(CacheItem) /\ Len(cache[g]) \in Nat /\ MaxItems \in Nat \ {0}
  BY SessionAssumption DEF CacheInv
<1>2. Len(cache[g]) <= MaxItems
  BY DEF CacheInv, CacheDirsOwned
<1>3. CASE old = {}
  <2>1. Rest(g, old) = cache[g] /\ \A j : From(old, j) = j
    BY <1>3 DEF Rest, From
  <2> QED
    BY <1>1, <1>3, <2>1
<1>4. ASSUME NEW k \in 1..Len(cache[g]), old = {k}
      PROVE  /\ Rest(g, old) \in Seq(CacheItem)
             /\ Len(Rest(g, old)) < MaxItems
             /\ \A j \in 1..Len(Rest(g, old)) :
                    /\ From(old, j) \in 1..Len(cache[g]) \ old
                    /\ Rest(g, old)[j] = cache[g][From(old, j)]
             /\ \A i, j \in 1..Len(Rest(g, old)) : From(old, i) = From(old, j) => i = j
             /\ \A i \in 1..Len(cache[g]) \ old :
                    \E j \in 1..Len(Rest(g, old)) : i = From(old, j)
  <2>1. Rest(g, old) = RemoveAt(cache[g], k)
    <3>1. (CHOOSE i \in {k} : TRUE) = k
      OBVIOUS
    <3> QED
      BY <1>4, <3>1 DEF Rest
  <2>2. \A j : From(old, j) = IF j < k THEN j ELSE j + 1
    BY <1>4 DEF From
  <2>3. /\ Rest(g, old) \in Seq(CacheItem)
        /\ Len(Rest(g, old)) = Len(cache[g]) - 1
        /\ \A j \in 1..(Len(cache[g]) - 1) :
               Rest(g, old)[j] = cache[g][IF j < k THEN j ELSE j + 1]
    <3>1. /\ RemoveAt(cache[g], k) \in Seq(CacheItem)
          /\ Len(RemoveAt(cache[g], k)) = Len(cache[g]) - 1
          /\ \A j \in 1..(Len(cache[g]) - 1) :
                 RemoveAt(cache[g], k)[j] = cache[g][IF j < k THEN j ELSE j + 1]
      BY <1>1, RemovedAt
    <3> QED
      BY <2>1, <3>1
  <2> DEFINE n == Len(cache[g])
  <2>n. n \in Nat /\ k \in 1..n /\ Len(Rest(g, old)) = n - 1
    BY <1>1, <1>4, <2>3
  <2> HIDE DEF n
  <2>4. \A j \in 1..Len(Rest(g, old)) : Rest(g, old)[j] = cache[g][From(old, j)]
    BY <1>1, <2>2, <2>3
  <2>5. \A j \in 1..Len(Rest(g, old)) : From(old, j) \in 1..Len(cache[g]) \ old
    <3>1. \A j \in 1..(n - 1) : From(old, j) \in 1..n /\ From(old, j) # k
      BY <2>n, <2>2
    <3> QED
      BY <1>4, <2>n, <3>1 DEF n
  <2>6. \A i, j \in 1..Len(Rest(g, old)) : From(old, i) = From(old, j) => i = j
    BY <2>n, <2>2
  <2>7. ASSUME NEW i \in 1..Len(cache[g]) \ old
        PROVE  \E j \in 1..Len(Rest(g, old)) : i = From(old, j)
    <3>0. i \in 1..n /\ i # k
      BY <1>4 DEF n
    <3>1. CASE i < k
      <4>1. i \in 1..(n - 1) /\ From(old, i) = i
        BY <2>n, <2>2, <3>0, <3>1
      <4> QED
        BY <2>n, <4>1
    <3>2. CASE i > k
      <4>1. i - 1 \in 1..(n - 1) /\ From(old, i - 1) = i
        BY <2>n, <2>2, <3>0, <3>2
      <4> QED
        BY <2>n, <4>1
    <3> QED
      BY <2>n, <3>0, <3>1, <3>2
  <2> QED
    <3>1. n <= MaxItems /\ MaxItems \in Nat
      BY <1>1, <1>2 DEF n
    <3>2. Len(Rest(g, old)) < MaxItems
      BY <2>n, <3>1
    <3> QED
      BY <2>3, <2>4, <2>5, <2>6, <2>7, <3>2
<1> QED
  BY <1>3, <1>4

\* The items of the cache are where it has a position.
LEMMA OwnedByItems ==
  CacheInv => \A d : d \in dirs <=> \E g \in Keys : \E i \in 1..Len(cache[g]) : d = cache[g][i].dir
BY DEF CacheInv, CacheDirsOwned, Items

\* add() keeps the books of the directories right.
LEMMA AddKeeps ==
  ASSUME CacheInv, NEW g \in Keys, NEW before \in Contents, NEW after \in Contents,
         Add(g, before, after), pc' # "done"
  PROVE  CacheInv'
<1> DEFINE old == Evicted(cache[g], before)
           left == Kept(g, old)
           dir == CHOOSE d \in 1..(Cardinality(left) + 1) : d \notin left
           item == [before |-> before, after |-> after, dir |-> dir]
           rest == Rest(g, old)
           m == Len(rest)
<1>1. /\ old = {} \/ \E k \in 1..Len(cache[g]) : old = {k}
      /\ old = {} => Len(cache[g]) < MaxItems
      /\ \A i \in 1..Len(cache[g]) : cache[g][i].before = before => i \in old
  BY EvictedIsOne
<1>2. IsFiniteSet(left)
  BY FS_Difference DEF Kept, CacheInv
<1>3. dir \in Nat \ {0} /\ dir \notin left
  <2>1. Cardinality(left) \in Nat
    BY <1>2, FS_CardinalityType
  <2>2. \E d \in 1..(Cardinality(left) + 1) : d \notin left
    BY <1>2, OneIsFree
  <2> HIDE DEF left
  <2>3. dir \in 1..(Cardinality(left) + 1) /\ dir \notin left
    BY <2>2
  <2> QED
    BY <2>1, <2>3
<1>4. cache' = [cache EXCEPT ![g] = Append(rest, item)] /\ dirs' = left \cup {dir}
  BY DEF Add, Rest
<1>5. /\ rest \in Seq(CacheItem) /\ m < MaxItems
      /\ \A j \in 1..m : From(old, j) \in 1..Len(cache[g]) \ old /\ rest[j] = cache[g][From(old, j)]
      /\ \A i, j \in 1..m : From(old, i) = From(old, j) => i = j
      /\ \A i \in 1..Len(cache[g]) \ old : \E j \in 1..m : i = From(old, j)
  <2> HIDE DEF old
  <2> QED
    BY <1>1, RestOfItems
<1>6. item \in CacheItem /\ item.before = before /\ item.dir = dir
  BY <1>3 DEF CacheItem
<1>7. left = dirs \ {cache[g][i].dir : i \in old}
  BY DEF Kept
<1>8. old \subseteq 1..Len(cache[g])
  BY <1>1
<1>9. m \in Nat /\ MaxItems \in Nat
  BY <1>5, SessionAssumption
<1> HIDE DEF old, left, dir, item, rest, m
<1> DEFINE new == Append(rest, item)
<1>10. /\ new \in Seq(CacheItem) /\ Len(new) = m + 1 /\ new[m + 1] = item
       /\ \A j \in 1..m : new[j] = rest[j]
  BY <1>5, <1>6 DEF m
<1> HIDE DEF new
<1>11. cache'[g] = new /\ \A h \in Keys \ {g} : cache'[h] = cache[h]
  BY <1>4 DEF CacheInv, new
<1>12. cache' \in [Keys -> Seq(CacheItem)]
  BY <1>4, <1>10 DEF CacheInv, new
<1>13. IsFiniteSet(dirs')
  BY <1>2, <1>4, FS_AddElement
\* The positions of the new cache, as those of the old one and one more.
<1> DEFINE Is(h, i, d) == \/ h = g /\ i = m + 1 /\ d = dir
                          \/ h = g /\ i \in 1..m /\ d = cache[g][From(old, i)].dir
                          \/ h # g /\ i \in 1..Len(cache[h]) /\ d = cache[h][i].dir
<1>14. ASSUME NEW h \in Keys, NEW i \in 1..Len(cache'[h])
       PROVE  Is(h, i, cache'[h][i].dir)
  <2>1. CASE h = g
    <3>1. i \in 1..m \/ i = m + 1
      BY <1>9, <1>10, <1>11, <1>14, <2>1
    <3> QED
      BY <1>5, <1>6, <1>10, <1>11, <2>1, <3>1
  <2>2. CASE h # g
    BY <1>11, <1>14, <2>2
  <2> QED
    BY <2>1, <2>2
<1>15. \A h \in Keys : \A i, d : Is(h, i, d) => d \in left \/ (d = dir /\ h = g /\ i = m + 1)
  <2> SUFFICES ASSUME NEW h \in Keys, NEW i, NEW d, Is(h, i, d), ~(d = dir /\ h = g /\ i = m + 1)
               PROVE  d \in left
    OBVIOUS
  <2>1. CASE h = g /\ i \in 1..m /\ d = cache[g][From(old, i)].dir
    <3>1. From(old, i) \in 1..Len(cache[g]) \ old
      BY <1>5, <2>1
    <3>2. d \in dirs
      BY <2>1, <3>1, OwnedByItems
    <3>3. \A k \in old : cache[g][k].dir # d
      BY <1>8, <2>1, <3>1 DEF CacheInv, CacheDirsOwned
    <3> QED
      BY <1>7, <3>2, <3>3
  <2>2. CASE h # g /\ i \in 1..Len(cache[h]) /\ d = cache[h][i].dir
    <3>1. d \in dirs
      BY <2>2, OwnedByItems
    <3>2. \A k \in old : cache[g][k].dir # d
      BY <1>8, <2>2 DEF CacheInv, CacheDirsOwned
    <3> QED
      BY <1>7, <3>1, <3>2
  <2> QED
    BY <2>1, <2>2
\* Each directory has its item.
<1>16. \A d \in dirs' : \E h \in Keys : \E i \in 1..Len(cache'[h]) : d = cache'[h][i].dir
  <2> SUFFICES ASSUME NEW d \in dirs'
               PROVE  \E h \in Keys : \E i \in 1..Len(cache'[h]) : d = cache'[h][i].dir
    OBVIOUS
  <2>1. CASE d = dir
    <3>1. m + 1 \in 1..Len(cache'[g]) /\ cache'[g][m + 1].dir = dir
      BY <1>6, <1>9, <1>10, <1>11
    <3> QED
      BY <2>1, <3>1
  <2>2. CASE d \in left
    <3>1. PICK h \in Keys : \E i \in 1..Len(cache[h]) : d = cache[h][i].dir
      BY <1>7, <2>2, OwnedByItems
    <3>2. PICK i \in 1..Len(cache[h]) : d = cache[h][i].dir
      BY <3>1
    <3>3. CASE h = g
      <4>1. i \in 1..Len(cache[g]) \ old
        BY <1>7, <2>2, <3>2, <3>3
      <4>2. PICK j \in 1..m : i = From(old, j)
        BY <1>5, <4>1
      <4>3. j \in 1..Len(cache'[g]) /\ cache'[g][j] = cache[g][i]
        BY <1>5, <1>9, <1>10, <1>11, <4>2
      <4> QED
        BY <3>2, <3>3, <4>3
    <3>4. CASE h # g
      BY <1>11, <3>2, <3>4
    <3> QED
      BY <3>3, <3>4
  <2> QED
    BY <1>4, <2>1, <2>2
<1>17. \A h \in Keys : \A i \in 1..Len(cache'[h]) : cache'[h][i].dir \in dirs'
  <2> SUFFICES ASSUME NEW h \in Keys, NEW i \in 1..Len(cache'[h])
               PROVE  cache'[h][i].dir \in left \cup {dir}
    BY <1>4
  <2>1. Is(h, i, cache'[h][i].dir)
    BY <1>14
  <2> HIDE DEF Is
  <2> QED
    BY <1>15, <2>1
<1>18. \A h \in Keys : Len(cache'[h]) <= MaxItems
  <2>1. Len(cache'[g]) <= MaxItems
    BY <1>5, <1>9, <1>10, <1>11
  <2> QED
    BY <1>11, <2>1 DEF CacheInv, CacheDirsOwned
\* No two items have one directory.
<1>19. ASSUME NEW h1 \in Keys, NEW h2 \in Keys, NEW i \in 1..Len(cache'[h1]),
              NEW j \in 1..Len(cache'[h2]), cache'[h1][i].dir = cache'[h2][j].dir
       PROVE  h1 = h2 /\ i = j
  <2> DEFINE d == cache'[h1][i].dir
  <2>1. Is(h1, i, d) /\ Is(h2, j, d)
    BY <1>14, <1>19
  <2> HIDE DEF d
  <2>2. CASE d = dir
    <3> HIDE DEF Is
    <3>1. d \notin left
      BY <1>3, <2>2
    <3>2. (h1 = g /\ i = m + 1) /\ (h2 = g /\ j = m + 1)
      BY <1>15, <2>1, <3>1
    <3> QED
      BY <3>2
  <2>3. CASE d # dir
    <3> DEFINE At(h, k) == IF h = g THEN From(old, k) ELSE k
    <3>1. At(h1, i) \in 1..Len(cache[h1]) /\ cache[h1][At(h1, i)].dir = d
      BY <1>5, <2>1, <2>3
    <3>2. At(h2, j) \in 1..Len(cache[h2]) /\ cache[h2][At(h2, j)].dir = d
      BY <1>5, <2>1, <2>3
    <3>3. h1 = h2 /\ At(h1, i) = At(h2, j)
      BY <3>1, <3>2 DEF CacheInv, CacheDirsOwned
    <3>4. h1 = g => i \in 1..m /\ j \in 1..m
      BY <2>1, <2>3, <3>3
    <3> QED
      BY <1>5, <3>3, <3>4
  <2> QED
    BY <2>2, <2>3
\* No two items of a group are of one content.
<1>20. ASSUME NEW h \in Keys, NEW i \in 1..Len(cache'[h]), NEW j \in 1..Len(cache'[h]),
              cache'[h][i].before = cache'[h][j].before
       PROVE  i = j
  <2>1. CASE h # g
    BY <1>11, <1>20, <2>1 DEF CacheInv
  <2>2. CASE h = g
    <3>1. \A k \in 1..m : rest[k].before # before
      BY <1>1, <1>5
    <3>2. i \in 1..(m + 1) /\ j \in 1..(m + 1) /\ new[i].before = new[j].before
      BY <1>10, <1>11, <1>20, <2>2
    <3>3. CASE i = m + 1
      BY <1>6, <1>9, <1>10, <3>1, <3>2, <3>3
    <3>4. CASE j = m + 1
      BY <1>6, <1>9, <1>10, <3>1, <3>2, <3>4
    <3>5. CASE i \in 1..m /\ j \in 1..m
      <4>1. cache[g][From(old, i)].before = cache[g][From(old, j)].before
        BY <1>5, <1>10, <3>2, <3>5
      <4>2. From(old, i) = From(old, j)
        BY <1>5, <3>5, <4>1 DEF CacheInv
      <4> QED
        BY <1>5, <3>5, <4>2
    <3> QED
      BY <1>9, <3>2, <3>3, <3>4, <3>5
  <2> QED
    BY <2>1, <2>2
<1>21. dirs' = UNION {{e.dir : e \in Items(h)'} : h \in Keys}
  BY <1>16, <1>17 DEF Items
<1> QED
  BY <1>12, <1>13, <1>18, <1>19, <1>20, <1>21 DEF CacheInv, CacheDirsOwned
-----------------------------------------------------------------------------
(* The invariant of the cache *)

LEMMA InitCache == Init => CacheInv
<1> SUFFICES ASSUME Init PROVE CacheInv
  OBVIOUS
<1>1. \A g \in Keys : cache[g] = <<>> /\ Len(cache[g]) = 0
  BY DEF Init
<1>2. \A g \in Keys : 1..Len(cache[g]) = {}
  BY <1>1
<1>3. cache \in [Keys -> Seq(CacheItem)]
  BY DEF Init
<1>4. dirs = UNION {{e.dir : e \in Items(g)} : g \in Keys}
  BY <1>2 DEF Init, Items
<1>5. \A g \in Keys : Len(cache[g]) <= MaxItems
  BY <1>1, SessionAssumption
<1>6. IsFiniteSet(dirs) /\ dirs = {}
  BY FS_EmptySet DEF Init
<1> QED
  BY <1>2, <1>3, <1>4, <1>5, <1>6 DEF CacheInv, CacheDirsOwned

LEMMA NextCache == PlaceInv /\ CacheInv /\ [Next]_vars => CacheInv'
<1> SUFFICES ASSUME PlaceInv, CacheInv, [Next]_vars PROVE CacheInv'
  OBVIOUS
<1>1. ASSUME UNCHANGED <<cache, dirs>>, pc' # "done" \/ pc = "done" PROVE CacheInv'
  <2>1. dirs' = UNION {{e.dir : e \in Items(g)'} : g \in Keys}
    BY <1>1 DEF CacheInv, CacheDirsOwned, Items
  <2>2. pc' = "done" => dirs' = {}
    BY <1>1 DEF CacheInv, CacheDirsOwned
  <2>3. /\ \A g \in Keys : Len(cache'[g]) <= MaxItems
        /\ \A g, h \in Keys : \A i \in 1..Len(cache'[g]), j \in 1..Len(cache'[h]) :
               cache'[g][i].dir = cache'[h][j].dir => g = h /\ i = j
    BY <1>1 DEF CacheInv, CacheDirsOwned
  <2>4. /\ cache' \in [Keys -> Seq(CacheItem)] /\ IsFiniteSet(dirs')
        /\ \A g \in Keys : \A i, j \in 1..Len(cache'[g]) :
               cache'[g][i].before = cache'[g][j].before => i = j
    BY <1>1 DEF CacheInv
  <2> QED
    BY <2>1, <2>2, <2>3, <2>4 DEF CacheInv, CacheDirsOwned
<1>2. CASE UNCHANGED vars
  BY <1>1, <1>2 DEF vars, where
<1>3. CASE SkipEmpty \/ CacheHit \/ StartPassRun \/ PassRunEnds \/ CallReturns
  BY <1>1, <1>3 DEF SkipEmpty, CacheHit, StartPassRun, PassRunEnds, CallReturns, Leave, NextCall
<1>4. CASE BatchSucceeds
  <2>1. pc' # "done"
    BY <1>4 DEF BatchSucceeds
  <2> QED
    BY <1>1, <1>4, <2>1 DEF BatchSucceeds
<1>5. CASE SkipCategory \/ BeginCategory \/ RoundReturns \/ CallIsSkipped \/ EndRound
  BY <1>1, <1>5 DEF SkipCategory, BeginCategory, RoundReturns, CallIsSkipped, EndRound, NextCall,
     NextCategory, BeginRound
<1>6. CASE BeginCall
  BY <1>1, <1>6 DEF BeginCall
<1>7. CASE CacheAdd
  <2>1. pc' = "files"
    BY <1>7 DEF CacheAdd, Leave
  <2>2. CASE options.useCache
    <3>1. Key(Group) \in Keys /\ start \in Contents /\ file[Current] \in Contents
      BY <1>7, GroupIsOne, CurrentIsOne DEF CacheAdd, PlaceInv
    <3>2. PICK g \in Keys, b \in Contents, a \in Contents :
              g = Key(Group) /\ b = start /\ a = file[Current]
      BY <3>1
    <3>3. Add(g, b, a)
      BY <1>7, <2>2, <3>2 DEF CacheAdd
    <3> QED
      BY <2>1, <3>3, AddKeeps
  <2>3. CASE ~options.useCache
    BY <1>1, <1>7, <2>1, <2>3 DEF CacheAdd
  <2> QED
    BY <2>2, <2>3
<1>8. CASE LeaveSession
  <2>1. dirs' = {} /\ cache' = [g \in Keys |-> <<>>]
    BY <1>8 DEF LeaveSession, CacheInv, CacheDirsOwned
  <2>2. \A g \in Keys : cache'[g] = <<>> /\ Len(cache'[g]) = 0
    BY <2>1
  <2>3. \A g \in Keys : 1..Len(cache'[g]) = {}
    BY <2>2
  <2>4. cache' \in [Keys -> Seq(CacheItem)] /\ IsFiniteSet(dirs')
    BY <2>1, FS_EmptySet
  <2>5. dirs' = UNION {{e.dir : e \in Items(g)'} : g \in Keys}
    BY <2>1, <2>3 DEF Items
  <2>6. \A g \in Keys : Len(cache'[g]) <= MaxItems
    BY <2>2, SessionAssumption
  <2> QED
    BY <2>1, <2>3, <2>4, <2>5, <2>6 DEF CacheInv, CacheDirsOwned
<1> QED
  BY <1>2, <1>3, <1>4, <1>5, <1>6, <1>7, <1>8 DEF Next, Step, Terminated

\* Of every pass run the program knows the call, the category and the test case;
\* the cache has one item for a content, at most MAX_ITEMS_PER_PASS_GROUP to a
\* group and a directory for each (TestManager.run_passes, Cache).
THEOREM CacheInvariant == Spec => [](PlaceInv /\ CacheInv)
<1>1. Init => PlaceInv /\ CacheInv
  BY InitPlace, InitCache
<1>2. PlaceInv /\ CacheInv /\ [Next]_vars => (PlaceInv /\ CacheInv)'
  BY NextPlace, NextCache
<1> QED
  BY <1>1, <1>2, PTL DEF Spec

\* The directories on the disk are those of the items, one for each, and none is
\* left when the program ends (Cache.add, Cache.__exit__).
THEOREM CacheDirsStayOwned == Spec => []CacheDirsOwned
<1>1. PlaceInv /\ CacheInv => CacheDirsOwned
  BY DEF CacheInv
<1> QED
  BY <1>1, CacheInvariant, PTL
-----------------------------------------------------------------------------
(* What the items say *)

\* add() brings in the new item and no other.
LEMMA AddedItems ==
  ASSUME CacheInv, NEW g \in Keys, NEW before, NEW after, Add(g, before, after),
         NEW h \in Keys, NEW e \in Items(h)'
  PROVE  e \in Items(h) \/ (h = g /\ e.before = before /\ e.after = after)
<1> DEFINE old == Evicted(cache[g], before)
           dir == CHOOSE d \in 1..(Cardinality(Kept(g, old)) + 1) : d \notin Kept(g, old)
           item == [before |-> before, after |-> after, dir |-> dir]
           rest == Rest(g, old)
<1>1. /\ old = {} \/ \E k \in 1..Len(cache[g]) : old = {k}
      /\ old = {} => Len(cache[g]) < MaxItems
  BY EvictedIsOne
<1>2. cache' = [cache EXCEPT ![g] = Append(rest, item)]
  BY DEF Add, Rest
<1>3. rest \in Seq(CacheItem) /\ \A j \in 1..Len(rest) : rest[j] \in Items(g)
  <2> HIDE DEF old
  <2>1. /\ rest \in Seq(CacheItem)
        /\ \A j \in 1..Len(rest) :
               From(old, j) \in 1..Len(cache[g]) \ old /\ rest[j] = cache[g][From(old, j)]
    BY <1>1, RestOfItems
  <2> QED
    BY <2>1 DEF Items
<1>4. item.before = before /\ item.after = after
  OBVIOUS
<1>5. PICK i \in 1..Len(cache'[h]) : e = cache'[h][i]
  BY DEF Items
<1> HIDE DEF old, dir, item, rest
<1>6. CASE h # g
  <2>1. cache'[h] = cache[h]
    BY <1>2, <1>6 DEF CacheInv
  <2> QED
    BY <1>5, <2>1 DEF Items
<1>7. CASE h = g
  <2>1. cache'[g] = Append(rest, item)
    BY <1>2 DEF CacheInv
  <2>2. i \in 1..(Len(rest) + 1) /\ e = Append(rest, item)[i] /\ Len(rest) \in Nat
    BY <1>3, <1>5, <1>7, <2>1
  <2>3. i \in 1..Len(rest) => e = rest[i]
    BY <1>3, <2>2
  <2>4. i = Len(rest) + 1 => e = item
    BY <1>3, <2>2
  <2> QED
    BY <1>3, <1>4, <1>7, <2>2, <2>3, <2>4
<1> QED
  BY <1>6, <1>7

LEMMA MadeOfItself == \A g, c : MadeFrom(g, c, c)
BY DEF MadeFrom

\* One more transformation of the group.
LEMMA MadeFurther ==
  ASSUME NEW g, NEW c, NEW b \in Contents, NEW a \in Contents, NEW p \in Members(g),
         <<b, a>> \in Makes[p], MadeFrom(g, c, b)
  PROVE  MadeFrom(g, c, a)
BY DEF MadeFrom, ClosedUnder

LEMMA InitSound == Init => SoundInv
<1> SUFFICES ASSUME Init PROVE SoundInv
  OBVIOUS
<1>1. \A g \in Keys : Items(g) = {}
  BY DEF Init, Items
<1> QED
  BY <1>1 DEF Init, SoundInv, CacheSound

LEMMA NextSound == PlaceInv /\ CacheInv /\ SoundInv /\ [Next]_vars => SoundInv'
<1> SUFFICES ASSUME PlaceInv, CacheInv, SoundInv, [Next]_vars PROVE SoundInv'
  OBVIOUS
<1>1. ASSUME UNCHANGED cache PROVE CacheSound'
  BY <1>1 DEF SoundInv, CacheSound, Items
<1>2. ASSUME UNCHANGED cache, pc' \notin {"run", "add"} PROVE SoundInv'
  BY <1>1, <1>2 DEF SoundInv
<1>3. ASSUME UNCHANGED <<cache, category, call, todo, file, start>>, pc \in {"run", "add"}
      PROVE  SoundInv'
  BY <1>1, <1>3 DEF SoundInv, Group, Now, Current
<1>4. CASE UNCHANGED vars
  BY <1>1, <1>4 DEF SoundInv, Group, Now, Current, vars, where, runVars
<1>5. CASE SkipEmpty \/ CacheHit \/ CallReturns
  BY <1>2, <1>5 DEF SkipEmpty, CacheHit, CallReturns, Leave, NextCall
<1>6. CASE StartPassRun
  <2>1. start' = (file[Current])' /\ pc' = "run"
    BY <1>6 DEF StartPassRun, Current
  <2>2. MadeFrom(Group, file[Current], file[Current])'
    BY MadeOfItself
  <2> QED
    BY <1>1, <1>6, <2>1, MadeOfItself DEF SoundInv, StartPassRun
<1>7. CASE BatchSucceeds
  <2>1. PICK p \in Members(Group), after \in Contents :
            <<file[Current], after>> \in Makes[p] /\ file' = [file EXCEPT ![Current] = after]
    BY <1>7 DEF BatchSucceeds
  <2>2. Current \in TestCases /\ file[Current] \in Contents
    BY <1>7, CurrentIsOne DEF BatchSucceeds, PlaceInv
  <2>3. MadeFrom(Group, start, file[Current])
    BY <1>7 DEF BatchSucceeds, SoundInv
  <2>4. MadeFrom(Group, start, after)
    BY <2>1, <2>2, <2>3, MadeFurther
  <2>5. (file[Current])' = after
    BY <1>7, <2>1, <2>2 DEF BatchSucceeds, Current, PlaceInv
  <2>6. MadeFrom(Group, start, file[Current])'
    BY <1>7, <2>4, <2>5 DEF BatchSucceeds, Group, Now, MadeFrom
  <2> QED
    BY <1>1, <1>7, <2>6 DEF SoundInv, BatchSucceeds
<1>8. CASE PassRunEnds
  BY <1>3, <1>8 DEF PassRunEnds, runVars
<1>9. CASE CacheAdd
  <2>1. pc' = "files" /\ pc = "add"
    BY <1>9 DEF CacheAdd, Leave
  <2>2. CASE options.useCache
    <3>1. Group \in Groups /\ Key(Group) \in Keys
      BY <2>1, GroupIsOne
    <3>2. PICK k, b, a : k = Key(Group) /\ b = start /\ a = file[Current]
      OBVIOUS
    <3> k \in Keys
      BY <3>1, <3>2
    <3>3. Add(k, b, a) /\ MadeFrom(Group, b, a)
      BY <1>9, <2>1, <2>2, <3>2 DEF CacheAdd, SoundInv
    <3>4. ASSUME NEW h \in Keys, NEW e \in Items(h)'
          PROVE  \E g \in Groups : Named(g, h) /\ MadeFrom(g, e.before, e.after)
      <4>1. CASE e \in Items(h)
        BY <4>1 DEF SoundInv, CacheSound
      <4>2. CASE h = k /\ e.before = b /\ e.after = a
        <5>1. Named(Group, h)
          BY <3>1, <3>2, <4>2, KeyNames
        <5> QED
          BY <3>1, <3>3, <4>2, <5>1
      <4> QED
        BY <3>3, <3>4, <4>1, <4>2, AddedItems
    <3> QED
      BY <2>1, <3>4 DEF SoundInv, CacheSound
  <2>3. CASE ~options.useCache
    BY <1>2, <1>9, <2>1, <2>3 DEF CacheAdd
  <2> QED
    BY <2>2, <2>3
<1>10. CASE SkipCategory \/ BeginCategory \/ RoundReturns \/ CallIsSkipped \/ EndRound
  BY <1>2, <1>10 DEF SkipCategory, BeginCategory, RoundReturns, CallIsSkipped, EndRound, NextCall,
     NextCategory, BeginRound
<1>11. CASE BeginCall
  BY <1>2, <1>11 DEF BeginCall
<1>12. CASE LeaveSession
  <2>1. cache' = [g \in Keys |-> <<>>] /\ pc' = "done"
    BY <1>12 DEF LeaveSession
  <2>2. \A g \in Keys : Items(g)' = {}
    BY <2>1 DEF Items
  <2> QED
    BY <2>1, <2>2 DEF SoundInv, CacheSound
<1> QED
  BY <1>4, <1>5, <1>6, <1>7, <1>8, <1>9, <1>10, <1>11, <1>12 DEF Next, Step, Terminated

\* An item of the cache says what passes of its names can make of its content,
\* whatever they do and whatever the cache held before (Cache.lookup, Cache.add).
THEOREM CacheStaysSound == Spec => []CacheSound
<1>1. Init => SoundInv
  BY InitSound
<1>2. PlaceInv /\ CacheInv /\ SoundInv /\ [Next]_vars => SoundInv'
  BY NextSound
<1>3. SoundInv => CacheSound
  BY DEF SoundInv
<1> QED
  BY <1>1, <1>2, <1>3, CacheInvariant, PTL DEF Spec

\* In a configuration in which no two groups of passes are called the same, a hit
\* is what the passes that look it up have made themselves (Cache._key,
\* AbstractPass.__repr__); in another it need not be.
THEOREM DistinctNamesOwnWork ==
  ASSUME \A g, h \in Groups : Key(g) = Key(h) => g = h
  PROVE  Spec => []HitIsOwnWork
<1>1. PlaceInv /\ CacheSound => HitIsOwnWork
  <2> SUFFICES ASSUME PlaceInv, CacheSound, pc = "files", todo # <<>>,
                      NEW e \in Items(Key(Group))
               PROVE  MadeFrom(Group, e.before, e.after)
    BY DEF HitIsOwnWork, Hits
  <2>1. Group \in Groups /\ Key(Group) \in Keys
    BY GroupIsOne
  <2>2. PICK g \in Groups : Named(g, Key(Group)) /\ MadeFrom(g, e.before, e.after)
    BY <2>1 DEF CacheSound
  <2>3. Key(g) = Key(Group)
    BY <2>2 DEF Named, Key
  <2> QED
    BY <2>1, <2>2, <2>3
<1> QED
  BY <1>1, CacheInvariant, CacheStaysSound, PTL
-----------------------------------------------------------------------------
(* --start-with-pass *)

\* While a pass to start with is looked for there are no contexts to look in.
NothingRuns == contexts = <<>> /\ pc \notin {"files", "run", "add"}

\* run_passes looks for the pass to start with among the contexts that the passes
\* before have left, and lets no pass run until it is there: "Start with the
\* specified pass" (cvise-cli.py) lets none run at all.
THEOREM StartPassIsNeverFound == Spec => [](startWith # NoPass => NothingRuns)
<1>1. Init => (startWith # NoPass => NothingRuns)
  BY DEF Init, NothingRuns
<1>2. (startWith # NoPass => NothingRuns) /\ [Next]_vars => (startWith # NoPass => NothingRuns)'
  <2> SUFFICES ASSUME startWith # NoPass => NothingRuns, [Next]_vars, startWith' # NoPass
               PROVE  NothingRuns'
    OBVIOUS
  <2>1. startWith' = startWith
    BY DEF Next, Step, Terminated, vars, SkipCategory, BeginCategory, RoundReturns, CallIsSkipped,
       BeginCall, SkipEmpty, CacheHit, StartPassRun, BatchSucceeds, PassRunEnds, CacheAdd,
       CallReturns, EndRound, LeaveSession
  <2>2. contexts = <<>> /\ pc \notin {"files", "run", "add"}
    BY <2>1 DEF NothingRuns
  <2>3. ~BeginCall
    BY DEF BeginCall
  <2> QED
    BY <2>2, <2>3 DEF NothingRuns, Next, Step, Terminated, vars, where, SkipCategory, NextCategory,
       BeginCategory, BeginRound, RoundReturns, CallIsSkipped, NextCall, SkipEmpty, CacheHit,
       StartPassRun, BatchSucceeds, PassRunEnds, CacheAdd, CallReturns, EndRound, LeaveSession
<1> QED
  BY <1>1, <1>2, PTL DEF Spec

-----------------------------------------------------------------------------
(* When what the cache puts in place is interesting *)

\* Without the cache every content that is put in place was accepted by the
\* interestingness test (TestManager.process_result, --no-cache).
THEOREM WithoutCacheInteresting == Spec => [](~options.useCache => InterestingKept)
<1>1. Init => (~options.useCache => InterestingKept)
  BY DEF Init, InterestingKept
<1>2. (~options.useCache => InterestingKept) /\ [Next]_vars => (~options.useCache => InterestingKept)'
  <2> SUFFICES ASSUME ~options.useCache => file \in Interesting, [Next]_vars, ~options'.useCache
               PROVE  file' \in Interesting
    BY DEF InterestingKept
  <2>1. options' = options
    BY DEF Next, Step, Terminated, vars, SkipCategory, BeginCategory, RoundReturns, CallIsSkipped,
       BeginCall, SkipEmpty, CacheHit, StartPassRun, BatchSucceeds, PassRunEnds, CacheAdd,
       CallReturns, EndRound, LeaveSession
  <2>2. CASE BatchSucceeds
    BY <2>2 DEF BatchSucceeds
  <2>3. CASE CacheHit
    BY <2>1, <2>3 DEF CacheHit
  <2>4. CASE file' = file
    BY <2>1, <2>4
  <2> QED
    BY <2>2, <2>3, <2>4 DEF Next, Step, Terminated, vars, SkipCategory, BeginCategory, RoundReturns,
       CallIsSkipped, BeginCall, SkipEmpty, StartPassRun, PassRunEnds, CacheAdd, CallReturns,
       EndRound, LeaveSession
<1> QED
  BY <1>1, <1>2, PTL DEF Spec

\* With one test case its content is all there is, so that an item of the cache
\* was accepted as a whole.
AcceptedItems == \A g \in Keys : \A e \in Items(g) : [t \in TestCases |-> e.after] \in Interesting

LEMMA NextAccepted ==
  ASSUME NEW only, TestCases = {only}, PlaceInv, CacheInv, AcceptedItems, InterestingKept, [Next]_vars
  PROVE  AcceptedItems' /\ InterestingKept'
<1> USE DEF InterestingKept
<1>1. ASSUME UNCHANGED cache PROVE AcceptedItems'
  <2>1. \A g \in Keys : Items(g)' = Items(g)
    BY <1>1 DEF Items
  <2> QED
    BY <2>1 DEF AcceptedItems
<1>2. CASE UNCHANGED vars
  BY <1>1, <1>2 DEF vars
<1>3. CASE SkipEmpty \/ StartPassRun \/ PassRunEnds \/ CallReturns \/ BeginCall
  BY <1>1, <1>3 DEF SkipEmpty, StartPassRun, PassRunEnds, CallReturns, BeginCall
<1>4. CASE SkipCategory \/ BeginCategory \/ RoundReturns \/ CallIsSkipped \/ EndRound
  BY <1>1, <1>4 DEF SkipCategory, BeginCategory, RoundReturns, CallIsSkipped, EndRound
<1>5. CASE BatchSucceeds
  BY <1>1, <1>5 DEF BatchSucceeds
<1>6. CASE CacheHit
  <2>1. PICK e \in Items(Key(Group)) : file' = [file EXCEPT ![Current] = e.after]
    BY <1>6 DEF CacheHit, Hits
  <2>2. Current = only /\ Key(Group) \in Keys
    BY <1>6, CurrentIsOne, GroupIsOne DEF CacheHit
  <2>3. file' = [t \in TestCases |-> e.after]
    BY <2>1, <2>2 DEF PlaceInv
  <2>4. [t \in TestCases |-> e.after] \in Interesting
    BY <2>1, <2>2 DEF AcceptedItems
  <2> QED
    BY <1>1, <1>6, <2>3, <2>4 DEF CacheHit
<1>7. CASE CacheAdd
  <2>1. pc = "add" /\ file' = file
    BY <1>7 DEF CacheAdd
  <2>2. CASE options.useCache
    <3>1. Key(Group) \in Keys /\ Current = only
      BY <2>1, GroupIsOne, CurrentIsOne DEF PlaceInv
    <3>2. PICK g, b, a : g = Key(Group) /\ b = start /\ a = file[Current]
      OBVIOUS
    <3> g \in Keys
      BY <3>1, <3>2
    <3>3. Add(g, b, a)
      BY <1>7, <2>2, <3>2 DEF CacheAdd
    <3>4. file = [t \in TestCases |-> a]
      BY <3>1, <3>2 DEF PlaceInv
    <3>5. ASSUME NEW h \in Keys, NEW e \in Items(h)'
          PROVE  [t \in TestCases |-> e.after] \in Interesting
      <4>1. e \in Items(h) \/ e.after = a
        BY <3>3, <3>5, AddedItems
      <4> QED
        BY <3>4, <4>1 DEF AcceptedItems
    <3>6. AcceptedItems'
      <4> SUFFICES ASSUME NEW h \in Keys, NEW e \in Items(h)'
                   PROVE  [t \in TestCases |-> e.after] \in Interesting
        BY DEF AcceptedItems
      <4> QED
        BY <3>5
    <3> QED
      BY <2>1, <3>6
  <2>3. CASE ~options.useCache
    BY <1>1, <1>7, <2>1, <2>3 DEF CacheAdd
  <2> QED
    BY <2>2, <2>3
<1>8. CASE LeaveSession
  <2>1. cache' = [g \in Keys |-> <<>>] /\ file' = file
    BY <1>8 DEF LeaveSession
  <2>2. \A g \in Keys : Items(g)' = {}
    BY <2>1 DEF Items
  <2> QED
    BY <2>1, <2>2 DEF AcceptedItems
<1> QED
  BY <1>2, <1>3, <1>4, <1>5, <1>6, <1>7, <1>8 DEF Next, Step, Terminated

\* With one test case a hit puts in place only what the interestingness test has
\* accepted (TestManager.run_passes_for_test_case); with several it need not.
THEOREM OneTestCaseInteresting ==
  ASSUME NEW only, TestCases = {only}
  PROVE  Spec => []InterestingKept
<1>1. Init => AcceptedItems /\ InterestingKept
  <2> SUFFICES ASSUME Init PROVE AcceptedItems /\ InterestingKept
    OBVIOUS
  <2>1. \A g \in Keys : Items(g) = {}
    BY DEF Init, Items
  <2> QED
    BY <2>1 DEF Init, AcceptedItems, InterestingKept
<1>2. PlaceInv /\ CacheInv /\ (AcceptedItems /\ InterestingKept) /\ [Next]_vars
        => (AcceptedItems /\ InterestingKept)'
  BY NextAccepted
<1> QED
  BY <1>1, <1>2, CacheInvariant, PTL DEF Spec
=============================================================================
