------------------------------ MODULE Session ------------------------------
(***************************************************************************)
(* A whole reduction: the categories of passes (CVise.reduce in             *)
(* cvise/cvise.py), the runs of their passes over the test cases            *)
(* (TestManager.run_passes in cvise/utils/testing.py) and the cache of what *)
(* such runs made of a content (cvise/utils/cache.py).                      *)
(*                                                                         *)
(* The batches of a pass run are in Scheduler.  Here a batch is one step: a *)
(* success that the interestingness test accepted is taken, or the run ends.*)
(***************************************************************************)
EXTENDS Naturals, FiniteSets, SequencesExt

CONSTANTS
    TestCases,      \* 1..n, in the order of the command line
    Contents,       \* what a test case can contain
    SizeOf,         \* [Contents -> Nat], in bytes
    Interesting,    \* the [TestCases -> Contents] that the script accepts
    Passes,
    ReprOf,         \* [Passes -> names]: repr() of a pass, its class, argument and limit
    Makes,          \* [Passes -> SUBSET (Contents \X Contents)]: their transformations
    MaxTransforms,  \* [Passes -> Nat]: "max-transforms" of the configuration; 0 for none
    Categories,     \* sequence of [passes, once, interleaving, initial]
    Available,      \* the passes whose prerequisites were found
    Options,        \* the command lines, as records of
                    \*   skipInitial: --skip-initial-passes
                    \*   skipAfter: --skip-after-n-transforms; 0 for none
                    \*   useCache: not --no-cache
    StartPasses,    \* the passes of --start-with-pass, NoPass for none
    NoPass,
    MaxItems,       \* Cache.MAX_ITEMS_PER_PASS_GROUP
    ThresholdNum, ThresholdDen,  \* --stopping-threshold as a fraction
    MaxSuccesses    \* bound: successes until a pass run has enumerated all

GrowthLimit == 3    \* MAX_PASS_INCREASEMENT_THRESHOLD

ASSUME SessionAssumption ==
    /\ IsFiniteSet(TestCases)
    /\ SizeOf \in [Contents -> Nat]
    /\ Interesting \subseteq [TestCases -> Contents]
    /\ MaxTransforms \in [Passes -> Nat] /\ Available \subseteq Passes
    /\ Options \subseteq [skipInitial : BOOLEAN, skipAfter : Nat, useCache : BOOLEAN]
    /\ {ThresholdNum, MaxSuccesses} \subseteq Nat /\ MaxItems \in Nat \ {0}
    /\ NoPass \notin Passes
    /\ ThresholdDen \in Nat \ {0}

VARIABLES
    pc,         \* category | call | files | run | add | round | done | failed
    category,   \* index into Categories
    call,       \* index into the calls of run_passes of this round
    sizeBefore, \* total size when the round began
    file,       \* [TestCases -> Contents], on the disk
    todo,       \* test cases that this call has still to visit
    start,      \* content that the pass run began with, hash_before_pass
    successes,  \* success_count
    options,    \* the command line's options
    startWith,  \* start_with_pass, reset when it is found
    contexts,   \* passes of pass_contexts
    origSize,   \* orig_total_file_size
    cache,      \* [Keys -> sequence of items], the oldest first
    dirs        \* cache directories that exist

where == <<pc, category, call, sizeBefore, todo>>
runVars == <<start, successes>>
vars == <<where, file, runVars, startWith, contexts, origSize, options, cache, dirs>>

\* sum of a function over the test cases: total_file_size
Total(f) ==
    LET sum[i \in 0..Cardinality(TestCases)] ==
            IF i = 0 THEN 0 ELSE sum[i - 1] + SizeOf[f[i]]
    IN sum[Cardinality(TestCases)]

\* The calls of run_passes for a category: one with all passes if they are
\* interleaved, else one for each.
CallsOf(cat) ==
    LET usable == SelectSeq(cat.passes, LAMBDA p : p \in Available)
    IN IF usable = <<>> THEN <<>>
       ELSE IF cat.interleaving THEN <<usable>>
       ELSE [i \in 1..Len(usable) |-> <<usable[i]>>]

Groups == UNION {{CallsOf(Categories[c])[i] : i \in DOMAIN CallsOf(Categories[c])}
                    : c \in DOMAIN Categories}

\* _key: what the passes of a run are called. Passes that are configured in
\* different ways (strategy, iterate-stds, claimed files) can be called the same.
FirstOnly(g) == <<ReprOf[g[1]]>>      \* faulty
Key(g) == [i \in DOMAIN g |-> ReprOf[g[i]]]
Keys == {Key(g) : g \in Groups}

Now == Categories[category]
Group == CallsOf(Now)[call]
Current == Head(todo)
Members(group) == {group[i] : i \in 1..Len(group)}

\* _met_stopping_threshold
ThresholdMet ==
    /\ Total(file) <= origSize
    /\ (origSize - Total(file)) * ThresholdDen >= ThresholdNum * origSize

\* sorted_test_cases: the largest first, else in the given order. There is one
\* such sequence.
Before(s, t) ==
    \/ SizeOf[file[s]] > SizeOf[file[t]]
    \/ SizeOf[file[s]] = SizeOf[file[t]] /\ s < t
SortedTestCases ==
    {s \in [1..Cardinality(TestCases) -> TestCases] :
        \A i, j \in 1..Cardinality(TestCases) : i < j => Before(s[i], s[j])}

Init ==
    /\ file \in Interesting     \* check_sanity
    /\ origSize = Total(file) /\ sizeBefore = Total(file)
    /\ pc = "category" /\ category = 1 /\ call = 1 /\ todo = <<>>
    /\ start \in {file[t] : t \in TestCases} /\ successes = 0
    /\ startWith \in StartPasses /\ options \in Options /\ contexts = <<>>
    /\ cache = [k \in Keys |-> <<>>] /\ dirs = {}

-----------------------------------------------------------------------------
(* Cache.  A faulty variant of each operation goes before it. *)

Items(k) == {cache[k][i] : i \in 1..Len(cache[k])}
Hits(k, content) == {e \in Items(k) : e.before = content}

\* The positions of what add() has to evict, at most one: the item of the same
\* content, else the oldest of a full group.
Evicted(items, content) ==
    LET same == {i \in 1..Len(items) : items[i].before = content}
    IN IF same # {} THEN same
       ELSE IF Len(items) >= MaxItems THEN {1} ELSE {}

\* What is left of the directories when old items are evicted; faulty: all.
AllKept(k, old) == dirs
Kept(k, old) == dirs \ {cache[k][i].dir : i \in old}

\* add: the directory of an evicted item is deleted, then one is made for the
\* new item, which becomes the youngest.
Add(k, before, after) ==
    LET old == Evicted(cache[k], before)
        left == Kept(k, old)
        dir == CHOOSE d \in 1..(Cardinality(left) + 1) : d \notin left
        rest == IF old = {} THEN cache[k] ELSE RemoveAt(cache[k], CHOOSE i \in old : TRUE)
    IN /\ cache' = [cache EXCEPT ![k] =
                        Append(rest, [before |-> before, after |-> after, dir |-> dir])]
       /\ dirs' = left \cup {dir}

-----------------------------------------------------------------------------
(* TestManager.run_passes and run_passes_for_test_case *)

\* The contexts of a pass run are made anew.
NewContexts == Group

\* The test case is left; the rest of the call is before us.
Leave == todo' = Tail(todo) /\ pc' = "files" /\ UNCHANGED <<category, call, sizeBefore>>

SkipEmpty ==
    /\ pc = "files" /\ todo # <<>> /\ SizeOf[file[Current]] = 0
    /\ Leave
    /\ UNCHANGED <<file, runVars, startWith, contexts, origSize, options, cache, dirs>>

CacheHit ==
    /\ pc = "files" /\ todo # <<>> /\ SizeOf[file[Current]] > 0
    /\ options.useCache
    /\ contexts' = NewContexts
    /\ \E e \in Hits(Key(Group), file[Current]) :
           file' = [file EXCEPT ![Current] = e.after]
    /\ Leave
    /\ UNCHANGED <<runVars, startWith, origSize, options, cache, dirs>>

StartPassRun ==
    /\ pc = "files" /\ todo # <<>> /\ SizeOf[file[Current]] > 0
    /\ options.useCache => Hits(Key(Group), file[Current]) = {}
    /\ contexts' = NewContexts
    /\ start' = file[Current] /\ successes' = 0
    /\ pc' = "run"
    /\ UNCHANGED <<category, call, sizeBefore, todo, file, startWith, origSize, options, cache, dirs>>

\* Whether the n-th success is the last of the pass run, given the size of
\* what it made.
LastSuccess(n, size) ==
    \/ size >= GrowthLimit * SizeOf[start]
    \/ options.skipAfter > 0 /\ n >= options.skipAfter
    \/ ~Now.interleaving /\ MaxTransforms[Group[1]] > 0 /\ n >= MaxTransforms[Group[1]]

\* A batch finds a success, which process_result puts in place.
BatchSucceeds ==
    /\ pc = "run" /\ successes < MaxSuccesses
    /\ \E p \in Members(Group), after \in Contents :
           /\ <<file[Current], after>> \in Makes[p]
           /\ file' = [file EXCEPT ![Current] = after]
           /\ file' \in Interesting
           /\ pc' = IF LastSuccess(successes + 1, SizeOf[after]) THEN "add" ELSE "run"
    /\ successes' = successes + 1
    /\ UNCHANGED <<category, call, sizeBefore, todo, start, startWith, contexts, origSize, options,
                   cache, dirs>>

\* A batch without a success, nothing left to try, or the key for skipping
PassRunEnds ==
    /\ pc = "run" /\ pc' = "add"
    /\ UNCHANGED <<category, call, sizeBefore, todo, file, runVars, startWith, contexts,
                   origSize, options, cache, dirs>>

CacheAdd ==
    /\ pc = "add"
    /\ IF options.useCache THEN Add(Key(Group), start, file[Current]) ELSE UNCHANGED <<cache, dirs>>
    /\ Leave
    /\ UNCHANGED <<file, runVars, startWith, contexts, origSize, options>>

\* restore_mode, remove_roots: the call returns.
NextCall == call' = call + 1 /\ pc' = "call" /\ UNCHANGED <<category, sizeBefore>>

CallReturns ==
    /\ pc = "files" /\ todo = <<>>
    /\ NextCall
    /\ UNCHANGED <<todo, file, runVars, startWith, contexts, origSize, options, cache, dirs>>

-----------------------------------------------------------------------------
(* CVise.reduce, _run_pass_category and _run_passes *)

NextCategory == category' = category + 1 /\ pc' = "category"

SkipCategory ==
    /\ pc = "category" /\ category \in DOMAIN Categories
    /\ options.skipInitial /\ Now.initial
    /\ NextCategory
    /\ UNCHANGED <<call, sizeBefore, todo, file, runVars, startWith, contexts, origSize, options,
                   cache, dirs>>

BeginRound == call' = 1 /\ sizeBefore' = Total(file) /\ pc' = "call"

BeginCategory ==
    /\ pc = "category" /\ category \in DOMAIN Categories
    /\ ~(options.skipInitial /\ Now.initial)
    /\ BeginRound
    /\ UNCHANGED <<category, todo, file, runVars, startWith, contexts, origSize, options, cache, dirs>>

\* Passes that are not interleaved are not run once the test case is small
\* enough; categories that run once do not ask.
Enough == ~Now.once /\ ~Now.interleaving /\ ThresholdMet

RoundReturns ==
    /\ pc = "call" /\ (call \notin DOMAIN CallsOf(Now) \/ Enough)
    /\ pc' = "round"
    /\ UNCHANGED <<category, call, sizeBefore, todo, file, runVars, startWith, contexts,
                   origSize, options, cache, dirs>>

\* run_passes returns at once unless the pass to start with is among the
\* contexts of the last call.
NotFoundYet == startWith # NoPass /\ startWith \notin Members(contexts)

CallIsSkipped ==
    /\ pc = "call" /\ call \in DOMAIN CallsOf(Now) /\ ~Enough
    /\ NotFoundYet
    /\ NextCall
    /\ UNCHANGED <<todo, file, runVars, startWith, contexts, origSize, options, cache, dirs>>

BeginCall ==
    /\ pc = "call" /\ call \in DOMAIN CallsOf(Now) /\ ~Enough
    /\ ~NotFoundYet
    /\ startWith' = NoPass
    /\ IF Total(file) = 0
       THEN pc' = "failed" /\ UNCHANGED todo     \* ZeroSizeError
       ELSE pc' = "files" /\ todo' \in SortedTestCases
    /\ UNCHANGED <<category, call, sizeBefore, file, runVars, contexts, origSize, options, cache, dirs>>

\* The check of a category that loops. A faulty variant goes on while the size
\* has not grown.
NotLarger == Total(file) <= sizeBefore /\ ~ThresholdMet
AnotherRound == ~(Total(file) >= sizeBefore \/ ThresholdMet)

EndRound ==
    /\ pc = "round"
    /\ IF ~Now.once /\ AnotherRound
       THEN BeginRound /\ UNCHANGED category
       ELSE NextCategory /\ UNCHANGED <<call, sizeBefore>>
    /\ UNCHANGED <<todo, file, runVars, startWith, contexts, origSize, options, cache, dirs>>

\* The end of the program, also after ZeroSizeError: Cache.__exit__
LeaveSession ==
    /\ pc = "failed" \/ (pc = "category" /\ category \notin DOMAIN Categories)
    /\ pc' = "done"
    /\ cache' = [k \in Keys |-> <<>>]
    /\ dirs' = dirs \ UNION {{e.dir : e \in Items(k)} : k \in Keys}
    /\ UNCHANGED <<category, call, sizeBefore, todo, file, runVars, startWith, contexts, origSize, options>>

Terminated == pc = "done" /\ UNCHANGED vars

Step ==
    \/ SkipCategory \/ BeginCategory \/ RoundReturns \/ CallIsSkipped \/ BeginCall
    \/ SkipEmpty \/ CacheHit \/ StartPassRun \/ BatchSucceeds \/ PassRunEnds
    \/ CacheAdd \/ CallReturns \/ EndRound \/ LeaveSession

Next == Step \/ Terminated

Spec == Init /\ [][Next]_vars

\* The program is one thread that goes on while it can.
FairSpec == Spec /\ WF_vars(Step)

-----------------------------------------------------------------------------
(* Properties *)

\* The sets of contents that the transformations of a group do not lead out of;
\* what they can make of a content is in every such set that has the content.
ClosedUnder(g) ==
    {S \in SUBSET Contents :
        \A b \in S, a \in Contents : (\E p \in Members(g) : <<b, a>> \in Makes[p]) => a \in S}
MadeFrom(g, before, after) == \A S \in ClosedUnder(g) : before \in S => after \in S

\* Whether the passes of a group are called so, one by one.
Named(g, k) == DOMAIN g = DOMAIN k /\ \A i \in DOMAIN g : ReprOf[g[i]] = k[i]

\* An item of the cache (Cache.add) says what one group of passes of these names
\* can make of its content, and no other pass has a part in it: a hit never
\* brings in the work of a pass whose name is not that of one to be run here.
CacheSound ==
    \A k \in Keys : \A e \in Items(k) :
        \E g \in Groups : Named(g, k) /\ MadeFrom(g, e.before, e.after)

\* What a hit brings in was added for the passes that look it up, so that they
\* could have made it themselves (test_cache_lookup_per_pass: each group of
\* passes finds what was added for it). True only where no two groups of passes
\* are called the same.
HitIsOwnWork ==
    pc = "files" /\ todo # <<>> =>
        \A e \in Hits(Key(Group), file[Current]) : MadeFrom(Group, e.before, e.after)

\* The directories of the cache on the disk are those of its items, one for
\* each, at most MAX_ITEMS_PER_PASS_GROUP to a key, and none is left behind
\* (Cache.add, Cache.__exit__).
CacheDirsOwned ==
    /\ dirs = UNION {{e.dir : e \in Items(k)} : k \in Keys}
    /\ \A k \in Keys : Len(cache[k]) <= MaxItems
    /\ \A g, h \in Keys : \A i \in 1..Len(cache[g]), j \in 1..Len(cache[h]) :
           cache[g][i].dir = cache[h][j].dir => g = h /\ i = j
    /\ pc = "done" => dirs = {}

\* Where the program is: a run of passes is in a call of a category and has a
\* test case.
PlaceInv ==
    /\ pc \in {"category", "call", "files", "run", "add", "round", "done", "failed"}
    /\ file \in [TestCases -> Contents] /\ todo \in Seq(TestCases) /\ start \in Contents
    /\ pc \in {"call", "files", "run", "add", "round"} => category \in DOMAIN Categories
    /\ pc \in {"files", "run", "add"} => call \in DOMAIN CallsOf(Now)
    /\ pc \in {"run", "add"} => todo # <<>>

\* CacheDirsOwned, and that the items of a key are of different contents, as
\* they are the entries of a dictionary: add() evicts one at most.
CacheItem == [before : Contents, after : Contents, dir : Nat \ {0}]
CacheInv ==
    /\ cache \in [Keys -> Seq(CacheItem)] /\ IsFiniteSet(dirs)
    /\ CacheDirsOwned
    /\ \A k \in Keys : \A i, j \in 1..Len(cache[k]) :
           cache[k][i].before = cache[k][j].before => i = j

\* CacheSound, and that the pass run has made what there is of what it began with.
SoundInv ==
    /\ CacheSound
    /\ pc \in {"run", "add"} => MadeFrom(Group, start, file[Current])

\* The loop over a category ends ("Termination check"), also with passes that
\* undo each other's work or make the test case grow.
SessionEnds == <>(pc = "done")

\* The test cases on the disk have the property of interest whenever the program
\* stops (README.md:15): what the cache puts in place was tested, but in another
\* context.
InterestingKept == file \in Interesting
=============================================================================
