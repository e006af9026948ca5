# C-Vise: a verification project

C-Vise takes a test case (a C or C++ file, or a directory of files) and a script
that decides whether a variant of it is still *interesting*, and makes the test
case as small as it can. It runs many *passes*, each of which knows one way of
making the text smaller, and tries their suggestions in parallel.

The part of it that is hard to get right is not how one pass cuts the text but
how dozens of passes, a pool of worker processes and one ever-changing test case
are kept together: results come in any order, some never come, a success makes
everything else that is under way obsolete, passes feed each other hints that
become stale, directories change hands, subprocesses outlive the workers that
started them, and a signal may come between any two instructions. That is what is
modelled here, together with the arithmetic of the edits themselves. Python paths
below are relative to `src/cvise/`.

## 1. Inventory

### Components

| Component | Code | State | Operations | Modelled in |
|---|---|---|---|---|
| TestManager | `utils/testing.py` | `PassContext` per pass (stage, state, root directory, counters, running and succeeded states), jobs, success candidate, restart queue, order counter | `run_passes`, `run_parallel_tests`, `maybe_schedule_job`, `schedule_{init,transform,fold}`, `process_done_futures` and handlers, `process_result` | `Scheduler`; the calls of `run_passes` in `Session`; waiting and signals in `Interruption` |
| FoldingManager | `utils/folding.py` | fold candidates, failed and attempted folds | success and failure callbacks, `maybe_prepare_folding_job`, `continue_attempting_folds` | `Folding` (operators), `Scheduler` (state) |
| Elementary enumerations | `passes/abstract.py` | a range in a list of hints | `create`, `advance`, `advance_on_success` of `BinaryState` and `SubsegmentState` | `Enumeration` |
| HintState, HintBasedPass | `passes/hint_based.py` | one enumeration per hint type, a pointer, special hints | `new`, `advance`, `advance_on_success`, `transform` | `HintEnumeration`; seen from afar in `Scheduler` |
| TmpDirManager | `utils/fileutil.py` | `_dirs`, the root on the disk, a janitor thread | `create_dir`, `delete_dir`, `__exit__`, the janitor's loop | `TmpDirs`; by name in `Scheduler` |
| Replacing the test case | `utils/fileutil.py` | the test case on the disk | `replace_test_case_atomically` | `Replacement` |
| Signals | `utils/sigmonitor.py` | observed signals, a future | deferred and repeated signals, checkpoints | `SignalMonitor`, `Interruption` |
| Cache | `utils/cache.py` | results per pass group and hash, a directory each | `lookup`, `add` with eviction, `__exit__` | `Session` |
| Driver | `cvise.py` | sizes, thresholds | loop over categories, termination check | `Session` |
| Process monitoring | `utils/process.py` | children per worker, recently dead workers, killer's queue | `run_process`, the pool's hooks, monitor and killer threads | `Processes` |
| Hint algebra | `utils/hint.py` | none | apply, merge, subtract | `HintAlgebra`, `Edits` |
| clex | `src/clex/driver.c`, `passes/clex.py`, `passes/clexhints.py` | the tokens of a file, the index of the pass | `rm-toks`, `rm-tok-pattern`, `rename-toks`, `delete-string`, `shorten-string`, `hints-toks` | `Clex`, `Edits` |
| Logging | `utils/mplogging.py` | ignored jobs, a queue | listener thread, workers' handlers | no |
| Other passes | `passes/*.py` | none but their state argument | finding and applying hints, legacy transformations | as arbitrary hints and outcomes |
| Nested matcher, makefile parser | `utils/` | none | text matching | no |
| Statistics, errors, keys, programs | `utils/` | counters | - | no |
| `clang_delta`, `delta`, `treesitter_delta`, `clang_include_graph` | C++ beside `cvise/` | none between runs | separate programs | no |
| `tree-sitter`, `tree-sitter-cpp` | third-party, generated | - | - | no |

### How they interact

The driver runs categories of passes, some once, some until nothing gets smaller.
Each call of `run_passes` visits the test cases, the largest first; if the cache
knows what these passes made of this content, its result is put in place,
otherwise there are *batches*. In a batch, `maybe_schedule_job` is called while
workers are free; it prefers to initialize a pass, then to restart a finished
one, then to attempt a fold of the successes so far, then to try the next state
of the pass with the fewest jobs. The main thread blocks in `wait()`, then looks
at every job that is done. A success becomes the *candidate* if it is better than
the one before. When the batch has gone on long enough (at once when passes run
one at a time) all other jobs are cancelled, and `process_result` replaces the
test case, rewinds each pass to the earliest state that was still being checked
and marks it to be initialized again.

A hint-based pass finds its hints in an init job, which writes them to a
directory. The directory becomes the pass' root; transformations, folds and the
init jobs of passes that declare these hints as inputs read it. Cancelling a job
ends a worker process; what the worker had started is found by the monitor
thread in the reports of start and end, and ended by the killer thread.

### Behaviour that is hard

- *Order of results.* Any subset of the jobs may be done at any look, in any
  order; a cancelled job must count as never tried.
- *Obsolete work.* No job, state or hint carries the version of the test case it
  was made for. That nothing obsolete is ever used follows from which passes are
  initialized again, from the jobs that are cancelled and from the restart rule.
- *Shared directories.* A pass' directory is deleted when its next init job
  finishes, while others may be reading it.
- *Rewinding.* An enumeration may be continued at a state that is neither the
  last nor the one that succeeded, in a list of hints that got shorter.
- *Two threads on one directory.* The janitor deletes what it looked at earlier.
- *Signals.* One comes between a look and a wait, during the replacement of the
  test case, or in the handler of another one.
- *Orphans.* The report of a subprocess arrives before its worker is known, or
  after it is dead; trees of processes grow while they are being killed.
- *Results out of context.* A cached result was tested beside other contents of
  the other test cases.
- *Positions.* Hints meet in one text, and hints that were made for it are moved.

### What makes the components correct

TestManager: work is always about the current version; inputs exist while they
are read; every directory has one owner; assertions never fail; the loop ends,
and only when there is nothing to do; no unchecked state is passed over.
FoldingManager: a fold extends the best success. Enumerations: ranges
are valid, every hint is tried alone, the enumeration ends. TmpDirManager: no
directory in use is deleted; leftovers are. Replacing: at every moment the old or
the new test case can be recovered. Signals: one that was noted ends the program.
Cache: entries say what passes of their names made, and own their directories. Driver: the
loops end. Processes: nothing that a living worker is busy with is killed, and
nothing that was reported survives. Edits: merging and applying are the union of
the patches, positions follow, what a command of clex should try is tried.

The hazards, each at its line, are in `PROJECT.json`.

## 2. Plan

Order: what decides which reduction is made comes first, then what it stands on.

1. `Folding`, `Scheduler`, `Reduction`: done, with the proofs below.
2. `Enumeration`, `HintEnumeration`: done, with proofs.
3. `TmpDirs`: done.
4. `SignalMonitor`, `Replacement`, `Interruption`: done, with proofs.
5. `Processes`: done, with proofs of the invariants; the task-loss workaround is
   left.
6. `Session`: done, with proofs of the invariants of the cache.
7. `HintAlgebra`, `Clex`, `Edits`: done for one file, with proofs of every
   property but the end of the pass; left: hints that remove, paste and rename
   files, and several files in one run of clex.
8. Compositions still to do: `Scheduler`'s rows of positions implemented by
   `HintState`; `Scheduler`'s directories by `TmpDirs`; a batch of `Session` by
   `Scheduler`.
9. Proofs still to do: that `advance` of an enumeration decreases a well-founded
   measure, and that a success of `rename-toks` leaves fewer names to be renamed;
   both are what the liveness properties, which only the model checker can
   conclude, stand on.

## 3. Modules

| Module | What it is |
|---|---|
| `Folding` | Operators of `FoldingManager`; random samples are sets of results |
| `Scheduler` | State machine of `TestManager`, one action per place in the main loop |
| `SchedulerProperties` | Invariants, action properties, liveness, the inductive invariants, the refinement mapping |
| `Reduction` | Abstract specification: a test case goes from version to version |
| `SchedulerProofs` | Proofs: types, then the inductive invariant of what is in flight and what follows from it |
| `SchedulerCommit` | Proofs about `process_result` (the refinement of `Reduction`, and what is rewound) and about the books of `TestManager`: running states, directories, folds, the loop's conditions |
| `Enumeration` | Operators of `BinaryState` and `SubsegmentState` |
| `HintEnumeration` | State machine of one hint-based pass on its own, with its properties |
| `HintEnumerationProofs` | Its proofs |
| `TmpDirs` | State machine of `TmpDirManager`'s two threads, properties and proofs |
| `SignalMonitor` | Signal handler and future |
| `Replacement` | `replace_test_case_atomically`, one action per system call |
| `Interruption` | The two composed with the main loop's checkpoints and its wait, and the properties |
| `InterruptionProofs` | Its proofs |
| `Processes` | Workers, subprocesses, monitor and killer, with the properties |
| `ProcessesProofs` | Its proofs |
| `Session` | Categories, pass runs and the cache, with the properties |
| `SessionProofs` | Proofs about the cache, and about when what it puts in place is interesting |
| `Ranking` | Operators: a finite set in its order |
| `HintAlgebra` | Operators: merging and applying patches, moving positions |
| `Clex` | State machine of a clex pass and the tool it calls |
| `Edits` | The two composed on one file, with the properties |
| `EditsProofs` | Its proofs |
| `MCScheduler`, `MCHints`, `MCTmpDirs`, `MCSession`, `MCEdits` | Small instances for the model checker |

Definitions whose comment calls them *faulty* are not used by the specifications;
each is a plausible mistake in the operator that follows it and shows that the
properties notice it.

### Scheduler and the code

`pc` is the place of the main thread. `StartTestCase` is the head of
`run_passes_for_test_case`, `StartBatch` that of `run_parallel_tests`, `TestLoop`
its condition and `AllWorkersBusy`, `NothingToSchedule` its two ways on.
`InitPass`, `RestartPass`, `FoldSuccesses` and `TransformPass` are the four
priorities of `maybe_schedule_job`, each with the whole `schedule_*` function.
`ResultsArrive` is the return of `wait()`. In `handle`, the jobs are looked at in
the order they were started; each is found running (`StillRunning`), timed out,
or done with one of the outcomes the handlers distinguish, and `ReleaseFinished`
releases the jobs at the end and decides whether the batch goes on. `DrainJobs`
cancels what is left and `ProcessResult` is `process_result` and the end of the
loop over batches. `Interrupt` is the `except` clause of `run_passes`.

The local variable `ready_hint_types` is a variable of its own (`readyTypes`)
because its age matters. A job's number stands for its temporary directory, and a
hint state is the directory its hints are in with a position in the enumeration;
position 0 is a state with special hints only. `Covers` says which positions are
parts of which (`subset_of`); `Gains` are the amounts by which a variant may be
smaller. The interestingness test, the transformations and the workers are the
free choice of each job's outcome.

A fold is a tuple that the code makes from a set (`folding.py:102`), and the
order in which a set is walked through is any (`Orders`). Attempted folds are
compared as tuples, so that the same states may be attempted again in another
order; that they may not is nowhere claimed, and what a fold does is that of its
set. The failed folds are a list, since half of each is banned at random.

### HintEnumeration and the code

`HintState.per_type_states` is a function from types, with `NoEnum` where the
tuple has no entry, and the pointer names a type instead of a place in the tuple;
the rule for the next type is the same. Hints are numbers that they keep when
others are removed, so that "this hint was tried" has a meaning across
reductions. `left` is what `generate_hints` would find. `HandleSuccess` takes
any set of jobs that are done, one of them the best success, and does what
`process_result` and the following init job do. Numbers of jobs start at 1 in
each batch; only their order matters to the code. `Collateral` are the types of
which a reduction may remove more than it cut; in the run these are all types, and
the proofs assume nothing of it. `tried` and `disturbed` are history. New hints after a reduction,
giving up and timeouts are left out.

### TmpDirs and the code

Each action ends where the other thread can come in between: the look at the
disk, the section under `_lock`, the system call. `inUse` is what callers hold.
`Stray` is a worker process that is being killed and still writes below the root,
which is outside the code and the reason for the janitor. Deleting a tree is one
step that may fail as a whole. What is below the root is a directory or a plain
file (`files`): `rmtree` ignores what it meets, but `unlink` raises it, and an
exception ends the janitor thread (`"dead"`), which is started only once.

### SignalMonitor, Replacement, Interruption and the code

`OnSignal` is `_on_signal`: a first signal is noted and resolves the future, a
repeated one raises. `Pending` is what `maybe_raise_exc` would raise.

In `Replacement` four places hold a version: the source, the temporary path, the
directory that is moved out of the way, and the test case. `step` is the next
system call. `FillByRename` and `FillByCopy` are the two ways of `shutil.move`,
which is a copy across file systems. `Handler` says where an exception goes: to
the `except` clause around the two renames if it is one of a signal, else through
`__exit__` of the temporary directory to `_cleanup_abnormal_exit`. Every system
call may fail (`Fails`); the `OSError` of the second rename has a name of its own
(`"renameerror"`), for the properties, and is handled like any other.

`Interruption` divides `wait()` in the look at the futures and the waiting for
them, since a signal between the two is seen by neither; the next job that ends
or runs into its timeout then wakes the loop. A repeated signal leaves whatever
the thread is at.

### Processes and the code

`StartWorker` to `WorkerEnds` are `ProcessEventNotifier.run_process` in a worker:
the start of a subprocess, the report of it, and the report of its end are three
steps, and the worker may be killed between any two. `OnWorkerStarted` and
`OnWorkerStopped` are the hooks, each the section under the lock; what it hands to
the killer follows one by one (`PoolAsks`). The monitor takes an event under the
lock (`MonitorTakes`) and hands on after it (`MonitorAsks`). The killer drops a
task of a process that is gone, takes a due one, signals the processes of its
tree one at a time while they fork and end, and leaves a task for those that have
yet to die. The killer's times are left out: a task is due at any time. A process
that is sent a soft signal may ignore it. `StopPool`, `PutSentinel`,
`MonitorEnds` and `KillerEnds` are the way out. `_recent_dead_workers` is a
deque that drops the oldest beyond its length (`Latest`), which may be any number;
an event of a worker that it has dropped is taken for one of a worker that is yet
to start, as in the code, and `late` notes the worker. `known`, `condemned` and
`late` are history.

### Session and the code

A batch is one step: a success that the script accepts, or the end of the pass
run. `Makes` is what a pass can make of a content; `Interesting` is a set of
contents of all test cases together, because the script is run on all of them.
`LastSuccess` has the three limits: growth beyond three times the size at the
beginning of the pass run, `--skip-after-n-transforms`, and `max-transforms` of a
pass. `CacheAdd` follows every pass run that is not cut short. `Add` evicts the
entry of the same content, else the oldest. A hash is the content. `Key` is what
`repr` makes of the passes: class, argument and `max-transforms` of each
(`ReprOf`), and nothing of the other settings, so that different groups may share
a key.

### HintAlgebra, Clex, Edits and the code

A patch has a left and a right position and a size of replacement, or none. The
file after applying is the sequence of the original positions that are left, with
`Inserted` for characters of a replacement: two outcomes are the same exactly if
they are the same text for every text. The merged patch keeps the value of the
first one, as the code does. A loop over the patches, over the characters of the
strings or over the names that `find_unused_name` tries is a recursive function of
the number of its turns, so that what holds after each turn can be stated and
proved. Each token of clex is one character of the file that
hints refer to. The lexer reads comments without making tokens of them
(`clex.l:136`), so that between, before and after tokens there may be characters
of no token (`start_pos`, `Layouts`): hints, which are positions in the file, keep
a comment that is not between two tokens they cut together, and `rm-toks`, which
prints tokens, loses all comments. `HintsAgree` says so. What clex prints is taken
to be read again as the same tokens. A token's text is a sequence of letters, so
that the order of names (`strcmp`, `next_name`) is the real one with fewer letters.
That a generated name may be a keyword that the file does not have (`do`, `if`) is
outside of the model and of `NamesKeptApart`. Space takes part in
cutting as in `rm_toks`, `rm_tok_pattern` and `hints_toks`, whose loops differ.
`ClexAssumption` has what `main` asserts of the number in the command
(`driver.c:565`, `driver.c:572`), and that the lexer gives tokens of the same text
the same kind; `Written` keeps a string apart from a name of the same letters,
since the text of the token has its quotes.
The pass is the same for all commands: an index that is kept after a success and
incremented otherwise, until clex answers `STOP`. `tried` is history.

## 4. Runs

| Run | Instance | What it shows |
|---|---|---|
| `feeder` | 2 interleaved passes, the first feeds the second; 2 workers, enumerations of 2 states, folds, 2 reductions, 1 timeout to defunct, fair | `TypeOK`, `FreshWork`, `InputsAlive`, `RunningMatchesJobs`, `TempDirsOwned`, `QueueSound`, `NothingUncheckedIsSkipped`, `ReductionSpec`, `BatchEnds`, `FoldExtendsBest`, `IndependentWorkExhausted` |
| `sequential` | 1 legacy pass of 3 states on 2 test cases, not interleaved | `SucceededStateSupplied`, `FirstSuccessIsTaken` |
| `hints` | hints 4 + 2, one type bisected and one in segments, 2 jobs, collateral effects on both, fair | `HintsInv`, `RangesValid`, `EveryBisectedHintTriedAlone`, `EnumerationEnds` |
| `tmp_dirs` | 3 names, fair | `UsedDirsSafe`, `LeftoversVanish` |
| `interruption` | file and directory, move and copy, any failing call, up to 3 signals, fair | `SwapInv`, `FileAlwaysThere`, `NeverLost`, `InPlaceAtEnd`, `NothingLeftBeside`, `ReturnMeansReplaced`, `SignalEndsProgram` |
| `session` | 2 test cases, 5 contents, two shrinking passes of one name, a growing and a renaming pass, an initial category and a loop, 4 command lines, with and without `--start-with-pass`, fair | `CacheSound`, `CacheDirsOwned`, `SessionEnds` |
| `processes` | 2 workers, 2 processes, a memory for 1 dead worker, fair threads of the main process | `OnlyAbandonedKilled`, `BooksAreRight`, `NothingSurvives`, `AbandonedEnds` |
| `edits` | every file of up to 5 tokens for `rm-toks`, with up to 2 characters of comments, every one of 3 strings or names for the others, all bundles of up to 3 patches in 4 characters, fair | `PatchesApply`, `PositionsFollow`, `HintsAgree`, `SweepIsComplete`, `NamesKeptApart`, `PassEnds` |
| `stale_ready`, `skipped_hint`, `cache_hit`, `swap_fails` | as above | a disagreement each, below |

The inductive invariants of section 5, which the proofs establish for every
instance, were checked on these instances before they were proved; the runs check
what follows from them.

### Bounds, and why they are enough

*Scheduler.* Two passes are the least with which one depends on, overtakes or
outlives another. Two workers give every order of two results and a job that is
cancelled while another succeeds. An enumeration of two states has a first and an
earlier one to rewind to, and a state that is part of another; `sequential` has
three. `GiveUp`, `RestartInterval` and `JobCountFactor` stand for 50000, 20 and
10: each is small enough for its limit to be crossed. `FoldInterval` is the 5 of the
code, and a batch is long enough for a fold to be attempted after one that was the
best success.
`SkipAfter` bounds the number of reductions by an option the program has, so that
counters stay bounded without a constraint: two reductions let a pass be
initialized, rewound, left in the restart queue and initialized again. In this
instance no fold is attempted in a batch after one has failed, so that a fold drawn
around a failed one, which the operator `Bans` allows, comes up in the proofs only.

*Hints.* Four hints of one type are halved twice, and with three left there is a
remainder; two of the other let its sub-states end earlier. Two jobs at a time
leave one unfinished before a success. Without the exemption for `disturbed` the
checker finds a hint that was skipped, so that collateral effects bite here.

*TmpDirs.* Three names leave one free and one unknown while one is used; what is
unknown may be a file or a directory.

*Interruption.* `MaxSignals` = 3: one that is noted, one that raises, one that
raises in the handler of the other. Each system call may fail.

*Session.* Contents 0 to 4, where 0 is the empty one and 3 and 4 have one size;
`MaxItems` = 3 is below the number of non-empty contents, so that entries are
evicted; `MaxSuccesses` = 3 bounds the successes of one pass run, after which its
enumeration is taken to be through. The growing pass triples a byte, which is the
limit of growth.

*Processes.* Two workers and two processes: a worker that follows another, two
subprocesses at a time, or one with a child. `MaxRecent` = 1
remembers the one that died last, so that the other is forgotten, with events of
it still to be read.

*Edits.* `MaxPatches` = 3: two that overlap and one that overlaps with their
merger only. Four characters leave room for patches that are empty, adjacent,
nested and apart. Windows of two and three tokens; two lowercase letters and one
that is not, names of up to two letters. `CommentChars`: two characters of comments
fit in front of, between and after the tokens, together or apart.

Deadlock is checked in every run but `edits`: the specifications end in an
explicit `Terminated` or `Finished` step. A clex pass ends when clex says `STOP`,
and hints stop being added at the bound.

### Fairness

`Scheduler` asks for weak fairness of the main thread's steps together: the
thread is never starved, and `wait()` returns, because every job is resolved,
timed out by the pool, or cancelled by `workaround_missing_timeouts`. No outcome
is assumed to come; no signal need arrive. `HintEnumeration`, `Session` and
`Edits` assume the same of their one thread. `TmpDirs` assumes that the janitor's
wait ends, and that a leftover that can be deleted again and again is deleted
some time (strong fairness of `Remove`): `rmtree` fails only while a dying
process still writes. `Interruption` assumes that the main thread goes on, that
a job ends or runs into its timeout, and that the loop does not find its results
in the cache for ever without going through a checkpoint or finishing (strong
fairness of the two): a category is repeated only while the test case shrinks.
`Processes` assumes that each thread of the main process goes on while it can;
nothing is assumed of workers and subprocesses, which may hang, fork or die.

### Disagreements found

- *`stale_ready`*: the condition of the main loop uses the hint types that were
  ready before the batch (`testing.py:908`). If the initialization of the last
  producer of a type ends with nothing to enumerate, and no job is left, the
  batch ends, although its consumer could be initialized now; without a success
  the whole test case is left. The comment at 917 names the only reason to stop.
  `IndependentWorkExhausted` is what remains true.
- *`skipped_hint`*: `SubsegmentState.advance_on_success` (`abstract.py:71`)
  assumes it continues from the success. Rewound to an earlier state at the end
  of the list, it wraps over when the list got shorter, and the hint that was
  still being checked is not tried again. Rewinding a bisection has no such gap;
  what it passes over is what moves under its index when hints before it vanish in
  the success of others (`EveryBisectedHintTriedAlone`).
- *`cache_hit`*: a cached result is put in place without a test
  (`testing.py:1002`). The key is the passes and the content of one test case;
  with several test cases the others may have changed since, and the combination
  was never tested. `CacheSound` is what remains true.
- *`swap_fails`*: the clause that brings a directory test case back catches the
  exceptions of signals only (`fileutil.py:196`). If the second rename itself fails
  with an `OSError`, the original is deleted together with the temporary directory
  it was moved to; `test_replace_dir_atomicity` calls the operation atomic.
  `NeverLost` and `InPlaceAtEnd` are what remains true: this is the only way.

Four more have no run of their own.

- `--start-with-pass` is looked for among the passes of the last run
  (`testing.py:956`), of which there is none; no pass is ever run, against
  `cvise-cli.py:222`. This is a theorem (`StartPassIsNeverFound`).
- The key of the cache prints class, argument and limit of the passes
  (`cache.py:55`, `abstract.py:170`). Groups that differ in strategy,
  `iterate_stds` or claimed files find each other's results, although
  `test_cache_lookup_per_pass` has each group find its own. `CacheSound` bounds
  the harm to passes of the same names, and `DistinctNamesOwnWork` shows that there
  is none where names differ.
- An `OSError` of the unguarded `unlink` (`fileutil.py:129`) ends the janitor
  thread; what `delete_dir` then fails to delete stays until the root goes, against
  the comment at 66. `LeftoversVanish` is what remains true.
- Contexts are replaced for each test case (`testing.py:994`) without deleting
  their directories; at the end, after a signal or normally, only those of the last
  test case are removed, against the comment at 979, and the others go with the
  root.

That dead workers are forgotten, and what they report then is kept for ever, is no
disagreement: the comment at `process.py:50` calls it practically unlikely.

## 5. Proofs

All theorems hold for every value of the constants allowed by the assumptions
named in the modules, which say no more than the types of the options and pass
declarations, that `run_passes` asserts interleaving for more than one pass, that
legacy passes have no hint types, that input types are declared by name, that a
group of passes may have at least one item in the cache (the code has the
constant 3), and that clex is called with numbers that it accepts
(`ClexAssumption`); comments may be of any length, and the memory of dead workers
as well. A hypothesis that only one theorem needs stands in its
statement.

*Scheduler.* `TypeCorrect` first. The safety invariants are not inductive, since
they say nothing of passes that have no job at the moment. `IndInv` is: call a
pass *current* if it was initialized in this batch. While a batch lasts, current
passes keep their directory, everything in flight uses directories of current
passes only, and a pass that is initialized but not current has nothing to
enumerate and feeds no pass in use, because `process_result` initializes all
others again. Only such passes are in the restart queue, so that initializing one
deletes a directory nobody reads. From `IndInv` follow `WorkIsFresh`,
`InputsStayAlive` and `QueueIsSound`.

`ImplementsReduction` maps jobs to attempts on the version of the test case at
the start of their batch; each step of the scheduler is a step of `Reduction` or
changes nothing of it, because at a commit nothing is in flight.

`NothingIsSkipped` needs that jobs of a pass were started in the order of its
enumeration (`EnumerationInv`): then the earliest running job is at the earliest
position, and rewinding to it passes over none.

`SchedulerCommit` adds an invariant for each of the other properties; all of them
rest on `IndInv`, which says which passes a job or a directory can be of.

- `RunningIsRight` has no strengthening: the running states and the jobs that are
  pending change together, and `JobsInv` keeps the orders of jobs apart.
- `TempDirsAreOwned` from `OwnedInv`. That nothing leaks is claimed for the first
  test case, since the contexts of the ones before are replaced without deleting
  their directories; that what is owned exists is claimed for all.
- `FirstSuccessEndsBatch` from `OneSuccessInv`: with a candidate and without
  interleaving the main thread is at one of four places, and none starts a job.
- `FoldsExtendTheBest` from `FoldPartsInv`: the candidate and the folds in flight
  are made of successes of this batch, of which there are finitely many, so that
  a fold with more states than the best adds to it, in whatever order they are.
- `SucceededStateIsSupplied` from `SuppliedInv`: without interleaving a pass that
  waits for an initialization and has a state was rewound by a success, since a
  batch that ends without one is not followed by another.
- `IndependentWorkIsExhausted` from `ExhaustedInv`: the loop is left only after
  nothing could be scheduled, and for a pass without inputs that does not depend
  on the types that were ready.

*HintEnumeration.* Lemmas show of each operation of both enumerations that its
result is `None` or a range that fits the number of hints it is given. `HintsInv`
says that all states in use fit the hints the test case has; a success re-numbers
hints and discards all states but one, which `advance_on_success` makes fit.
`RangesAreValid` follows: the assertion in `load_hints` cannot fail.

`BisectionIsComplete` needs `TriedInv`: of a bisected type, each hint that the
current state has gone past (`Passed`: the type is through, or single hints are
being tried and the hint is before the index) was tried alone or is being tried
by a job, and the jobs, in the order of their numbers, are not beyond one another
and not beyond the current state (`NotBefore`). A success may cancel the job that
tried a hint; but then `process_result` rewinds to the earliest state that was
running, which the order says is not past that hint. Other hints
of the type may vanish in the same success. Those beyond the index, or anywhere
before single hints are tried, do no harm; but the index stays where it is when
hints vanish that the state gone on from had passed one by one, and so moves past
as many that were not tried. A type to which this has happened is `disturbed`,
and `TriedInv` says nothing of it from then on. Nothing is assumed of
`Collateral`.

*TmpDirs.* What the janitor has yet to delete still exists, and the main thread
takes a name only if nothing of that name exists; so the two never meet.

*Interruption.* `SwapInv` says what lies where at each step of a replacement: the
test case is in its place until a directory is retired, and then whole in the
temporary directory; it depends on which exceptions have come and whether the
copy had been finished. Each action is looked at once for the replacement alone,
with an exception as one more step, and the composition adds only that the main
thread is at `replace` exactly while a replacement is under way. Everything
the run checks about the test case follows from it; an error of the second rename
is an exception like any other there, and the two about a directory say that it is
the only one after which it may be lost. A number of signals is no bound of
the proof: `exc` is a sequence of any length.

*Processes.* `OnlyAbandonedKilled` speaks of the killer, but depends on what the
monitor thinks of workers, and that on the reports in the queue. `ProcessesInv`
follows a process through them: a subprocess in `run_process` is that of one
worker that lives; a report or an entry that names it is of that worker and of
its start; a worker that is taken for dead is dead; and a process that is handed
to the killer is in nobody's `run_process`. The killer extends its targets to
descendants, which are never a worker's own, because a subprocess that a worker
runs is its child and not that of another subprocess.

`BooksStayRight` needs `BooksInv`: while events are on the queue, the books follow
behind. `Noted` is what a page will say when all are read, for which the last
event about a subprocess decides; of each worker that is not dead this is what it
is busy with and has reported. A page of a dead worker does not come back while it is
remembered (`DeadHaveNoPage`). Nothing is assumed of the length of the deque: a
worker that it has dropped is `late` from the moment an event of it is read, and
the invariants speak of all the others.

`NothingSurvivesExit` needs `SurvivorsInv`: a process that runs and was reported
is in the books, on the queue or on its way to the killer (`NothingIsLost`), and
the threads end in an order in which each has nothing left that the next would
have to know of (`ExitsInOrder`): the pool's hooks have removed all pages before
the sentinel, the sentinel is the last event that the monitor reads, and the
killer has no task left when it ends.

*Session.* `CacheDirsOwned` is inductive together with what the code has from its
dictionary, that the items of a group are of different contents (`CacheInv`):
otherwise `add()` would delete the directories of two items and one entry. It
evicts one item at most, whose directory nobody else has, and the new directory
is none of those left. `PlaceInv` says that a pass run is one of a call of a
category and has a test case, so that it has a key. `CacheStaysSound` adds that
during a pass run the test case is what its passes made of the content it began
with (`SoundInv`); an item belongs to a key, and to some group of that name.
`DistinctNamesOwnWork` concludes that a hit is the work of the passes that look it
up if no two groups have the same name. `StartPassIsNeverFound` is inductive as it
stands. Two more theorems say what the disagreement `cache_hit` needs:
without the cache (`WithoutCacheInteresting`), and with a single test case
(`OneTestCaseInteresting`), whatever is on the disk has passed the
interestingness test.

*Edits.* These theorems are about data: files of any length, any number of
patches. `EditsInv` says only what the variables are: the file is one of tokens
with kinds that fit their text, patches have places in it, and there are none but
for `hints-toks`. The work is in the loops. No induction rule of the library can
be instantiated by the prover, which takes no operator for a parameter; so a loop
is a function of the number of its turns, and a claim about all turns is proved of
the set of the turns that it holds of, by way of its least counterexample
(`Turns`). That such a function exists, and does each turn what its definition
says, is `Recursion`. What the sorted list of patches or places is, is in
`RankedLists`: it is a permutation in the given order, because the sizes of the
sets of predecessors are all different and so are all of the numbers below the
size of the whole.

- `PatchesAlwaysApply`. After each turn of the merging (`MergedWell`) the merged
  patches are apart and in order, the last one begins no later than the patch just
  read, and what they cover is what the patches read so far cover. It is here that
  the sorting key matters: the rule of the code for an overlap is right only for
  patches that come in the order of their left ends. After each turn of
  the applying (`Placed`) each character of a gap between merged patches is where
  the growth of the patches before it has moved it, and all others are insertions.
- `PositionsAlwaysFollow` is the same sum seen from a position: it is moved by the
  growth of all patches that end at it or before it, which are a prefix of the list
  since the patches are apart, and then back to the left end of the patch it is in.
- `HintsAlwaysAgree`: the counts of tokens up to two places differ by the tokens
  between them, so that the cuts of consecutive tokens with the spaces after each
  leave none out; the tokens they cover together are those that `rm_toks` does not
  print. Positions rise with places (`PositionsRise`), so that this is so whatever
  lies between tokens; a comment is cut if it is within one of the cuts.
- `NamesAlwaysKeptApart`: `next_name` leads from a name to a later one in the order
  of length first and letters second, so that the names it runs through are all
  different; there is one more of them than there are tokens, so that one of them is
  the text of none. Renaming to a text that no token has is one-to-one.
- `SweepAlwaysComplete` needs `SweepInv`: while nothing was interesting, the
  candidates of all indices below the present one were tried, and at `STOP` these
  are all. That everything that the command is for has an index is a lemma for each
  command: a place is found by the number of those before it, a character of a
  string by the number of characters up to it, and for `rm-tok-pattern` the first
  token of the cut gives the window and the others the bits of the pattern. Shifting
  the pattern reads off these bits one by one (`HalvesAgree`), any choice of bits is
  that of a number (`BitsExist`), and window and pattern are put together and taken
  apart again without loss (`IndexSplits`).

Only model-checked is all liveness: `BatchEnds`, `EnumerationEnds`,
`LeftoversVanish`, `SignalEndsProgram`, `SessionEnds`, `AbandonedEnds` and
`PassEnds`, which the prover does not support under fairness. Every invariant and
every action property of the runs that pass, and the refinement of `Reduction`,
has a theorem. What their statements exempt (`disturbed`, `late`, `SwapFailed`) is
named above.

## 6. Not modelled

*By size most of the repository.* Nearly all of its C and C++ is the generated
parser of `tree-sitter-cpp`, the third-party library `tree-sitter`, and the
transformations of `clang_delta`, each of which edits clang's syntax tree of a
C++ program once and exits. None of it keeps state between runs, has
concurrency or depends on an order of events, and its correctness is about the
semantics of C++. The program's own logic is the Python code in `cvise/`, and it
is that code the modules here follow; of the C code, clex has an enumeration
whose arithmetic is worth checking.

*Passes.* How they find hints in a text, and legacy transformations; a set of
hints or a candidate is any. Options that only choose among behaviours that are
all allowed here. The sanity check, backups, reports, statistics, key presses
and the command line.

*Logging across processes.* Records of jobs that were cancelled are dropped; it
has no effect but on which lines of the log are seen.

*Processes.* Ids of processes that are used again, the timeout of 60 seconds of
the join of the monitor thread, and the workaround for tasks that the pool has
lost, which looks into the pool's internals. A descendant whose parents ended
before the killer looked is not found by the code, and none of the properties
claims it; nor one that was never reported because its worker was killed between
the start of it and the report.

*Clex and hints.* The lexer but for comments, several files in one run, `x-string` and `define`,
the replacement of which may refer to itself; hints that remove, paste or rename
files; grouping, sorting, storing and loading of bundles.
