----------------------------- MODULE Processes -----------------------------
(***************************************************************************)
(* The processes that jobs start (cvise/utils/process.py): workers of the   *)
(* pool run one subprocess at a time and report its start and end on a      *)
(* queue; a monitor thread keeps the books; when a worker is stopped, a     *)
(* killer thread ends the subprocesses that it left, with their             *)
(* descendants.                                                             *)
(*                                                                         *)
(* The operating system, Pebble's pool and psutil are external: a worker is *)
(* started once, and process ids are not reused.                            *)
(***************************************************************************)
EXTENDS Naturals, FiniteSets, Sequences, Functions

CONSTANTS
    Workers,    \* ids of the workers that the pool starts one after another
    Procs,      \* ids of subprocesses and their descendants
    None,
    MaxRecent   \* length of _recent_dead_workers, parallel_tests * 10

Events == [worker : Workers, child : Procs, type : {"started", "finished", "orphaned"}]
Tasks == [hard : BOOLEAN, proc : Procs]

ASSUME ProcessesAssumption ==
    /\ MaxRecent \in Nat
    /\ None \notin Workers \cup Procs \cup Events \cup Tasks /\ Workers \cap Procs = {}

VARIABLES
    \* the operating system and the workers
    proc,       \* [Procs -> {"unborn", "running", "gone"}]
    parent,     \* [Procs -> Workers \cup Procs \cup {None}], None for init
    life,       \* [Workers -> {"unborn", "alive", "dead"}]
    current,    \* [Workers -> Procs \cup {None}]: the subprocess in run_process
    told,       \* workers that have reported the start of their current one
    queue,      \* pid_queue: events [worker, child, type], or None, the sentinel
    \* the main process
    hook,       \* [Workers -> {"none", "started", "stopped"}]: calls of the hooks
    tracked,    \* _worker_to_child_pids, a function on some workers
    recentDead, \* _recent_dead_workers
    poolKills,  \* subprocesses that on_worker_stopped has still to hand on
    monitorKill, \* subprocess that the monitor has still to hand on, or None
    tasks,      \* the killer's queue: [hard, proc]
    job,        \* the task that the killer is at, or None
    targets,    \* processes that it has still to signal
    survivors,  \* processes to which it has sent SIGTERM
    phase,      \* "run" | "stopping" | "closing" | "shutdown" | "ended"
    \* history
    known,      \* [Procs -> Workers \cup {None}]: who has reported the start
    condemned,  \* processes that the killer has set out to kill
    late        \* workers of which an event was read when recentDead had dropped them

osVars == <<proc, parent>>
workerVars == <<life, current, told, queue, known>>
monitorVars == <<hook, tracked, recentDead, poolKills, monitorKill, late>>
killerVars == <<tasks, job, targets, survivors, condemned>>
vars == <<osVars, workerVars, monitorVars, killerVars, phase>>

Event(w, p, type) == [worker |-> w, child |-> p, type |-> type]
Task(hard, p) == [hard |-> hard, proc |-> p]

Init ==
    /\ proc = [p \in Procs |-> "unborn"] /\ parent = [p \in Procs |-> None]
    /\ life = [w \in Workers |-> "unborn"] /\ current = [w \in Workers |-> None]
    /\ told = {} /\ queue = <<>> /\ known = [p \in Procs |-> None]
    /\ hook = [w \in Workers |-> "none"]
    /\ tracked = [w \in {} |-> {}] /\ recentDead = <<>>
    /\ poolKills = {} /\ monitorKill = None
    /\ tasks = {} /\ job = None /\ targets = {} /\ survivors = {} /\ condemned = {} /\ late = {}
    /\ phase = "run"

Running(p) == proc[p] = "running"

-----------------------------------------------------------------------------
(* The operating system *)

\* A process ends; init takes its children.
EndOf(p) ==
    /\ proc' = [proc EXCEPT ![p] = "gone"]
    /\ parent' = [q \in Procs |-> IF parent[q] = p THEN None ELSE parent[q]]

Fork(p, q) ==
    /\ Running(p) /\ proc[q] = "unborn"
    /\ proc' = [proc EXCEPT ![q] = "running"]
    /\ parent' = [parent EXCEPT ![q] = p]
    /\ UNCHANGED <<workerVars, monitorVars, killerVars, phase>>

\* A subprocess ends by itself, or because its worker (_kill, on a timeout) or
\* the killer's SIGTERM told it to.
ProcExit(p) ==
    /\ Running(p)
    /\ EndOf(p)
    /\ UNCHANGED <<workerVars, monitorVars, killerVars, phase>>

\* psutil's children(recursive=True), and the process itself: what is in every
\* set that holds p and the running children of its members
ClosedUnderChildren(S) == \A q \in Procs : Running(q) /\ parent[q] \in S => q \in S
Tree(p) == {q \in Procs : \A S \in SUBSET Procs :
                               p \in S /\ ClosedUnderChildren(S) => q \in S}

-----------------------------------------------------------------------------
(* Workers: ProcessEventNotifier.run_process *)

\* MPProcessHook.start starts the process, which runs before the hook is called.
StartWorker(w) ==
    /\ phase = "run" /\ life[w] = "unborn"
    /\ life' = [life EXCEPT ![w] = "alive"]
    /\ UNCHANGED <<osVars, current, told, queue, known, monitorVars, killerVars, phase>>

Spawn(w, p) ==
    /\ life[w] = "alive" /\ current[w] = None /\ proc[p] = "unborn"
    /\ proc' = [proc EXCEPT ![p] = "running"]
    /\ parent' = [parent EXCEPT ![p] = w]
    /\ current' = [current EXCEPT ![w] = p]
    /\ UNCHANGED <<life, told, queue, known, monitorVars, killerVars, phase>>

NotifyStart(w) ==
    /\ life[w] = "alive" /\ current[w] # None /\ w \notin told
    /\ queue' = Append(queue, Event(w, current[w], "started"))
    /\ told' = told \cup {w}
    /\ known' = [known EXCEPT ![current[w]] = w]
    /\ UNCHANGED <<osVars, life, current, monitorVars, killerVars, phase>>

\* _auto_notify_end: after the end of the subprocess, or after an exception
\* (a signal to the worker) that leaves it running.
NotifyEnd(w) ==
    /\ life[w] = "alive" /\ w \in told
    /\ queue' = Append(queue, Event(w, current[w],
                                    IF Running(current[w]) THEN "orphaned" ELSE "finished"))
    /\ told' = told \ {w}
    /\ current' = [current EXCEPT ![w] = None]
    /\ UNCHANGED <<osVars, life, known, monitorVars, killerVars, phase>>

\* The worker ends: by itself, through a signal's exception, or by SIGKILL at
\* any moment (a timeout or the cancellation of its job).
WorkerEnds(w) ==
    /\ life[w] = "alive"
    /\ life' = [life EXCEPT ![w] = "dead"]
    /\ parent' = [q \in Procs |-> IF parent[q] = w THEN None ELSE parent[q]]
    /\ current' = [current EXCEPT ![w] = None]
    /\ told' = told \ {w}
    /\ UNCHANGED <<proc, queue, known, monitorVars, killerVars, phase>>

-----------------------------------------------------------------------------
(* The hooks of the pool and the monitor thread: ProcessMonitor *)

Tracking(w) == IF w \in DOMAIN tracked THEN tracked[w] ELSE {}
Track(w, pids) ==
    tracked' = [v \in DOMAIN tracked \cup {w} |-> IF v = w THEN pids ELSE tracked[v]]

\* deque.remove, without the exception if there is nothing to remove
Without(s, w) ==
    IF w \notin Range(s) THEN s
    ELSE LET i == CHOOSE n \in 1..Len(s) : s[n] = w /\ \A m \in 1..(n - 1) : s[m] # w
         IN SubSeq(s, 1, i - 1) \o SubSeq(s, i + 1, Len(s))

OnWorkerStarted(w) ==
    /\ life[w] # "unborn" /\ hook[w] = "none"
    /\ hook' = [hook EXCEPT ![w] = "started"]
    /\ Track(w, Tracking(w))
    /\ recentDead' = Without(recentDead, w)
    /\ UNCHANGED <<osVars, workerVars, poolKills, monitorKill, late, killerVars, phase>>

\* A deque of length MaxRecent drops the oldest element.
Latest(s) == IF Len(s) > MaxRecent THEN Tail(s) ELSE s

OnWorkerStopped(w) ==
    /\ life[w] = "dead" /\ hook[w] = "started" /\ poolKills = {}
    /\ hook' = [hook EXCEPT ![w] = "stopped"]
    /\ recentDead' = Latest(Append(recentDead, w))
    /\ poolKills' = tracked[w]
    /\ tracked' = [v \in DOMAIN tracked \ {w} |-> tracked[v]]
    /\ UNCHANGED <<osVars, workerVars, monitorKill, late, killerVars, phase>>

\* Whether an event comes from a worker that is dead. Faulty: a worker that is
\* not in the books is taken for dead.
NotInTheBooks(w) == w \notin DOMAIN tracked
Posthumous(w) == w \in Range(recentDead)
Forgotten(w) == hook[w] = "stopped" /\ ~Posthumous(w)

\* Whether the subprocess of an event is to be killed. Faulty: only when its
\* worker says so.
OrphansOnly(e) == e.type = "orphaned"
ShouldKill(e) == Posthumous(e.worker) \/ e.type = "orphaned"

\* The worker's set after an event. Faulty: the end of one is not noted.
KeptChildren(e) == Tracking(e.worker) \cup {e.child}
Children(e) ==
    IF e.type = "started" THEN Tracking(e.worker) \cup {e.child}
    ELSE Tracking(e.worker) \ {e.child}

\* _on_pid_queue_event, under the lock
MonitorTakes ==
    /\ queue # <<>> /\ Head(queue) # None /\ monitorKill = None
    /\ LET e == Head(queue) IN
        /\ IF Posthumous(e.worker) THEN UNCHANGED tracked
           ELSE Track(e.worker, Children(e))
        /\ monitorKill' = IF ShouldKill(e) THEN e.child ELSE None
        /\ late' = IF Forgotten(e.worker) THEN late \cup {e.worker} ELSE late
    /\ queue' = Tail(queue)
    /\ UNCHANGED <<osVars, life, current, told, known, hook, recentDead, poolKills,
                   killerVars, phase>>

-----------------------------------------------------------------------------
(* ProcessKiller *)

\* kill_process_tree: nothing if there is no such process any more
AddTask(p) == tasks' = IF Running(p) THEN tasks \cup {Task(FALSE, p)} ELSE tasks

PoolAsks(p) ==
    /\ p \in poolKills
    /\ poolKills' = poolKills \ {p}
    /\ AddTask(p)
    /\ UNCHANGED <<osVars, workerVars, hook, tracked, recentDead, monitorKill, late,
                   job, targets, survivors, condemned, phase>>

MonitorAsks ==
    /\ monitorKill # None
    /\ AddTask(monitorKill)
    /\ monitorKill' = None
    /\ UNCHANGED <<osVars, workerVars, hook, tracked, recentDead, poolKills, late,
                   job, targets, survivors, condemned, phase>>

\* The task that is on top of the heap: one to terminate if there is one, else
\* one to kill; their order among themselves is left open.
OnTop(t) == t \in tasks /\ (t.hard => \A u \in tasks : u.hard)

KillerDrops(t) ==
    /\ job = None /\ OnTop(t) /\ ~Running(t.proc)
    /\ tasks' = tasks \ {t}
    /\ UNCHANGED <<osVars, workerVars, monitorVars, job, targets, survivors, condemned, phase>>

\* Its time has come: the killer looks which processes there are.
KillerTakes(t) ==
    /\ job = None /\ OnTop(t) /\ Running(t.proc)
    /\ tasks' = tasks \ {t}
    /\ job' = t
    /\ targets' = Tree(t.proc) /\ survivors' = {}
    /\ condemned' = condemned \cup Tree(t.proc)
    /\ UNCHANGED <<osVars, workerVars, monitorVars, phase>>

\* terminate() or kill() for one of them; what is gone meanwhile is passed over.
KillerSignals(p) ==
    /\ p \in targets
    /\ targets' = targets \ {p}
    /\ IF job.hard /\ Running(p) THEN EndOf(p) ELSE UNCHANGED osVars
    /\ survivors' = IF ~job.hard /\ Running(p) THEN survivors \cup {p} ELSE survivors
    /\ UNCHANGED <<workerVars, monitorVars, tasks, job, condemned, phase>>

\* Whom _do_terminate comes back for with SIGKILL. Faulty: the root only.
RootOnly == survivors \cap {job.proc}
ComesBackFor == survivors

KillerIsDone ==
    /\ job # None /\ targets = {}
    /\ tasks' = tasks \cup {Task(TRUE, p) : p \in ComesBackFor}
    /\ job' = None /\ survivors' = {}
    /\ UNCHANGED <<osVars, workerVars, monitorVars, targets, condemned, phase>>

-----------------------------------------------------------------------------
(* TestManager.__exit__: the pool is stopped first, then the monitor, then its *)
(* killer.                                                                   *)

StopPool ==
    /\ phase = "run"
    /\ phase' = "stopping"
    /\ UNCHANGED <<osVars, workerVars, monitorVars, killerVars>>

\* Every worker has been stopped and reported; ProcessMonitor.__exit__ begins.
PutSentinel ==
    /\ phase = "stopping" /\ poolKills = {}
    /\ \A w \in Workers : life[w] = "unborn" \/ hook[w] = "stopped"
    /\ queue' = Append(queue, None)
    /\ phase' = "closing"
    /\ UNCHANGED <<osVars, life, current, told, known, monitorVars, killerVars>>

MonitorEnds ==
    /\ queue # <<>> /\ Head(queue) = None /\ monitorKill = None
    /\ queue' = Tail(queue)
    /\ phase' = "shutdown"
    /\ UNCHANGED <<osVars, life, current, told, known, monitorVars, killerVars>>

NothingLeft == tasks = {}

KillerEnds ==
    /\ phase = "shutdown" /\ job = None /\ NothingLeft
    /\ phase' = "ended"
    /\ UNCHANGED <<osVars, workerVars, monitorVars, killerVars>>

Ended == phase = "ended" /\ UNCHANGED vars

-----------------------------------------------------------------------------

Pool ==
    \/ \E w \in Workers : OnWorkerStarted(w) \/ OnWorkerStopped(w)
    \/ \E p \in Procs : PoolAsks(p)
    \/ PutSentinel
Monitor == MonitorTakes \/ MonitorAsks \/ MonitorEnds
Killer ==
    \/ \E t \in tasks : KillerDrops(t) \/ KillerTakes(t)
    \/ \E p \in Procs : KillerSignals(p)
    \/ KillerIsDone \/ KillerEnds

Next ==
    \/ \E p \in Procs : ProcExit(p) \/ \E q \in Procs : Fork(p, q)
    \/ \E w \in Workers : StartWorker(w) \/ NotifyStart(w) \/ NotifyEnd(w) \/ WorkerEnds(w)
    \/ \E w \in Workers, p \in Procs : Spawn(w, p)
    \/ Pool \/ Monitor \/ Killer \/ StopPool \/ Ended

Spec == Init /\ [][Next]_vars

\* The threads of the main process go on while they can; nothing is assumed of
\* the workers and of what they start.
FairSpec == Spec /\ WF_vars(Pool) /\ WF_vars(Monitor) /\ WF_vars(Killer)

-----------------------------------------------------------------------------
(* Properties *)

TypeOK ==
    /\ proc \in [Procs -> {"unborn", "running", "gone"}]
    /\ parent \in [Procs -> Workers \cup Procs \cup {None}]
    /\ life \in [Workers -> {"unborn", "alive", "dead"}]
    /\ current \in [Workers -> Procs \cup {None}]
    /\ told \subseteq {w \in Workers : life[w] = "alive" /\ current[w] # None}
    /\ queue \in Seq(Events \cup {None})
    /\ known \in [Procs -> Workers \cup {None}]
    /\ hook \in [Workers -> {"none", "started", "stopped"}]
    /\ DOMAIN tracked \subseteq Workers /\ \A w \in DOMAIN tracked : tracked[w] \subseteq Procs
    /\ recentDead \in Seq(Workers)
    /\ poolKills \subseteq Procs /\ monitorKill \in Procs \cup {None}
    /\ tasks \subseteq Tasks /\ job \in Tasks \cup {None}
    /\ targets \cup survivors \cup condemned \subseteq Procs
    /\ late \subseteq Workers
    /\ phase \in {"run", "stopping", "closing", "shutdown", "ended"}

\* Processes that a thread is about to have killed, is killing, or has killed
Abandoned ==
    poolKills \cup targets \cup survivors \cup condemned \cup {t.proc : t \in tasks}
    \cup (IF monitorKill = None THEN {} ELSE {monitorKill})
    \cup (IF job = None THEN {} ELSE {job.proc})

\* Each subprocess in run_process is that of one living worker, and its child.
Owners ==
    \A w \in Workers :
        current[w] # None =>
            /\ life[w] = "alive"
            /\ proc[current[w]] # "unborn"
            /\ Running(current[w]) => parent[current[w]] = w
            /\ \A v \in Workers : current[v] = current[w] => v = w

\* An event or an entry of the books that names the subprocess of a worker in
\* run_process comes from this worker, and is about its start.
EventsOfOwners ==
    \A i \in 1..Len(queue) :
        queue[i] # None =>
            /\ proc[queue[i].child] # "unborn"
            /\ \A w \in Workers :
                  current[w] = queue[i].child => w = queue[i].worker /\ queue[i].type = "started"
BooksOfOwners ==
    \A v \in DOMAIN tracked : \A p \in tracked[v] :
        proc[p] # "unborn" /\ \A w \in Workers : current[w] = p => w = v

\* The monitor takes no worker for dead that is not, and the books have a page
\* for every worker that was started, for on_worker_stopped to pop.
DeadAreDead ==
    /\ \A w \in Workers : hook[w] # "none" => life[w] # "unborn"
    /\ \A w \in Workers : hook[w] = "stopped" => life[w] = "dead"
    /\ \A w \in Workers : hook[w] = "started" => w \in DOMAIN tracked
    /\ \A i \in 1..Len(recentDead) : hook[recentDead[i]] = "stopped"

AbandonedAreLeft ==
    \A p \in Abandoned : proc[p] # "unborn" /\ \A w \in Workers : current[w] # p

\* The invariant by which OnlyAbandonedKilled is proved (ProcessesProofs).
ProcessesInv ==
    TypeOK /\ Owners /\ EventsOfOwners /\ BooksOfOwners /\ DeadAreDead /\ AbandonedAreLeft

\* What the proofs of BooksAreRight and NothingSurvives need beyond it.

\* A worker that was stopped has no page, unless an event of it came too late.
DeadHaveNoPage ==
    \A w \in Workers : hook[w] = "stopped" => w \in late \/ w \notin DOMAIN tracked

\* Only workers that were started have events and pages of the books.
StartedAreKnown ==
    /\ \A i \in 1..Len(queue) : queue[i] # None => life[queue[i].worker] # "unborn"
    /\ \A w \in DOMAIN tracked : life[w] # "unborn"

\* What the page of a worker will say of a subprocess when the monitor has taken
\* the events on the queue: the last event about it decides.
About(i, w, p) == queue[i] # None /\ queue[i].worker = w /\ queue[i].child = p
Noted(w, p) ==
    \/ \E i \in 1..Len(queue) :
          /\ About(i, w, p) /\ queue[i].type = "started"
          /\ \A j \in 1..Len(queue) : j > i => ~About(j, w, p)
    \/ p \in Tracking(w) /\ \A j \in 1..Len(queue) : ~About(j, w, p)

\* Of a worker that is not dead, it will say what the worker is busy with.
BooksFollow ==
    \A w \in Workers, p \in Procs :
        life[w] # "dead" => (Noted(w, p) <=> w \in told /\ current[w] = p)

BooksInv == DeadHaveNoPage /\ StartedAreKnown /\ BooksFollow

\* Somebody in the main process has still to kill it.
ToBeKilled(p) ==
    p \in poolKills \cup targets \cup survivors \/ p = monitorKill \/ \E t \in tasks : t.proc = p

\* A subprocess that runs and was reported, or that the killer has seen, is not
\* forgotten: it is in the books, on the queue, or on its way to be killed.  The
\* books of a worker that was stopped are no safe place (DeadHaveNoPage).
NothingIsLost ==
    /\ \A p \in Procs : known[p] # None => proc[p] # "unborn"
    /\ \A i \in 1..Len(queue) :
          queue[i] # None /\ queue[i].type = "finished" => ~Running(queue[i].child)
    /\ \A p \in condemned : Running(p) => ToBeKilled(p)
    /\ \A p \in Procs, w \in Workers :
          known[p] = w /\ Running(p) =>
              ToBeKilled(p) \/ p \in Tracking(w) \/ \E i \in 1..Len(queue) : About(i, w, p)

\* __exit__ of the pool, the monitor and the killer: what each leaves done.
ExitsInOrder ==
    /\ job = None => targets = {} /\ survivors = {}
    /\ phase \in {"run", "stopping"} => \A i \in 1..Len(queue) : queue[i] # None
    /\ phase \in {"closing", "shutdown", "ended"} =>
          poolKills = {} /\ \A w \in Workers : life[w] = "unborn" \/ hook[w] = "stopped"
    /\ phase = "closing" => \A i \in 1..Len(queue) : queue[i] = None <=> i = Len(queue)
    /\ phase \in {"shutdown", "ended"} => queue = <<>> /\ monitorKill = None
    /\ phase = "ended" => tasks = {} /\ job = None

SurvivorsInv == NothingIsLost /\ ExitsInOrder

\* The subprocess that a living worker is busy with is never among those to be
\* killed, also when its start was reported before the worker was known ("so
\* that we can distinguish an early-reported child PID ... from a posthumously
\* received child PID").
OnlyAbandonedKilled ==
    \A w \in Workers : life[w] = "alive" /\ current[w] # None => current[w] \notin Abandoned

\* on_worker_stopped pops the worker's set: it is there, whatever order the
\* hooks and the events came in, and nothing brings it back ("Remember dead
\* worker PIDs") but an event "from a forgotten-to-be-dead worker".  When the
\* monitor has read all events, the books name the subprocesses that living
\* workers are busy with and have reported, no others.
BooksAreRight ==
    /\ \A w \in Workers : hook[w] = "started" => w \in DOMAIN tracked
    /\ \A w \in Workers : hook[w] = "stopped" => w \in late \/ w \notin DOMAIN tracked
    /\ queue = <<>> =>
          \A w \in DOMAIN tracked :
              life[w] = "alive" => tracked[w] = IF w \in told THEN {current[w]} ELSE {}

\* When the program has left ProcessMonitor.__exit__, no subprocess runs that a
\* worker had reported, and none that was its descendant when the killer looked;
\* the books are empty.  Only what a forgotten worker reported may be left.
NothingSurvives ==
    phase = "ended" =>
        /\ \A p \in Procs : known[p] \notin late \cup {None} \/ p \in condemned => ~Running(p)
        /\ DOMAIN tracked \subseteq late

\* A subprocess that was reported ends after its worker has ended, whatever the
\* order in which its events and the end of the worker become known; unless so
\* many workers end before an event is read that its own is forgotten.
AbandonedEnds ==
    \A p \in Procs :
        (\E w \in Workers : known[p] = w /\ life[w] = "dead")
            ~> (~Running(p) \/ known[p] \in late)
=============================================================================
