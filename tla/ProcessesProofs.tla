-------------------------- MODULE ProcessesProofs --------------------------
(***************************************************************************)
(* Proofs about Processes: only what is abandoned is killed, the books are *)
(* right, and nothing survives.                                            *)
(***************************************************************************)
EXTENDS Processes, TLAPS

\* A process that runs as a worker's child is in nobody's tree but its own: the
\* set of all others is closed under children.
LEMMA TreeHasNoChildOfWorker ==
    ASSUME NEW p \in Procs, NEW q \in Procs, q # p, parent[q] \notin Procs
    PROVE  q \notin Tree(p)
<1>1. Procs \ {q} \in SUBSET Procs /\ p \in Procs \ {q}
  OBVIOUS
<1>2. ClosedUnderChildren(Procs \ {q})
  BY DEF ClosedUnderChildren
<1> QED
  BY <1>1, <1>2 DEF Tree

\* What is in the tree of a process, apart from itself, is running.
LEMMA TreeRuns ==
    ASSUME NEW p \in Procs, NEW q \in Procs, q # p, ~Running(q)
    PROVE  q \notin Tree(p)
<1>1. Procs \ {q} \in SUBSET Procs /\ p \in Procs \ {q}
  OBVIOUS
<1>2. ClosedUnderChildren(Procs \ {q})
  BY DEF ClosedUnderChildren
<1> QED
  BY <1>1, <1>2 DEF Tree

\* The tree of an abandoned process holds abandoned processes only.
LEMMA TreeIsLeft ==
    ASSUME ProcessesInv, NEW p \in Procs, Running(p), \A w \in Workers : current[w] # p,
           NEW q \in Tree(p)
    PROVE  q \in Procs /\ proc[q] # "unborn" /\ \A w \in Workers : current[w] # q
<1>1. q \in Procs
  BY DEF Tree
<1>2. q = p \/ Running(q)
  BY <1>1, TreeRuns
<1>3. ASSUME NEW w \in Workers, current[w] = q PROVE FALSE
  <2>1. q # p
    BY <1>3
  <2>2. parent[q] = w
    BY <1>2, <1>3, <2>1, <1>1, ProcessesAssumption DEF ProcessesInv, Owners
  <2>3. parent[q] \notin Procs
    BY <2>2, ProcessesAssumption
  <2> QED
    BY <2>1, <2>3, <1>1, TreeHasNoChildOfWorker
<1> QED
  BY <1>1, <1>2, <1>3 DEF Running

LEMMA TypeOKInit == Init => TypeOK
<1> SUFFICES ASSUME Init PROVE TypeOK
  OBVIOUS
<1>1. tracked = [w \in {} |-> {}] /\ queue = <<>> /\ recentDead = <<>>
  BY DEF Init
<1>2. queue \in Seq(Events \cup {None}) /\ recentDead \in Seq(Workers)
  BY <1>1
<1>3. DOMAIN tracked = {}
  BY <1>1
<1> QED
  BY <1>2, <1>3 DEF Init, TypeOK

LEMMA InvInit == Init => ProcessesInv
<1> SUFFICES ASSUME Init PROVE ProcessesInv
  OBVIOUS
<1>1. TypeOK
  BY TypeOKInit
<1>2. Owners
  BY DEF Init, Owners
<1>3. EventsOfOwners
  BY DEF Init, EventsOfOwners
<1>4. BooksOfOwners
  <2>1. DOMAIN tracked = {}
    BY DEF Init
  <2> QED
    BY <2>1 DEF BooksOfOwners
<1>5. DeadAreDead
  BY DEF Init, DeadAreDead
<1>6. AbandonedAreLeft
  BY DEF Init, AbandonedAreLeft, Abandoned
<1> QED
  BY <1>1, <1>2, <1>3, <1>4, <1>5, <1>6 DEF ProcessesInv

-----------------------------------------------------------------------------
(* Type correctness *)

USE DEF Event, Task

LEMMA TypeOS ==
    ASSUME TypeOK, NEW p \in Procs, NEW q \in Procs, Fork(p, q) \/ ProcExit(p)
    PROVE  TypeOK'
<1>1. CASE Fork(p, q)
  BY <1>1 DEF TypeOK, Fork, workerVars, monitorVars, killerVars
<1>2. CASE ProcExit(p)
  BY <1>2 DEF TypeOK, ProcExit, EndOf, workerVars, monitorVars, killerVars
<1> QED
  BY <1>1, <1>2

LEMMA TypeWorker ==
    ASSUME TypeOK, NEW w \in Workers,
           StartWorker(w) \/ NotifyStart(w) \/ NotifyEnd(w) \/ WorkerEnds(w)
           \/ \E p \in Procs : Spawn(w, p)
    PROVE  TypeOK'
<1>1. CASE StartWorker(w)
  BY <1>1 DEF TypeOK, StartWorker, osVars, monitorVars, killerVars
<1>2. CASE NotifyStart(w)
  <2>1. Event(w, current[w], "started") \in Events
    BY <1>2 DEF TypeOK, NotifyStart, Events
  <2> QED
    BY <1>2, <2>1 DEF TypeOK, NotifyStart, osVars, monitorVars, killerVars
<1>3. CASE NotifyEnd(w)
  <2>1. current[w] \in Procs
    BY <1>3 DEF TypeOK, NotifyEnd
  <2>2. queue' \in Seq(Events \cup {None})
    BY <1>3, <2>1 DEF TypeOK, NotifyEnd, Events
  <2> QED
    BY <1>3, <2>2 DEF TypeOK, NotifyEnd, osVars, monitorVars, killerVars
<1>4. CASE WorkerEnds(w)
  BY <1>4 DEF TypeOK, WorkerEnds, osVars, monitorVars, killerVars
<1>5. ASSUME NEW p \in Procs, Spawn(w, p) PROVE TypeOK'
  BY <1>5, ProcessesAssumption DEF TypeOK, Spawn, monitorVars, killerVars
<1> QED
  BY <1>1, <1>2, <1>3, <1>4, <1>5

\* on_worker_started finds nothing to remove: ids are not reused.
LEMMA NothingToRemove ==
    ASSUME TypeOK, DeadAreDead, NEW w \in Workers, hook[w] = "none"
    PROVE  Without(recentDead, w) = recentDead
  BY DEF DeadAreDead, Without, Range

LEMMA TypePool ==
    ASSUME TypeOK, DeadAreDead, NEW w \in Workers,
           OnWorkerStarted(w) \/ OnWorkerStopped(w)
    PROVE  TypeOK'
<1>1. CASE OnWorkerStarted(w)
  <2>1. recentDead' \in Seq(Workers)
    BY <1>1, NothingToRemove DEF TypeOK, OnWorkerStarted
  <2>2. DOMAIN tracked' \subseteq Workers /\ \A v \in DOMAIN tracked' : tracked'[v] \subseteq Procs
    BY <1>1 DEF TypeOK, OnWorkerStarted, Track, Tracking
  <2>3. hook' \in [Workers -> {"none", "started", "stopped"}]
    BY <1>1 DEF TypeOK, OnWorkerStarted
  <2> QED
    BY <1>1, <2>1, <2>2, <2>3 DEF TypeOK, OnWorkerStarted, osVars, workerVars, killerVars
<1>2. CASE OnWorkerStopped(w)
  <2> w \in DOMAIN tracked
    BY <1>2 DEF DeadAreDead, OnWorkerStopped
  <2>1. recentDead' \in Seq(Workers)
    <3> DEFINE longer == Append(recentDead, w)
    <3>1. longer \in Seq(Workers) /\ Len(longer) > 0 /\ recentDead' = Latest(longer)
      BY <1>2 DEF TypeOK, OnWorkerStopped
    <3> HIDE DEF longer
    <3>2. Tail(longer) \in Seq(Workers)
      BY <3>1
    <3> QED
      BY <3>1, <3>2 DEF Latest
  <2>2. DOMAIN tracked' \subseteq Workers /\ \A v \in DOMAIN tracked' : tracked'[v] \subseteq Procs
    BY <1>2 DEF TypeOK, OnWorkerStopped
  <2>3. hook' \in [Workers -> {"none", "started", "stopped"}] /\ poolKills' \subseteq Procs
    BY <1>2 DEF TypeOK, OnWorkerStopped
  <2> QED
    BY <1>2, <2>1, <2>2, <2>3 DEF TypeOK, OnWorkerStopped, osVars, workerVars, killerVars
<1> QED
  BY <1>1, <1>2

LEMMA TaskType ==
    ASSUME NEW p \in Procs, NEW hard \in BOOLEAN
    PROVE  Task(hard, p) \in Tasks
  BY DEF Tasks

LEMMA AddTaskType ==
    ASSUME TypeOK, NEW p \in Procs, AddTask(p)
    PROVE  tasks' \subseteq Tasks
  BY TaskType DEF TypeOK, AddTask

LEMMA TypeMonitor ==
    ASSUME TypeOK, MonitorTakes \/ MonitorAsks \/ MonitorEnds \/ PutSentinel \/ StopPool
    PROVE  TypeOK'
<1>1. CASE MonitorTakes
  <2>1. Head(queue) \in Events /\ queue' \in Seq(Events \cup {None})
    BY <1>1 DEF TypeOK, MonitorTakes
  <2>2. monitorKill' \in Procs \cup {None}
    BY <1>1, <2>1 DEF TypeOK, MonitorTakes, Events
  <2>3. DOMAIN tracked' \subseteq Workers /\ \A v \in DOMAIN tracked' : tracked'[v] \subseteq Procs
    <3>1. CASE Posthumous(Head(queue).worker)
      BY <1>1, <3>1 DEF TypeOK, MonitorTakes
    <3>2. CASE ~Posthumous(Head(queue).worker)
      <4>1. Head(queue).worker \in Workers /\ Head(queue).child \in Procs
        BY <2>1 DEF Events
      <4>2. Children(Head(queue)) \subseteq Procs
        BY <4>1 DEF TypeOK, Children, Tracking
      <4>3. Track(Head(queue).worker, Children(Head(queue)))
        BY <1>1, <3>2 DEF MonitorTakes
      <4> QED
        BY <4>1, <4>2, <4>3 DEF TypeOK, Track
    <3> QED
      BY <3>1, <3>2
  <2>4. late' \subseteq Workers
    BY <1>1, <2>1 DEF TypeOK, MonitorTakes, Events
  <2> QED
    BY <1>1, <2>1, <2>2, <2>3, <2>4 DEF TypeOK, MonitorTakes, osVars, killerVars
<1>2. CASE MonitorAsks
  BY <1>2, AddTaskType DEF TypeOK, MonitorAsks, osVars, workerVars
<1>3. CASE MonitorEnds
  BY <1>3 DEF TypeOK, MonitorEnds, osVars, monitorVars, killerVars
<1>4. CASE PutSentinel
  BY <1>4 DEF TypeOK, PutSentinel, osVars, monitorVars, killerVars
<1>5. CASE StopPool
  BY <1>5 DEF TypeOK, StopPool, osVars, workerVars, monitorVars, killerVars
<1> QED
  BY <1>1, <1>2, <1>3, <1>4, <1>5

LEMMA TypeKiller ==
    ASSUME TypeOK, (\E p \in Procs : PoolAsks(p)) \/ Killer
    PROVE  TypeOK'
<1>1. ASSUME NEW p \in Procs, PoolAsks(p) PROVE TypeOK'
  BY <1>1, AddTaskType DEF TypeOK, PoolAsks, osVars, workerVars
<1>2. ASSUME NEW t \in tasks, KillerDrops(t) PROVE TypeOK'
  BY <1>2 DEF TypeOK, KillerDrops, osVars, workerVars, monitorVars
<1>3. ASSUME NEW t \in tasks, KillerTakes(t) PROVE TypeOK'
  <2>1. t \in Tasks /\ Tree(t.proc) \subseteq Procs
    BY DEF TypeOK, Tree
  <2> QED
    BY <1>3, <2>1 DEF TypeOK, KillerTakes, osVars, workerVars, monitorVars
<1>4. ASSUME NEW p \in Procs, KillerSignals(p) PROVE TypeOK'
  <2>1. proc' \in [Procs -> {"unborn", "running", "gone"}]
        /\ parent' \in [Procs -> Workers \cup Procs \cup {None}]
    BY <1>4 DEF TypeOK, KillerSignals, EndOf, osVars
  <2> QED
    BY <1>4, <2>1 DEF TypeOK, KillerSignals, workerVars, monitorVars
<1>5. CASE KillerIsDone
  <2>1. tasks' \subseteq Tasks
    BY <1>5, TaskType DEF TypeOK, KillerIsDone, ComesBackFor
  <2> QED
    BY <1>5, <2>1 DEF TypeOK, KillerIsDone, osVars, workerVars, monitorVars
<1>6. CASE KillerEnds
  BY <1>6 DEF TypeOK, KillerEnds, osVars, workerVars, monitorVars, killerVars
<1> QED
  BY <1>1, <1>2, <1>3, <1>4, <1>5, <1>6 DEF Killer

-----------------------------------------------------------------------------
(* What the steps outside the main process do *)

USE DEF Running

LEMMA ForkStep ==
    ASSUME ProcessesInv, NEW p \in Procs, NEW q \in Procs, Fork(p, q)
    PROVE  (Owners /\ EventsOfOwners /\ BooksOfOwners /\ DeadAreDead /\ AbandonedAreLeft)'
<1> USE DEF ProcessesInv
<1>0. /\ proc[q] = "unborn" /\ UNCHANGED <<workerVars, monitorVars, killerVars>>
      /\ \A r \in Procs : proc[r] # "unborn" => proc'[r] = proc[r]
      /\ \A r \in Procs \ {q} : parent'[r] = parent[r]
  BY DEF Fork, TypeOK
<1>1. Owners'
  BY <1>0, ProcessesAssumption DEF Owners, TypeOK, workerVars
<1>2. EventsOfOwners'
  <2> SUFFICES ASSUME NEW i \in 1..Len(queue), queue[i] # None
               PROVE  proc'[queue[i].child] # "unborn"
    BY <1>0 DEF EventsOfOwners, workerVars
  <2>1. queue[i] \in Events
    BY DEF TypeOK
  <2> QED
    BY <1>0, <2>1 DEF EventsOfOwners, Events
<1>3. BooksOfOwners'
  BY <1>0 DEF BooksOfOwners, TypeOK, workerVars, monitorVars
<1>4. DeadAreDead'
  BY <1>0 DEF DeadAreDead, workerVars, monitorVars
<1>5. AbandonedAreLeft'
  <2>1. Abandoned \subseteq Procs
    BY DEF TypeOK, Abandoned, Tasks
  <2>2. Abandoned' = Abandoned
    BY <1>0 DEF Abandoned, monitorVars, killerVars
  <2> QED
    BY <1>0, <2>1, <2>2 DEF AbandonedAreLeft, workerVars
<1> QED
  BY <1>1, <1>2, <1>3, <1>4, <1>5

\* The end of a process, by itself or by SIGKILL
LEMMA EndStep ==
    ASSUME ProcessesInv, NEW p \in Procs, Running(p), EndOf(p), UNCHANGED <<workerVars, monitorVars>>
    PROVE  /\ (Owners /\ EventsOfOwners /\ BooksOfOwners /\ DeadAreDead)'
           /\ \A r \in Procs : proc[r] # "unborn" => proc'[r] # "unborn"
<1> USE DEF ProcessesInv
<1>0. /\ \A r \in Procs : proc'[r] = IF r = p THEN "gone" ELSE proc[r]
      /\ \A r \in Procs : parent[r] # p => parent'[r] = parent[r]
  BY DEF EndOf, TypeOK
<1>1. Owners'
  <2> SUFFICES ASSUME NEW w \in Workers, current[w] # None
               PROVE  /\ life[w] = "alive"
                      /\ proc'[current[w]] # "unborn"
                      /\ proc'[current[w]] = "running" => parent'[current[w]] = w
                      /\ \A v \in Workers : current[v] = current[w] => v = w
    BY DEF Owners, workerVars
  <2>1. current[w] \in Procs
    BY DEF TypeOK
  <2>2. w # p
    BY ProcessesAssumption
  <2> QED
    BY <1>0, <2>1, <2>2 DEF Owners
<1>2. EventsOfOwners'
  <2> SUFFICES ASSUME NEW i \in 1..Len(queue), queue[i] # None
               PROVE  proc'[queue[i].child] # "unborn"
    BY DEF EventsOfOwners, workerVars
  <2>1. queue[i] \in Events
    BY DEF TypeOK
  <2> QED
    BY <1>0, <2>1 DEF EventsOfOwners, Events
<1>3. BooksOfOwners'
  BY <1>0 DEF BooksOfOwners, TypeOK, workerVars, monitorVars
<1>4. DeadAreDead'
  BY DEF DeadAreDead, workerVars, monitorVars
<1> QED
  BY <1>0, <1>1, <1>2, <1>3, <1>4

LEMMA ExitStep ==
    ASSUME ProcessesInv, NEW p \in Procs, ProcExit(p)
    PROVE  (Owners /\ EventsOfOwners /\ BooksOfOwners /\ DeadAreDead /\ AbandonedAreLeft)'
<1>1. Running(p) /\ EndOf(p) /\ UNCHANGED <<workerVars, monitorVars, killerVars>>
  BY DEF ProcExit
<1>2. Abandoned \subseteq Procs /\ Abandoned' = Abandoned
  BY <1>1 DEF ProcessesInv, TypeOK, Abandoned, Tasks, monitorVars, killerVars
<1>3. AbandonedAreLeft'
  BY <1>1, <1>2, EndStep DEF ProcessesInv, AbandonedAreLeft, workerVars
<1> QED
  BY <1>1, <1>3, EndStep

LEMMA SpawnStep ==
    ASSUME ProcessesInv, NEW w \in Workers, NEW p \in Procs, Spawn(w, p)
    PROVE  (Owners /\ EventsOfOwners /\ BooksOfOwners /\ DeadAreDead /\ AbandonedAreLeft)'
<1> USE DEF ProcessesInv
<1>0. /\ proc[p] = "unborn" /\ life[w] = "alive" /\ current[w] = None
      /\ UNCHANGED <<life, told, queue, known, monitorVars, killerVars>>
      /\ \A r \in Procs : proc'[r] = IF r = p THEN "running" ELSE proc[r]
      /\ \A r \in Procs : parent'[r] = IF r = p THEN w ELSE parent[r]
      /\ \A v \in Workers : current'[v] = IF v = w THEN p ELSE current[v]
  BY DEF Spawn, TypeOK
<1>1. Owners'
  <2> SUFFICES ASSUME NEW u \in Workers, current'[u] # None
               PROVE  /\ life[u] = "alive"
                      /\ proc'[current'[u]] # "unborn"
                      /\ proc'[current'[u]] = "running" => parent'[current'[u]] = u
                      /\ \A v \in Workers : current'[v] = current'[u] => v = u
    BY <1>0 DEF Owners
  <2>1. \A v \in Workers : current[v] # p
    BY <1>0, ProcessesAssumption DEF Owners
  <2>2. CASE u = w
    BY <1>0, <2>1, <2>2
  <2>3. CASE u # w
    <3>1. current'[u] = current[u] /\ current[u] # p /\ current[u] \in Procs
      BY <1>0, <2>1, <2>3 DEF TypeOK
    <3> QED
      BY <1>0, <2>3, <3>1 DEF Owners
  <2> QED
    BY <2>2, <2>3
<1>2. EventsOfOwners'
  <2> SUFFICES ASSUME NEW i \in 1..Len(queue), queue[i] # None
               PROVE  /\ proc'[queue[i].child] # "unborn"
                      /\ \A v \in Workers : current'[v] = queue[i].child =>
                            v = queue[i].worker /\ queue[i].type = "started"
    BY <1>0 DEF EventsOfOwners
  <2>1. queue[i] \in Events
    BY DEF TypeOK
  <2>2. queue[i].child \in Procs /\ proc[queue[i].child] # "unborn"
    BY <2>1 DEF EventsOfOwners, Events
  <2> QED
    BY <1>0, <2>2 DEF EventsOfOwners
<1>3. BooksOfOwners'
  BY <1>0 DEF BooksOfOwners, TypeOK, monitorVars
<1>4. DeadAreDead'
  BY <1>0 DEF DeadAreDead, monitorVars
<1>5. AbandonedAreLeft'
  <2>1. Abandoned \subseteq Procs
    BY DEF TypeOK, Abandoned, Tasks
  <2>2. Abandoned' = Abandoned
    BY <1>0 DEF Abandoned, monitorVars, killerVars
  <2> QED
    BY <1>0, <2>1, <2>2 DEF AbandonedAreLeft
<1> QED
  BY <1>1, <1>2, <1>3, <1>4, <1>5

-----------------------------------------------------------------------------
(* What the workers do *)

\* A step of a worker that ends, or has no subprocess any more, takes something
\* away from current only.
LEMMA FewerOwners ==
    ASSUME ProcessesInv, UNCHANGED <<proc, monitorVars, killerVars>>,
           \A v \in Workers : current'[v] \in {current[v], None}
    PROVE  BooksOfOwners' /\ AbandonedAreLeft'
<1>1. Abandoned \subseteq Procs /\ Abandoned' = Abandoned
  BY DEF ProcessesInv, TypeOK, Abandoned, Tasks, monitorVars, killerVars
<1>2. AbandonedAreLeft'
  BY <1>1, ProcessesAssumption DEF ProcessesInv, AbandonedAreLeft
<1>3. BooksOfOwners'
  BY ProcessesAssumption DEF ProcessesInv, TypeOK, BooksOfOwners, monitorVars
<1> QED
  BY <1>2, <1>3

LEMMA StartStep ==
    ASSUME ProcessesInv, NEW w \in Workers, StartWorker(w)
    PROVE  (Owners /\ EventsOfOwners /\ BooksOfOwners /\ DeadAreDead /\ AbandonedAreLeft)'
<1> USE DEF ProcessesInv
<1>0. /\ life[w] = "unborn" /\ UNCHANGED <<osVars, current, queue, monitorVars, killerVars>>
      /\ \A v \in Workers : life'[v] = IF v = w THEN "alive" ELSE life[v]
  BY DEF StartWorker, TypeOK
<1>1. Owners'
  BY <1>0 DEF Owners, osVars
<1>2. EventsOfOwners'
  BY <1>0 DEF EventsOfOwners, osVars
<1>3. BooksOfOwners' /\ AbandonedAreLeft'
  BY <1>0, FewerOwners DEF osVars
<1>4. DeadAreDead'
  BY <1>0 DEF DeadAreDead, monitorVars
<1> QED
  BY <1>1, <1>2, <1>3, <1>4

\* An event that is appended says the truth about its subprocess.
LEMMA EventAppended ==
    ASSUME ProcessesInv, NEW e \in Events, queue' = Append(queue, e), UNCHANGED proc,
           \A v \in Workers : current'[v] \in {current[v], None},
           proc[e.child] # "unborn",
           \A v \in Workers : current'[v] = e.child => v = e.worker /\ e.type = "started"
    PROVE  EventsOfOwners'
<1> SUFFICES ASSUME NEW i \in 1..Len(queue'), queue'[i] # None
             PROVE  /\ proc[queue'[i].child] # "unborn"
                    /\ \A v \in Workers : current'[v] = queue'[i].child =>
                          v = queue'[i].worker /\ queue'[i].type = "started"
  BY DEF EventsOfOwners
<1>1. queue \in Seq(Events \cup {None})
  BY DEF ProcessesInv, TypeOK
<1>2. CASE i = Len(queue) + 1
  BY <1>1, <1>2
<1>3. CASE i \in 1..Len(queue)
  <2>1. queue'[i] = queue[i] /\ queue[i] \in Events
    BY <1>1, <1>3
  <2>2. queue[i].child # None
    BY <2>1, ProcessesAssumption DEF Events
  <2> QED
    BY <1>3, <2>1, <2>2 DEF ProcessesInv, EventsOfOwners
<1> QED
  BY <1>1, <1>2, <1>3

LEMMA NotifyStartStep ==
    ASSUME ProcessesInv, NEW w \in Workers, NotifyStart(w)
    PROVE  (Owners /\ EventsOfOwners /\ BooksOfOwners /\ DeadAreDead /\ AbandonedAreLeft)'
<1> USE DEF ProcessesInv
<1>0. /\ current[w] # None /\ current[w] \in Procs
      /\ UNCHANGED <<osVars, life, current, monitorVars, killerVars>>
      /\ queue' = Append(queue, Event(w, current[w], "started"))
  BY DEF NotifyStart, TypeOK
<1>1. Owners'
  BY <1>0 DEF Owners, osVars
<1>2. EventsOfOwners'
  <2> DEFINE e == [worker |-> w, child |-> current[w], type |-> "started"]
  <2>1. e \in Events /\ e.child = current[w] /\ e.worker = w /\ e.type = "started"
    BY <1>0 DEF Events
  <2>2. proc[current[w]] # "unborn" /\ \A v \in Workers : current[v] = current[w] => v = w
    BY <1>0 DEF Owners
  <2>3. queue' = Append(queue, e)
    BY <1>0
  <2> HIDE DEF e
  <2> QED
    BY <1>0, <2>1, <2>2, <2>3, EventAppended DEF osVars
<1>3. BooksOfOwners' /\ AbandonedAreLeft'
  BY <1>0, FewerOwners DEF osVars
<1>4. DeadAreDead'
  BY <1>0 DEF DeadAreDead, monitorVars
<1> QED
  BY <1>1, <1>2, <1>3, <1>4

LEMMA NotifyEndStep ==
    ASSUME ProcessesInv, NEW w \in Workers, NotifyEnd(w)
    PROVE  (Owners /\ EventsOfOwners /\ BooksOfOwners /\ DeadAreDead /\ AbandonedAreLeft)'
<1> USE DEF ProcessesInv
<1> DEFINE type == IF Running(current[w]) THEN "orphaned" ELSE "finished"
           e == [worker |-> w, child |-> current[w], type |-> type]
<1>0. /\ current[w] # None /\ current[w] \in Procs
      /\ UNCHANGED <<osVars, life, monitorVars, killerVars>>
      /\ queue' = Append(queue, e)
      /\ \A v \in Workers : current'[v] = IF v = w THEN None ELSE current[v]
  BY DEF NotifyEnd, TypeOK
<1>1. Owners'
  BY <1>0 DEF Owners, osVars
<1>2. EventsOfOwners'
  <2>1. e \in Events /\ e.child = current[w]
    BY <1>0 DEF Events
  <2>2. proc[current[w]] # "unborn" /\ \A v \in Workers : current'[v] # current[w]
    BY <1>0 DEF Owners
  <2>3. queue' = Append(queue, e) /\ UNCHANGED proc
        /\ \A v \in Workers : current'[v] \in {current[v], None}
    BY <1>0 DEF osVars
  <2> HIDE DEF e
  <2> QED
    BY <2>1, <2>2, <2>3, EventAppended
<1>3. BooksOfOwners' /\ AbandonedAreLeft'
  BY <1>0, FewerOwners DEF osVars
<1>4. DeadAreDead'
  BY <1>0 DEF DeadAreDead, monitorVars
<1> QED
  BY <1>1, <1>2, <1>3, <1>4

LEMMA WorkerEndsStep ==
    ASSUME ProcessesInv, NEW w \in Workers, WorkerEnds(w)
    PROVE  (Owners /\ EventsOfOwners /\ BooksOfOwners /\ DeadAreDead /\ AbandonedAreLeft)'
<1> USE DEF ProcessesInv
<1>0. /\ life[w] = "alive" /\ UNCHANGED <<proc, queue, monitorVars, killerVars>>
      /\ \A v \in Workers : life'[v] = IF v = w THEN "dead" ELSE life[v]
      /\ \A v \in Workers : current'[v] = IF v = w THEN None ELSE current[v]
      /\ \A q \in Procs : parent[q] # w => parent'[q] = parent[q]
  BY DEF WorkerEnds, TypeOK
<1>1. Owners'
  <2> SUFFICES ASSUME NEW u \in Workers, current'[u] # None
               PROVE  /\ life'[u] = "alive"
                      /\ proc[current'[u]] # "unborn"
                      /\ proc[current'[u]] = "running" => parent'[current'[u]] = u
                      /\ \A v \in Workers : current'[v] = current'[u] => v = u
    BY <1>0 DEF Owners
  <2>1. u # w /\ current'[u] = current[u] /\ current[u] \in Procs
    BY <1>0 DEF TypeOK
  <2> QED
    BY <1>0, <2>1 DEF Owners
<1>2. EventsOfOwners'
  <2> SUFFICES ASSUME NEW i \in 1..Len(queue), queue[i] # None
               PROVE  \A v \in Workers : current'[v] = queue[i].child =>
                          v = queue[i].worker /\ queue[i].type = "started"
    BY <1>0 DEF EventsOfOwners
  <2>1. queue[i] \in Events /\ queue[i].child # None
    BY ProcessesAssumption DEF TypeOK, Events
  <2> QED
    BY <1>0, <2>1 DEF EventsOfOwners
<1>3. BooksOfOwners' /\ AbandonedAreLeft'
  BY <1>0, FewerOwners
<1>4. DeadAreDead'
  BY <1>0 DEF DeadAreDead, monitorVars, TypeOK
<1> QED
  BY <1>1, <1>2, <1>3, <1>4

-----------------------------------------------------------------------------
(* What the main process does *)

\* The hooks, the monitor and the killer leave the workers alone. What they
\* abandon must be abandoned already.
LEMMA MainStep ==
    ASSUME ProcessesInv, UNCHANGED <<osVars, life, current, told, known>>,
           \A p \in Abandoned' : p \in Abandoned \/
               (p \in Procs /\ proc[p] # "unborn" /\ \A v \in Workers : current[v] # p)
    PROVE  Owners' /\ AbandonedAreLeft'
<1>1. Owners'
  BY DEF ProcessesInv, Owners, osVars
<1>2. AbandonedAreLeft'
  BY DEF ProcessesInv, AbandonedAreLeft, osVars
<1> QED
  BY <1>1, <1>2

LEMMA OnWorkerStartedStep ==
    ASSUME ProcessesInv, NEW w \in Workers, OnWorkerStarted(w)
    PROVE  (Owners /\ EventsOfOwners /\ BooksOfOwners /\ DeadAreDead /\ AbandonedAreLeft)'
<1> USE DEF ProcessesInv
<1>0. /\ hook[w] = "none" /\ life[w] # "unborn" /\ recentDead' = recentDead
      /\ UNCHANGED <<osVars, workerVars, poolKills, monitorKill, killerVars>>
      /\ \A v \in Workers : hook'[v] = IF v = w THEN "started" ELSE hook[v]
      /\ tracked' = [v \in DOMAIN tracked \cup {w} |-> IF v = w THEN Tracking(w) ELSE tracked[v]]
  BY NothingToRemove DEF OnWorkerStarted, Track, TypeOK
<1>1. Owners' /\ AbandonedAreLeft'
  <2>1. Abandoned' = Abandoned
    BY <1>0 DEF Abandoned, killerVars
  <2> QED
    BY <1>0, <2>1, MainStep DEF workerVars
<1>2. EventsOfOwners'
  BY <1>0 DEF EventsOfOwners, osVars, workerVars
<1>3. BooksOfOwners'
  <2> SUFFICES ASSUME NEW v \in DOMAIN tracked', NEW p \in tracked'[v]
               PROVE  proc[p] # "unborn" /\ \A u \in Workers : current[u] = p => u = v
    BY <1>0 DEF BooksOfOwners, osVars, workerVars
  <2>1. v \in DOMAIN tracked /\ p \in tracked[v]
    BY <1>0 DEF Tracking
  <2> QED
    BY <2>1 DEF BooksOfOwners
<1>4. DeadAreDead'
  <2>1. \A v \in Workers : hook'[v] = "started" => v \in DOMAIN tracked'
    BY <1>0 DEF DeadAreDead
  <2>2. \A i \in 1..Len(recentDead) : hook'[recentDead[i]] = "stopped"
    BY <1>0 DEF DeadAreDead, TypeOK
  <2> QED
    BY <1>0, <2>1, <2>2 DEF DeadAreDead, workerVars
<1> QED
  BY <1>1, <1>2, <1>3, <1>4

LEMMA OnWorkerStoppedStep ==
    ASSUME ProcessesInv, NEW w \in Workers, OnWorkerStopped(w)
    PROVE  (Owners /\ EventsOfOwners /\ BooksOfOwners /\ DeadAreDead /\ AbandonedAreLeft)'
<1> USE DEF ProcessesInv
<1>0. /\ life[w] = "dead" /\ hook[w] = "started" /\ poolKills = {}
      /\ poolKills' = tracked[w] /\ recentDead' = Latest(Append(recentDead, w))
      /\ UNCHANGED <<osVars, workerVars, monitorKill, killerVars>>
      /\ \A v \in Workers : hook'[v] = IF v = w THEN "stopped" ELSE hook[v]
      /\ tracked' = [v \in DOMAIN tracked \ {w} |-> tracked[v]]
      /\ w \in DOMAIN tracked /\ tracked[w] \subseteq Procs
  BY DEF OnWorkerStopped, TypeOK, DeadAreDead
<1>1. Owners' /\ AbandonedAreLeft'
  <2>1. Abandoned' \subseteq Abandoned \cup tracked[w]
    BY <1>0 DEF Abandoned, killerVars
  <2>2. \A p \in tracked[w] : proc[p] # "unborn" /\ \A v \in Workers : current[v] # p
    BY <1>0, ProcessesAssumption DEF BooksOfOwners, Owners, TypeOK
  <2> QED
    BY <1>0, <2>1, <2>2, MainStep DEF workerVars
<1>2. EventsOfOwners'
  BY <1>0 DEF EventsOfOwners, osVars, workerVars
<1>3. BooksOfOwners'
  BY <1>0 DEF BooksOfOwners, osVars, workerVars
<1>4. DeadAreDead'
  <2>1. \A v \in Workers : hook'[v] = "started" => v \in DOMAIN tracked'
    BY <1>0 DEF DeadAreDead
  <2>2. \A i \in 1..Len(recentDead') : hook'[recentDead'[i]] = "stopped"
    <3> DEFINE longer == Append(recentDead, w)
    <3>1. recentDead \in Seq(Workers)
      BY DEF TypeOK
    <3>2. longer \in Seq(Workers) /\ \A i \in 1..Len(longer) : hook'[longer[i]] = "stopped"
      BY <1>0, <3>1 DEF DeadAreDead
    <3>3. recentDead' = longer \/ (Len(longer) > 0 /\ recentDead' = Tail(longer))
      BY <1>0, <3>1, <3>2, ProcessesAssumption DEF Latest
    <3> HIDE DEF longer
    <3> QED
      BY <3>2, <3>3
  <2> QED
    BY <1>0, <2>1, <2>2 DEF DeadAreDead, workerVars
<1> QED
  BY <1>1, <1>2, <1>3, <1>4

LEMMA MonitorTakesStep ==
    ASSUME ProcessesInv, MonitorTakes
    PROVE  (Owners /\ EventsOfOwners /\ BooksOfOwners /\ DeadAreDead /\ AbandonedAreLeft)'
<1> USE DEF ProcessesInv
<1> DEFINE e == Head(queue)
<1>0. /\ queue # <<>> /\ e # None /\ queue' = Tail(queue)
      /\ UNCHANGED <<osVars, life, current, told, known, hook, recentDead, poolKills, killerVars>>
      /\ monitorKill' = IF ShouldKill(e) THEN e.child ELSE None
      /\ IF Posthumous(e.worker) THEN UNCHANGED tracked ELSE Track(e.worker, Children(e))
  BY DEF MonitorTakes
<1>1. e \in Events /\ e = queue[1] /\ queue \in Seq(Events \cup {None})
  BY <1>0 DEF TypeOK
<1>2. /\ e.child \in Procs /\ e.worker \in Workers /\ proc[e.child] # "unborn"
      /\ \A v \in Workers : current[v] = e.child => v = e.worker /\ e.type = "started"
  BY <1>0, <1>1 DEF Events, EventsOfOwners
<1>3. Owners' /\ AbandonedAreLeft'
  <2>1. Abandoned' \subseteq Abandoned \cup (IF ShouldKill(e) THEN {e.child} ELSE {})
    BY <1>0 DEF Abandoned, killerVars
  <2>2. ShouldKill(e) => \A v \in Workers : current[v] # e.child
    <3>1. Posthumous(e.worker) => life[e.worker] = "dead"
      BY <1>2 DEF Posthumous, Range, DeadAreDead, TypeOK
    <3> QED
      BY <1>2, <3>1, ProcessesAssumption DEF ShouldKill, Owners
  <2> QED
    BY <1>0, <1>2, <2>1, <2>2, MainStep
<1>4. EventsOfOwners'
  <2> SUFFICES ASSUME NEW i \in 1..Len(queue'), queue'[i] # None
               PROVE  /\ proc[queue'[i].child] # "unborn"
                      /\ \A v \in Workers : current[v] = queue'[i].child =>
                            v = queue'[i].worker /\ queue'[i].type = "started"
    BY <1>0 DEF EventsOfOwners, osVars
  <2>1. i + 1 \in 1..Len(queue) /\ queue'[i] = queue[i + 1]
    BY <1>0, <1>1
  <2> QED
    BY <2>1 DEF EventsOfOwners
<1>5. BooksOfOwners'
  <2>1. CASE Posthumous(e.worker)
    BY <1>0, <2>1 DEF BooksOfOwners, osVars
  <2>2. CASE ~Posthumous(e.worker)
    <3> SUFFICES ASSUME NEW v \in DOMAIN tracked', NEW p \in tracked'[v]
                 PROVE  proc[p] # "unborn" /\ \A u \in Workers : current[u] = p => u = v
      BY <1>0 DEF BooksOfOwners, osVars
    <3>1. (v \in DOMAIN tracked /\ p \in tracked[v]) \/ (v = e.worker /\ p = e.child)
      BY <1>0, <2>2 DEF Track, Children, Tracking
    <3> QED
      BY <1>2, <3>1 DEF BooksOfOwners
  <2> QED
    BY <2>1, <2>2
<1>6. DeadAreDead'
  <2>1. DOMAIN tracked \subseteq DOMAIN tracked'
    BY <1>0 DEF Track
  <2> QED
    BY <1>0, <2>1 DEF DeadAreDead
<1> QED
  BY <1>3, <1>4, <1>5, <1>6

\* The steps of the monitor and the killer that touch neither events nor books
LEMMA QuietStep ==
    ASSUME ProcessesInv, UNCHANGED <<osVars, workerVars, hook, tracked, recentDead>>,
           Abandoned' \subseteq Abandoned
    PROVE  (Owners /\ EventsOfOwners /\ BooksOfOwners /\ DeadAreDead /\ AbandonedAreLeft)'
<1> USE DEF ProcessesInv
<1>1. Owners' /\ AbandonedAreLeft'
  BY MainStep DEF workerVars
<1>2. EventsOfOwners' /\ BooksOfOwners' /\ DeadAreDead'
  BY DEF EventsOfOwners, BooksOfOwners, DeadAreDead, osVars, workerVars
<1> QED
  BY <1>1, <1>2

LEMMA AskStep ==
    ASSUME ProcessesInv, NEW p \in Procs, PoolAsks(p) \/ MonitorAsks
    PROVE  (Owners /\ EventsOfOwners /\ BooksOfOwners /\ DeadAreDead /\ AbandonedAreLeft)'
<1>1. CASE PoolAsks(p)
  <2>1. Abandoned' \subseteq Abandoned
    BY <1>1 DEF PoolAsks, AddTask, Abandoned
  <2> QED
    BY <1>1, <2>1, QuietStep DEF PoolAsks
<1>2. CASE MonitorAsks
  <2>1. Abandoned' \subseteq Abandoned
    BY <1>2 DEF MonitorAsks, AddTask, Abandoned
  <2> QED
    BY <1>2, <2>1, QuietStep DEF MonitorAsks
<1> QED
  BY <1>1, <1>2

LEMMA ShutdownStep ==
    ASSUME ProcessesInv, StopPool \/ PutSentinel \/ MonitorEnds
    PROVE  (Owners /\ EventsOfOwners /\ BooksOfOwners /\ DeadAreDead /\ AbandonedAreLeft)'
<1> USE DEF ProcessesInv
<1>1. UNCHANGED <<osVars, life, current, told, known, monitorVars, killerVars>>
  BY DEF StopPool, PutSentinel, MonitorEnds, workerVars
<1>2. Abandoned' = Abandoned
  BY <1>1 DEF Abandoned, monitorVars, killerVars
<1>3. Owners' /\ AbandonedAreLeft'
  BY <1>1, <1>2, MainStep
<1>4. BooksOfOwners' /\ DeadAreDead'
  BY <1>1 DEF BooksOfOwners, DeadAreDead, osVars, monitorVars
<1>5. EventsOfOwners'
  <2>1. ASSUME NEW i \in 1..Len(queue'), queue'[i] # None
        PROVE  \E j \in 1..Len(queue) : queue'[i] = queue[j]
    <3>1. queue \in Seq(Events \cup {None})
      BY DEF TypeOK
    <3>2. CASE StopPool
      BY <3>2, <2>1 DEF StopPool, workerVars
    <3>3. CASE PutSentinel
      BY <3>1, <3>3, <2>1 DEF PutSentinel
    <3>4. CASE MonitorEnds
      <4>1. i + 1 \in 1..Len(queue) /\ queue'[i] = queue[i + 1]
        BY <3>1, <3>4 DEF MonitorEnds
      <4> QED
        BY <4>1
    <3> QED
      BY <3>2, <3>3, <3>4
  <2> QED
    BY <1>1, <2>1 DEF EventsOfOwners, osVars
<1> QED
  BY <1>3, <1>4, <1>5

LEMMA KillerStep ==
    ASSUME ProcessesInv, Killer
    PROVE  (Owners /\ EventsOfOwners /\ BooksOfOwners /\ DeadAreDead /\ AbandonedAreLeft)'
<1> USE DEF ProcessesInv
<1>1. ASSUME NEW t \in tasks, KillerDrops(t)
      PROVE  (Owners /\ EventsOfOwners /\ BooksOfOwners /\ DeadAreDead /\ AbandonedAreLeft)'
  <2>1. Abandoned' \subseteq Abandoned
    BY <1>1 DEF KillerDrops, Abandoned, monitorVars
  <2> QED
    BY <1>1, <2>1, QuietStep DEF KillerDrops, monitorVars
<1>2. ASSUME NEW t \in tasks, KillerTakes(t)
      PROVE  (Owners /\ EventsOfOwners /\ BooksOfOwners /\ DeadAreDead /\ AbandonedAreLeft)'
  <2>1. t.proc \in Procs /\ t.proc \in Abandoned /\ Running(t.proc)
    BY <1>2 DEF TypeOK, Tasks, Abandoned, KillerTakes
  <2>2. \A v \in Workers : current[v] # t.proc
    BY <2>1 DEF AbandonedAreLeft
  <2>3. \A q \in Tree(t.proc) :
            q \in Procs /\ proc[q] # "unborn" /\ \A v \in Workers : current[v] # q
    BY <2>1, <2>2, TreeIsLeft
  <2>4. Abandoned' \subseteq Abandoned \cup Tree(t.proc)
    BY <1>2 DEF KillerTakes, Abandoned, monitorVars
  <2>5. Owners' /\ AbandonedAreLeft'
    BY <1>2, <2>3, <2>4, MainStep DEF KillerTakes, workerVars
  <2>6. EventsOfOwners' /\ BooksOfOwners' /\ DeadAreDead'
    BY <1>2 DEF KillerTakes, EventsOfOwners, BooksOfOwners, DeadAreDead, osVars, workerVars,
                monitorVars
  <2> QED
    BY <2>5, <2>6
<1>3. ASSUME NEW p \in Procs, KillerSignals(p)
      PROVE  (Owners /\ EventsOfOwners /\ BooksOfOwners /\ DeadAreDead /\ AbandonedAreLeft)'
  <2>1. Abandoned' \subseteq Abandoned
    BY <1>3 DEF KillerSignals, Abandoned, monitorVars
  <2>2. UNCHANGED <<workerVars, monitorVars>>
    BY <1>3 DEF KillerSignals
  <2>3. CASE UNCHANGED osVars
    BY <2>1, <2>2, <2>3, QuietStep DEF monitorVars
  <2>4. CASE Running(p) /\ EndOf(p)
    <3>1. Abandoned \subseteq Procs
      BY DEF TypeOK, Abandoned, Tasks
    <3>2. AbandonedAreLeft'
      BY <2>1, <2>2, <2>4, <3>1, EndStep DEF AbandonedAreLeft, workerVars
    <3> QED
      BY <2>2, <2>4, <3>2, EndStep
  <2> QED
    BY <1>3, <2>3, <2>4 DEF KillerSignals
<1>4. CASE KillerIsDone
  <2>1. Abandoned' \subseteq Abandoned
    BY <1>4 DEF KillerIsDone, ComesBackFor, Abandoned, monitorVars
  <2> QED
    BY <1>4, <2>1, QuietStep DEF KillerIsDone, monitorVars
<1>5. CASE KillerEnds
  <2>1. Abandoned' \subseteq Abandoned
    BY <1>5 DEF KillerEnds, Abandoned, monitorVars, killerVars
  <2> QED
    BY <1>5, <2>1, QuietStep DEF KillerEnds, monitorVars
<1> QED
  BY <1>1, <1>2, <1>3, <1>4, <1>5 DEF Killer

-----------------------------------------------------------------------------
(* The theorems *)

LEMMA InvStutter == ProcessesInv /\ UNCHANGED vars => ProcessesInv'
<1> SUFFICES ASSUME ProcessesInv, UNCHANGED vars PROVE ProcessesInv'
  OBVIOUS
<1> USE DEF ProcessesInv, vars, osVars, workerVars, monitorVars, killerVars
<1>1. TypeOK'
  BY DEF TypeOK
<1>2. Owners' /\ EventsOfOwners' /\ BooksOfOwners' /\ DeadAreDead'
  BY DEF Owners, EventsOfOwners, BooksOfOwners, DeadAreDead
<1>3. AbandonedAreLeft'
  BY DEF AbandonedAreLeft, Abandoned
<1> QED
  BY <1>1, <1>2, <1>3

LEMMA InvStep == ProcessesInv /\ [Next]_vars => ProcessesInv'
<1> SUFFICES ASSUME ProcessesInv, [Next]_vars PROVE ProcessesInv'
  OBVIOUS
<1> USE DEF ProcessesInv
<1>1. ASSUME NEW p \in Procs, ProcExit(p) PROVE ProcessesInv'
  BY <1>1, ExitStep, TypeOS
<1>2. ASSUME NEW p \in Procs, NEW q \in Procs, Fork(p, q) PROVE ProcessesInv'
  BY <1>2, ForkStep, TypeOS
<1>3. ASSUME NEW w \in Workers, StartWorker(w) PROVE ProcessesInv'
  BY <1>3, StartStep, TypeWorker
<1>4. ASSUME NEW w \in Workers, NotifyStart(w) PROVE ProcessesInv'
  BY <1>4, NotifyStartStep, TypeWorker
<1>5. ASSUME NEW w \in Workers, NotifyEnd(w) PROVE ProcessesInv'
  BY <1>5, NotifyEndStep, TypeWorker
<1>6. ASSUME NEW w \in Workers, WorkerEnds(w) PROVE ProcessesInv'
  BY <1>6, WorkerEndsStep, TypeWorker
<1>7. ASSUME NEW w \in Workers, NEW p \in Procs, Spawn(w, p) PROVE ProcessesInv'
  BY <1>7, SpawnStep, TypeWorker
<1>8. ASSUME NEW w \in Workers, OnWorkerStarted(w) PROVE ProcessesInv'
  BY <1>8, OnWorkerStartedStep, TypePool
<1>9. ASSUME NEW w \in Workers, OnWorkerStopped(w) PROVE ProcessesInv'
  BY <1>9, OnWorkerStoppedStep, TypePool
<1>10. ASSUME NEW p \in Procs, PoolAsks(p) PROVE ProcessesInv'
  BY <1>10, AskStep, TypeKiller
<1>11. CASE MonitorTakes
  BY <1>11, MonitorTakesStep, TypeMonitor
<1>12. CASE MonitorAsks
  <2>1. monitorKill \in Procs
    BY <1>12 DEF MonitorAsks, TypeOK
  <2> QED
    BY <1>12, <2>1, AskStep, TypeMonitor
<1>13. CASE StopPool \/ PutSentinel \/ MonitorEnds
  BY <1>13, ShutdownStep, TypeMonitor
<1>14. CASE Killer
  BY <1>14, KillerStep, TypeKiller
<1>15. CASE Ended \/ UNCHANGED vars
  BY <1>15, InvStutter DEF Ended
<1> QED
  BY <1>1, <1>2, <1>3, <1>4, <1>5, <1>6, <1>7, <1>8, <1>9, <1>10, <1>11, <1>12, <1>13, <1>14,
     <1>15 DEF Next, Pool, Monitor

\* The books, the events on the queue and the killer's tasks agree at every
\* moment with what the workers do, for any number of workers and subprocesses.
THEOREM ProcessesInvariant == Spec => []ProcessesInv
<1> QED
  BY InvInit, InvStep, PTL DEF Spec

\* The subprocess of a living worker is never killed (_on_pid_queue_event,
\* on_worker_stopped, _do_terminate).
THEOREM OnlyAbandoned == Spec => []OnlyAbandonedKilled
<1>1. ProcessesInv => OnlyAbandonedKilled
  BY DEF ProcessesInv, OnlyAbandonedKilled, AbandonedAreLeft
<1> QED
  BY <1>1, ProcessesInvariant, PTL

-----------------------------------------------------------------------------
(* The books: what the hooks, the events and the monitor make of them *)

LEMMA BooksInit == Init => BooksInv
<1> SUFFICES ASSUME Init PROVE BooksInv
  OBVIOUS
<1>1. queue = <<>> /\ recentDead = <<>> /\ DOMAIN tracked = {} /\ told = {}
      /\ \A w \in Workers : hook[w] = "none"
  BY DEF Init
<1>2. DeadHaveNoPage
  BY <1>1 DEF DeadHaveNoPage
<1>3. StartedAreKnown
  BY <1>1 DEF StartedAreKnown
<1>4. BooksFollow
  BY <1>1 DEF BooksFollow, Noted, Tracking
<1> QED
  BY <1>2, <1>3, <1>4 DEF BooksInv

\* An event that is appended decides what will be noted of its subprocess.
LEMMA NotedAppend ==
    ASSUME queue \in Seq(Events \cup {None}), NEW e \in Events \cup {None},
           queue' = Append(queue, e), UNCHANGED tracked, NEW w, NEW p
    PROVE  Noted(w, p)' <=> IF e # None /\ e.worker = w /\ e.child = p
                            THEN e.type = "started" ELSE Noted(w, p)
<1>n. PICK n \in Nat : n = Len(queue)
  OBVIOUS
<1>0. /\ Len(queue') = n + 1 /\ queue'[n + 1] = e
      /\ \A i \in 1..n : queue'[i] = queue[i]
  BY <1>n
<1>1. \A i \in 1..n : About(i, w, p)' <=> About(i, w, p)
  BY <1>0 DEF About
<1>2. About(n + 1, w, p)' <=> (e # None /\ e.worker = w /\ e.child = p)
  BY <1>0 DEF About
<1>3. Tracking(w)' = Tracking(w)
  BY DEF Tracking
<1>4. /\ n + 1 \in 1..(n + 1)
      /\ \A i \in 1..n : i \in 1..(n + 1) /\ n + 1 > i
      /\ \A i \in 1..(n + 1) : i \in 1..n \/ (i = n + 1 /\ \A j \in 1..(n + 1) : ~(j > i))
  BY <1>0
<1>5. Noted(w, p) <=>
        \/ \E i \in 1..n :
              /\ About(i, w, p) /\ queue[i].type = "started"
              /\ \A j \in 1..n : j > i => ~About(j, w, p)
        \/ p \in Tracking(w) /\ \A j \in 1..n : ~About(j, w, p)
  BY <1>n DEF Noted
<1>6. Noted(w, p)' <=>
        \/ \E i \in 1..(n + 1) :
              /\ About(i, w, p)' /\ queue'[i].type = "started"
              /\ \A j \in 1..(n + 1) : j > i => ~About(j, w, p)'
        \/ p \in Tracking(w) /\ \A j \in 1..(n + 1) : ~About(j, w, p)'
  BY <1>0, <1>3 DEF Noted
<1>7. CASE e # None /\ e.worker = w /\ e.child = p
  <2>1. About(n + 1, w, p)'
    BY <1>2, <1>7
  <2>2. ASSUME Noted(w, p)' PROVE e.type = "started"
    <3>1. PICK i \in 1..(n + 1) :
              /\ About(i, w, p)' /\ queue'[i].type = "started"
              /\ \A j \in 1..(n + 1) : j > i => ~About(j, w, p)'
      BY <1>4, <1>6, <2>1, <2>2
    <3>2. i = n + 1
      BY <1>4, <2>1, <3>1
    <3> QED
      BY <1>0, <3>1, <3>2
  <2>3. ASSUME e.type = "started" PROVE Noted(w, p)'
    BY <1>0, <1>4, <1>6, <2>1, <2>3
  <2> QED
    BY <1>7, <2>2, <2>3
<1>8. CASE ~(e # None /\ e.worker = w /\ e.child = p)
  <2>1. ~About(n + 1, w, p)'
    BY <1>2, <1>8
  <2>2. \A i \in 1..n : (\A j \in 1..(n + 1) : j > i => ~About(j, w, p)')
                        <=> (\A j \in 1..n : j > i => ~About(j, w, p))
    BY <1>1, <1>4, <2>1
  <2>3. (\A j \in 1..(n + 1) : ~About(j, w, p)') <=> (\A j \in 1..n : ~About(j, w, p))
    BY <1>1, <1>4, <2>1
  <2>4. (\E i \in 1..(n + 1) :
            /\ About(i, w, p)' /\ queue'[i].type = "started"
            /\ \A j \in 1..(n + 1) : j > i => ~About(j, w, p)')
        <=> (\E i \in 1..n :
                /\ About(i, w, p) /\ queue[i].type = "started"
                /\ \A j \in 1..n : j > i => ~About(j, w, p))
    BY <1>0, <1>1, <1>4, <2>1, <2>2
  <2>5. Noted(w, p)' <=> Noted(w, p)
    BY <1>5, <1>6, <2>3, <2>4
  <2> QED
    BY <1>8, <2>5
<1> QED
  BY <1>7, <1>8

\* When the monitor takes an event, what will be noted stays what it is, if the
\* page of its worker follows the event.
LEMMA NotedTail ==
    ASSUME queue \in Seq(Events \cup {None}), queue # <<>>, queue' = Tail(queue), NEW w, NEW p,
           p \in Tracking(w)' <=>
               IF About(1, w, p) THEN queue[1].type = "started" ELSE p \in Tracking(w)
    PROVE  Noted(w, p)' <=> Noted(w, p)
<1> DEFINE n == Len(queue)
<1>0. /\ n \in Nat /\ n >= 1 /\ Len(queue') = n - 1
      /\ \A i \in 1..(n - 1) : queue'[i] = queue[i + 1]
  OBVIOUS
<1>1. \A i \in 1..(n - 1) : About(i, w, p)' <=> About(i + 1, w, p)
  BY <1>0 DEF About
<1> HIDE DEF n
<1>2. Noted(w, p)' <=>
        \/ \E i \in 1..(n - 1) :
              /\ About(i + 1, w, p) /\ queue[i + 1].type = "started"
              /\ \A j \in 1..(n - 1) : j > i => ~About(j + 1, w, p)
        \/ p \in Tracking(w)' /\ \A j \in 1..(n - 1) : ~About(j + 1, w, p)
  BY <1>0, <1>1 DEF Noted
<1>3. Noted(w, p) <=>
        \/ \E i \in 1..n :
              /\ About(i, w, p) /\ queue[i].type = "started"
              /\ \A j \in 1..n : j > i => ~About(j, w, p)
        \/ p \in Tracking(w) /\ \A j \in 1..n : ~About(j, w, p)
  BY DEF Noted, n
<1>4. ASSUME Noted(w, p)' PROVE Noted(w, p)
  <2>1. ASSUME NEW i \in 1..(n - 1), About(i + 1, w, p), queue[i + 1].type = "started",
               \A j \in 1..(n - 1) : j > i => ~About(j + 1, w, p)
        PROVE  Noted(w, p)
    <3>1. i + 1 \in 1..n
      BY <1>0
    <3>2. ASSUME NEW j \in 1..n, j > i + 1 PROVE ~About(j, w, p)
      <4>1. j - 1 \in 1..(n - 1) /\ j - 1 > i /\ (j - 1) + 1 = j
        BY <1>0, <3>2
      <4> QED
        BY <2>1, <4>1
    <3> QED
      BY <1>3, <2>1, <3>1, <3>2
  <2>2. ASSUME p \in Tracking(w)', \A j \in 1..(n - 1) : ~About(j + 1, w, p)
        PROVE  Noted(w, p)
    <3>1. ASSUME NEW j \in 1..n, j # 1 PROVE ~About(j, w, p)
      <4>1. j - 1 \in 1..(n - 1) /\ (j - 1) + 1 = j
        BY <1>0, <3>1
      <4> QED
        BY <2>2, <4>1
    <3>2. 1 \in 1..n
      BY <1>0
    <3>3. CASE About(1, w, p)
      <4>1. \A j \in 1..n : j > 1 => ~About(j, w, p)
        BY <3>1
      <4> QED
        BY <1>3, <2>2, <3>2, <3>3, <4>1
    <3>4. CASE ~About(1, w, p)
      BY <1>3, <2>2, <3>1, <3>4
    <3> QED
      BY <3>3, <3>4
  <2> QED
    BY <1>2, <1>4, <2>1, <2>2
<1>5. ASSUME Noted(w, p) PROVE Noted(w, p)'
  <2>0. \A j \in 1..(n - 1) : j + 1 \in 1..n /\ j + 1 > 1
    BY <1>0
  <2>1. ASSUME NEW i \in 1..n, About(i, w, p), queue[i].type = "started",
               \A j \in 1..n : j > i => ~About(j, w, p)
        PROVE  Noted(w, p)'
    <3>1. CASE i = 1
      <4>1. \A j \in 1..(n - 1) : ~About(j + 1, w, p)
        BY <2>0, <2>1, <3>1
      <4> QED
        BY <1>2, <2>1, <3>1, <4>1
    <3>2. CASE i # 1
      <4>1. i - 1 \in 1..(n - 1) /\ (i - 1) + 1 = i
        BY <1>0, <3>2
      <4>2. \A j \in 1..(n - 1) : j > i - 1 => j + 1 > i
        BY <1>0
      <4>3. \A j \in 1..(n - 1) : j > i - 1 => ~About(j + 1, w, p)
        BY <2>0, <2>1, <4>2
      <4> QED
        BY <1>2, <2>1, <4>1, <4>3
    <3> QED
      BY <3>1, <3>2
  <2>2. ASSUME p \in Tracking(w), \A j \in 1..n : ~About(j, w, p)
        PROVE  Noted(w, p)'
    <3>1. 1 \in 1..n
      BY <1>0
    <3> QED
      BY <1>2, <2>0, <2>2, <3>1
  <2> QED
    BY <1>3, <1>5, <2>1, <2>2
<1> QED
  BY <1>4, <1>5

\* A step that leaves events and books alone, and lets nobody but a dying worker
\* end what was reported.
LEMMA BooksQuiet ==
    ASSUME BooksInv, UNCHANGED <<queue, hook, tracked, late>>,
           \A v \in Workers : life[v] # "unborn" => life'[v] # "unborn",
           TypeOK,
           \A v \in Workers, p \in Procs :
               life'[v] # "dead" =>
                   /\ life[v] # "dead"
                   /\ (v \in told' /\ current'[v] = p) <=> (v \in told /\ current[v] = p)
    PROVE  BooksInv'
<1>1. DeadHaveNoPage'
  BY DEF BooksInv, DeadHaveNoPage
<1>2. StartedAreKnown'
  <2>1. \A i \in 1..Len(queue) : queue[i] # None => queue[i].worker \in Workers
    BY DEF TypeOK, Events
  <2> QED
    BY <2>1 DEF BooksInv, StartedAreKnown, TypeOK
<1>3. \A w \in Workers, p \in Procs : Noted(w, p)' <=> Noted(w, p)
  BY DEF Noted, About, Tracking
<1>4. BooksFollow'
  BY <1>3 DEF BooksInv, BooksFollow
<1> QED
  BY <1>1, <1>2, <1>4 DEF BooksInv

LEMMA NotifyBooks ==
    ASSUME ProcessesInv, BooksInv, NEW w \in Workers, NotifyStart(w) \/ NotifyEnd(w)
    PROVE  BooksInv'
<1>0. /\ current[w] \in Procs /\ life[w] = "alive"
      /\ UNCHANGED <<life, hook, tracked, late>>
  BY DEF NotifyStart, NotifyEnd, ProcessesInv, TypeOK, monitorVars
<1>1. PICK e \in Events :
         /\ e.worker = w /\ e.child = current[w] /\ queue' = Append(queue, e)
         /\ e.type = "started" => w \notin told /\ told' = told \cup {w} /\ current' = current
         /\ e.type # "started" => w \in told /\ told' = told \ {w}
                                  /\ current' = [current EXCEPT ![w] = None]
  <2>1. CASE NotifyStart(w)
    <3>1. Event(w, current[w], "started") \in Events
      BY <1>0 DEF Events
    <3> QED
      BY <2>1, <3>1 DEF NotifyStart
  <2>2. CASE NotifyEnd(w)
    <3>1. \A t \in {"orphaned", "finished"} : Event(w, current[w], t) \in Events
      BY <1>0 DEF Events
    <3>2. PICK t \in {"orphaned", "finished"} : queue' = Append(queue, Event(w, current[w], t))
      BY <2>2 DEF NotifyEnd
    <3> QED
      BY <2>2, <3>1, <3>2 DEF NotifyEnd
  <2> QED
    BY <2>1, <2>2
<1>2. queue \in Seq(Events \cup {None}) /\ e # None
  BY ProcessesAssumption DEF ProcessesInv, TypeOK
<1>3. DeadHaveNoPage'
  BY <1>0 DEF BooksInv, DeadHaveNoPage
<1>4. StartedAreKnown'
  <2> SUFFICES ASSUME NEW i \in 1..Len(queue'), queue'[i] # None
               PROVE  life[queue'[i].worker] # "unborn"
    BY <1>0 DEF BooksInv, StartedAreKnown
  <2>1. queue'[i] = e \/ (i \in 1..Len(queue) /\ queue'[i] = queue[i])
    BY <1>1, <1>2
  <2> QED
    BY <1>0, <1>1, <2>1 DEF BooksInv, StartedAreKnown
<1>5. BooksFollow'
  <2> SUFFICES ASSUME NEW v \in Workers, NEW p \in Procs, life[v] # "dead"
               PROVE  Noted(v, p)' <=> v \in told' /\ current'[v] = p
    BY <1>0 DEF BooksFollow
  <2>1. Noted(v, p)' <=> IF w = v /\ current[w] = p THEN e.type = "started" ELSE Noted(v, p)
    BY <1>0, <1>1, <1>2, NotedAppend
  <2>2. Noted(v, p) <=> v \in told /\ current[v] = p
    BY DEF BooksInv, BooksFollow
  <2>3. current \in [Workers -> Procs \cup {None}] /\ p # None
    BY ProcessesAssumption DEF ProcessesInv, TypeOK
  <2>4. CASE v # w
    BY <1>1, <2>1, <2>2, <2>3, <2>4
  <2>5. CASE v = w
    BY <1>1, <2>1, <2>2, <2>3, <2>5
  <2> QED
    BY <2>4, <2>5
<1> QED
  BY <1>3, <1>4, <1>5 DEF BooksInv

LEMMA OnWorkerStartedBooks ==
    ASSUME ProcessesInv, BooksInv, NEW w \in Workers, OnWorkerStarted(w)
    PROVE  BooksInv'
<1> USE DEF ProcessesInv
<1>0. /\ hook[w] = "none" /\ life[w] # "unborn"
      /\ UNCHANGED <<life, current, told, queue, late>>
      /\ \A v \in Workers : hook'[v] = IF v = w THEN "started" ELSE hook[v]
      /\ tracked' = [v \in DOMAIN tracked \cup {w} |-> IF v = w THEN Tracking(w) ELSE tracked[v]]
  BY DEF OnWorkerStarted, Track, TypeOK, workerVars
<1>1. DeadHaveNoPage'
  BY <1>0 DEF BooksInv, DeadHaveNoPage
<1>2. StartedAreKnown'
  BY <1>0 DEF BooksInv, StartedAreKnown
<1>3. \A v \in Workers : Tracking(v)' = Tracking(v)
  BY <1>0 DEF Tracking
<1>4. \A v \in Workers, p \in Procs : Noted(v, p)' <=> Noted(v, p)
  BY <1>0, <1>3 DEF Noted, About
<1>5. BooksFollow'
  BY <1>0, <1>4 DEF BooksInv, BooksFollow
<1> QED
  BY <1>1, <1>2, <1>5 DEF BooksInv

LEMMA OnWorkerStoppedBooks ==
    ASSUME ProcessesInv, BooksInv, NEW w \in Workers, OnWorkerStopped(w)
    PROVE  BooksInv'
<1> USE DEF ProcessesInv
<1>0. /\ life[w] = "dead"
      /\ UNCHANGED <<life, current, told, queue, late>>
      /\ \A v \in Workers : hook'[v] = IF v = w THEN "stopped" ELSE hook[v]
      /\ tracked' = [v \in DOMAIN tracked \ {w} |-> tracked[v]]
  BY DEF OnWorkerStopped, TypeOK, workerVars
<1>1. DeadHaveNoPage'
  BY <1>0 DEF BooksInv, DeadHaveNoPage
<1>2. StartedAreKnown'
  BY <1>0 DEF BooksInv, StartedAreKnown
<1>3. BooksFollow'
  <2> SUFFICES ASSUME NEW v \in Workers, NEW p \in Procs, life[v] # "dead"
               PROVE  Noted(v, p)' <=> v \in told /\ current[v] = p
    BY <1>0 DEF BooksFollow
  <2>1. Tracking(v)' = Tracking(v)
    BY <1>0 DEF Tracking
  <2>2. Noted(v, p)' <=> Noted(v, p)
    BY <1>0, <2>1 DEF Noted, About
  <2> QED
    BY <2>2 DEF BooksInv, BooksFollow
<1> QED
  BY <1>1, <1>2, <1>3 DEF BooksInv

LEMMA MonitorTakesBooks ==
    ASSUME ProcessesInv, BooksInv, MonitorTakes
    PROVE  BooksInv'
<1> USE DEF ProcessesInv
<1> DEFINE e == Head(queue)
<1>0. /\ queue # <<>> /\ e # None /\ queue' = Tail(queue)
      /\ UNCHANGED <<life, current, told, hook, recentDead>>
      /\ IF Posthumous(e.worker) THEN UNCHANGED tracked ELSE Track(e.worker, Children(e))
      /\ late' = IF Forgotten(e.worker) THEN late \cup {e.worker} ELSE late
  BY DEF MonitorTakes
<1>1. /\ queue \in Seq(Events \cup {None}) /\ e = queue[1] /\ e \in Events
      /\ 1 \in 1..Len(queue)
      /\ \A i \in 1..Len(queue') : i + 1 \in 1..Len(queue) /\ queue'[i] = queue[i + 1]
  BY <1>0 DEF TypeOK
<1> HIDE DEF e
<1>2. e.worker \in Workers /\ e.child \in Procs /\ life[e.worker] # "unborn"
  BY <1>0, <1>1 DEF BooksInv, StartedAreKnown, Events
<1>3. DOMAIN tracked' \subseteq DOMAIN tracked \cup
          (IF Posthumous(e.worker) THEN {} ELSE {e.worker})
  BY <1>0 DEF Track
<1>4. DeadHaveNoPage'
  <2>1. ASSUME NEW v \in Workers, hook[v] = "stopped" PROVE v \in late' \/ v \notin DOMAIN tracked'
    <3>1. CASE v = e.worker /\ ~Posthumous(v)
      <4>1. Forgotten(e.worker)
        BY <2>1, <3>1 DEF Forgotten
      <4> QED
        BY <1>0, <3>1, <4>1
    <3>2. CASE ~(v = e.worker /\ ~Posthumous(v))
      <4>1. v \in DOMAIN tracked' => v \in DOMAIN tracked
        BY <1>3, <3>2
      <4> QED
        BY <1>0, <2>1, <4>1 DEF BooksInv, DeadHaveNoPage
    <3> QED
      BY <3>1, <3>2
  <2> QED
    BY <1>0, <2>1 DEF DeadHaveNoPage
<1>5. StartedAreKnown'
  BY <1>0, <1>1, <1>2, <1>3 DEF BooksInv, StartedAreKnown
<1>6. BooksFollow'
  <2> SUFFICES ASSUME NEW v \in Workers, NEW p \in Procs, life[v] # "dead"
               PROVE  Noted(v, p)' <=> v \in told /\ current[v] = p
    BY <1>0 DEF BooksFollow
  <2>1. ~Posthumous(v)
    BY DEF Posthumous, Range, DeadAreDead, TypeOK
  <2>2. About(1, v, p) <=> e.worker = v /\ e.child = p
    BY <1>0, <1>1 DEF About
  <2>3. p \in Tracking(v)' <=>
            IF About(1, v, p) THEN queue[1].type = "started" ELSE p \in Tracking(v)
    <3>1. CASE e.worker = v
      <4>1. Tracking(v)' = Children(e)
        BY <1>0, <2>1, <3>1 DEF Track, Tracking
      <4> QED
        BY <1>1, <2>2, <3>1, <4>1 DEF Children
    <3>2. CASE e.worker # v
      BY <1>0, <2>2, <3>2 DEF Track, Tracking
    <3> QED
      BY <3>1, <3>2
  <2>4. Noted(v, p)' <=> Noted(v, p)
    BY <1>0, <1>1, <2>3, NotedTail
  <2> QED
    BY <2>4 DEF BooksInv, BooksFollow
<1> QED
  BY <1>4, <1>5, <1>6 DEF BooksInv

\* The sentinel is no event.
LEMMA SentinelBooks ==
    ASSUME ProcessesInv, BooksInv, PutSentinel \/ MonitorEnds
    PROVE  BooksInv'
<1>0. UNCHANGED <<life, current, told, hook, tracked, late>>
  BY DEF PutSentinel, MonitorEnds, monitorVars
<1>1. queue \in Seq(Events \cup {None})
  BY DEF ProcessesInv, TypeOK
<1>2. DeadHaveNoPage'
  BY <1>0 DEF BooksInv, DeadHaveNoPage
<1>3. StartedAreKnown'
  <2> SUFFICES ASSUME NEW i \in 1..Len(queue'), queue'[i] # None
               PROVE  life[queue'[i].worker] # "unborn"
    BY <1>0 DEF BooksInv, StartedAreKnown
  <2>1. \E j \in 1..Len(queue) : queue'[i] = queue[j]
    <3>1. CASE PutSentinel
      <4>1. i \in 1..Len(queue) /\ queue'[i] = queue[i]
        BY <1>1, <3>1 DEF PutSentinel
      <4> QED
        BY <4>1
    <3>2. CASE MonitorEnds
      <4>1. i + 1 \in 1..Len(queue) /\ queue'[i] = queue[i + 1]
        BY <1>1, <3>2 DEF MonitorEnds
      <4> QED
        BY <4>1
    <3> QED
      BY <3>1, <3>2
  <2> QED
    BY <2>1 DEF BooksInv, StartedAreKnown
<1>4. BooksFollow'
  <2> SUFFICES ASSUME NEW v \in Workers, NEW p \in Procs, life[v] # "dead"
               PROVE  Noted(v, p)' <=> v \in told /\ current[v] = p
    BY <1>0 DEF BooksFollow
  <2>1. Noted(v, p)' <=> Noted(v, p)
    <3>1. CASE PutSentinel
      BY <1>0, <1>1, <3>1, NotedAppend DEF PutSentinel
    <3>2. CASE MonitorEnds
      <4>1. ~About(1, v, p) /\ Tracking(v)' = Tracking(v)
        BY <1>0, <1>1, <3>2 DEF About, Tracking, MonitorEnds
      <4> QED
        BY <1>1, <3>2, <4>1, NotedTail DEF MonitorEnds
    <3> QED
      BY <3>1, <3>2
  <2> QED
    BY <2>1 DEF BooksInv, BooksFollow
<1> QED
  BY <1>2, <1>3, <1>4 DEF BooksInv

LEMMA WorkerBooks ==
    ASSUME ProcessesInv, BooksInv, NEW w \in Workers,
           StartWorker(w) \/ WorkerEnds(w) \/ \E p \in Procs : Spawn(w, p)
    PROVE  BooksInv'
<1>0. TypeOK /\ UNCHANGED <<queue, hook, tracked, late>>
  BY DEF ProcessesInv, StartWorker, WorkerEnds, Spawn, monitorVars
<1>1. \A v \in Workers : life[v] # "unborn" => life'[v] # "unborn"
  BY DEF ProcessesInv, TypeOK, StartWorker, WorkerEnds, Spawn
<1>2. ASSUME NEW v \in Workers, NEW p \in Procs, life'[v] # "dead"
      PROVE  /\ life[v] # "dead"
             /\ (v \in told' /\ current'[v] = p) <=> (v \in told /\ current[v] = p)
  <2>1. CASE StartWorker(w)
    BY <1>2, <2>1 DEF ProcessesInv, TypeOK, StartWorker
  <2>2. CASE WorkerEnds(w)
    <3>1. v # w
      BY <1>2, <2>2 DEF ProcessesInv, TypeOK, WorkerEnds
    <3>2. life'[v] = life[v] /\ current'[v] = current[v]
      BY <2>2, <3>1 DEF ProcessesInv, TypeOK, WorkerEnds
    <3>3. v \in told' <=> v \in told
      BY <2>2, <3>1 DEF WorkerEnds
    <3> QED
      BY <1>2, <3>2, <3>3
  <2>3. ASSUME NEW q \in Procs, Spawn(w, q)
        PROVE  life' = life /\ told' = told /\ w \notin told
               /\ (v # w => current'[v] = current[v])
    BY <2>3 DEF ProcessesInv, TypeOK, Spawn
  <2> QED
    BY <1>2, <2>1, <2>2, <2>3
<1> QED
  BY <1>0, <1>1, <1>2, BooksQuiet

LEMMA BooksStep == ProcessesInv /\ BooksInv /\ [Next]_vars => BooksInv'
<1> SUFFICES ASSUME ProcessesInv, BooksInv, [Next]_vars PROVE BooksInv'
  OBVIOUS
<1>0. TypeOK
  BY DEF ProcessesInv
<1>1. CASE UNCHANGED <<workerVars, hook, tracked, late>>
  BY <1>0, <1>1, BooksQuiet DEF workerVars
<1>2. ASSUME NEW w \in Workers, StartWorker(w) \/ WorkerEnds(w) PROVE BooksInv'
  BY <1>2, WorkerBooks
<1>3. ASSUME NEW w \in Workers, NEW p \in Procs, Spawn(w, p) PROVE BooksInv'
  BY <1>3, WorkerBooks
<1>4. ASSUME NEW w \in Workers, NotifyStart(w) \/ NotifyEnd(w) PROVE BooksInv'
  BY <1>4, NotifyBooks
<1>5. ASSUME NEW w \in Workers, OnWorkerStarted(w) PROVE BooksInv'
  BY <1>5, OnWorkerStartedBooks
<1>6. ASSUME NEW w \in Workers, OnWorkerStopped(w) PROVE BooksInv'
  BY <1>6, OnWorkerStoppedBooks
<1>7. CASE MonitorTakes
  BY <1>7, MonitorTakesBooks
<1>8. CASE PutSentinel \/ MonitorEnds
  BY <1>8, SentinelBooks
<1>9. ASSUME NEW p \in Procs, ProcExit(p) \/ (\E q \in Procs : Fork(p, q)) \/ PoolAsks(p)
      PROVE  UNCHANGED <<workerVars, hook, tracked, late>>
  BY <1>9 DEF ProcExit, Fork, PoolAsks, monitorVars
<1>10. CASE MonitorAsks \/ StopPool \/ Ended \/ UNCHANGED vars
  BY <1>1, <1>10 DEF MonitorAsks, StopPool, Ended, vars, monitorVars
<1>11. CASE Killer
  BY <1>1, <1>11 DEF Killer, KillerDrops, KillerTakes, KillerSignals, KillerIsDone, KillerEnds,
                     monitorVars
<1> QED
  BY <1>1, <1>2, <1>3, <1>4, <1>5, <1>6, <1>7, <1>8, <1>9, <1>10, <1>11 DEF Next, Pool, Monitor

\* The deque remembers every stopped worker, and the books follow the events, for
\* any number of workers.
THEOREM BooksInvariant == Spec => []BooksInv
<1> QED
  BY BooksInit, BooksStep, ProcessesInvariant, PTL DEF Spec

\* The books are right whatever the order in which hooks, events and the ends of
\* workers came (on_worker_started, on_worker_stopped, _on_pid_queue_event).
THEOREM BooksStayRight == Spec => []BooksAreRight
<1>1. ProcessesInv /\ BooksInv => BooksAreRight
  <2> SUFFICES ASSUME ProcessesInv, BooksInv PROVE BooksAreRight
    OBVIOUS
  <2>1. ASSUME queue = <<>>, NEW w \in DOMAIN tracked, life[w] = "alive"
        PROVE  tracked[w] = IF w \in told THEN {current[w]} ELSE {}
    <3>1. w \in Workers /\ tracked[w] \subseteq Procs /\ (w \in told => current[w] \in Procs)
      BY DEF ProcessesInv, TypeOK
    <3>2. ASSUME NEW p \in Procs PROVE p \in tracked[w] <=> w \in told /\ current[w] = p
      <4>1. Noted(w, p) <=> p \in tracked[w]
        BY <2>1 DEF Noted, Tracking
      <4> QED
        BY <2>1, <3>1, <4>1 DEF BooksInv, BooksFollow
    <3> QED
      BY <3>1, <3>2
  <2> QED
    BY <2>1 DEF ProcessesInv, DeadAreDead, BooksInv, DeadHaveNoPage, BooksAreRight
<1> QED
  BY <1>1, ProcessesInvariant, BooksInvariant, PTL

-----------------------------------------------------------------------------
(* Nothing survives: no subprocess that runs is forgotten *)

\* Where a subprocess of w that was reported is, when nobody is to kill it yet
InHand(w, p) == p \in Tracking(w) \/ \E i \in 1..Len(queue) : About(i, w, p)

LEMMA SurvivorsInit == Init => SurvivorsInv
<1> SUFFICES ASSUME Init PROVE SurvivorsInv
  OBVIOUS
<1>1. NothingIsLost
  BY ProcessesAssumption DEF Init, NothingIsLost
<1>2. ExitsInOrder
  BY DEF Init, ExitsInOrder
<1> QED
  BY <1>1, <1>2 DEF SurvivorsInv

\* A process that no longer runs does not run again; a step that hands on what
\* runs, and reports only what is in hand, loses nothing.
LEMMA HandedOn ==
    ASSUME ProcessesInv, NothingIsLost, TypeOK',
           \A p \in Procs : proc[p] # "unborn" =>
               proc'[p] # "unborn" /\ (proc'[p] = "running" => Running(p)),
           \A i \in 1..Len(queue') : (\E j \in 1..Len(queue) : queue'[i] = queue[j]) \/
               (queue'[i] # None /\ queue'[i].type = "finished" =>
                    proc'[queue'[i].child] # "running"),
           \A p \in Procs : Running(p) /\ proc'[p] = "running" /\ ToBeKilled(p) => ToBeKilled(p)',
           \A p \in condemned' : p \in condemned \/ ToBeKilled(p)',
           \A w \in Workers, p \in Procs :
               Running(p) /\ InHand(w, p) => InHand(w, p)' \/ ToBeKilled(p)',
           \A w \in Workers, p \in Procs :
               known'[p] = w => known[p] = w \/ (proc'[p] # "unborn" /\ InHand(w, p)')
    PROVE  NothingIsLost'
<1> USE DEF ProcessesInv
<1>1. ASSUME NEW p \in Procs, known'[p] # None PROVE proc'[p] # "unborn"
  BY <1>1, ProcessesAssumption DEF NothingIsLost, TypeOK
<1>2. ASSUME NEW i \in 1..Len(queue'), queue'[i] # None, queue'[i].type = "finished"
      PROVE  proc'[queue'[i].child] # "running"
  <2>1. CASE \E j \in 1..Len(queue) : queue'[i] = queue[j]
    <3>1. PICK j \in 1..Len(queue) : queue'[i] = queue[j]
      BY <2>1
    <3>2. queue[j] # None /\ queue[j].type = "finished" /\ queue[j].child \in Procs
      BY <1>2, <3>1 DEF TypeOK, Events
    <3>3. proc[queue[j].child] # "unborn" /\ ~Running(queue[j].child)
      BY <3>2 DEF NothingIsLost, EventsOfOwners
    <3> QED
      BY <3>1, <3>2, <3>3
  <2> QED
    BY <1>2, <2>1
<1>3. ASSUME NEW p \in condemned', proc'[p] = "running" PROVE ToBeKilled(p)'
  <2>1. CASE p \in condemned
    <3>1. p \in Procs /\ proc[p] # "unborn"
      BY <2>1 DEF TypeOK, AbandonedAreLeft, Abandoned
    <3> QED
      BY <1>3, <2>1, <3>1 DEF NothingIsLost
  <2> QED
    BY <1>3, <2>1
<1>4. ASSUME NEW p \in Procs, NEW w \in Workers, known'[p] = w, proc'[p] = "running"
      PROVE  ToBeKilled(p)' \/ InHand(w, p)'
  <2>1. CASE known[p] = w
    <3>1. proc[p] # "unborn"
      BY <2>1, ProcessesAssumption DEF NothingIsLost
    <3>2. Running(p)
      BY <1>4, <3>1
    <3>3. ToBeKilled(p) \/ InHand(w, p)
      BY <2>1, <3>2 DEF NothingIsLost, InHand
    <3> QED
      BY <1>4, <3>2, <3>3
  <2> QED
    BY <1>4, <2>1 DEF InHand
<1> QED
  BY <1>1, <1>2, <1>3, <1>4 DEF NothingIsLost, InHand

\* A process never goes back.
LEMMA OnceGone ==
    ASSUME TypeOK, [Next]_vars, NEW p \in Procs, proc[p] # "unborn"
    PROVE  proc'[p] # "unborn" /\ (proc'[p] = "running" => Running(p))
<1> DEFINE Kept == proc'[p] # "unborn" /\ (proc'[p] = "running" => Running(p))
<1>1. ASSUME UNCHANGED proc PROVE Kept
  BY <1>1
<1>2. ASSUME NEW q \in Procs, EndOf(q) PROVE Kept
  BY <1>2 DEF EndOf, TypeOK
<1>3. ASSUME NEW q \in Procs, proc[q] = "unborn", proc' = [proc EXCEPT ![q] = "running"]
      PROVE  Kept
  BY <1>3 DEF TypeOK
<1> HIDE DEF Kept
<1>4. ASSUME NEW q \in Procs, ProcExit(q) \/ KillerSignals(q) \/ PoolAsks(q) PROVE Kept
  <2>1. EndOf(q) \/ UNCHANGED proc
    BY <1>4 DEF ProcExit, KillerSignals, PoolAsks, osVars
  <2> QED
    BY <1>1, <1>2, <2>1
<1>5. ASSUME NEW r \in Procs, NEW q \in Procs, Fork(r, q) PROVE Kept
  BY <1>3, <1>5 DEF Fork
<1>6. ASSUME NEW w \in Workers, NEW q \in Procs, Spawn(w, q) PROVE Kept
  BY <1>3, <1>6 DEF Spawn
<1>7. ASSUME NEW w \in Workers,
             StartWorker(w) \/ NotifyStart(w) \/ NotifyEnd(w) \/ WorkerEnds(w)
             \/ OnWorkerStarted(w) \/ OnWorkerStopped(w)
      PROVE  Kept
  <2>1. UNCHANGED proc
    BY <1>7 DEF StartWorker, NotifyStart, NotifyEnd, WorkerEnds, OnWorkerStarted,
                OnWorkerStopped, osVars
  <2> QED
    BY <1>1, <2>1
<1>8. ASSUME PutSentinel \/ Monitor \/ StopPool \/ Ended \/ UNCHANGED vars PROVE Kept
  <2>1. UNCHANGED proc
    BY <1>8 DEF PutSentinel, Monitor, MonitorTakes, MonitorAsks, MonitorEnds, StopPool,
                Ended, vars, osVars
  <2> QED
    BY <1>1, <2>1
<1>9. ASSUME Killer PROVE Kept
  BY <1>1, <1>4, <1>9 DEF Killer, KillerDrops, KillerTakes, KillerIsDone, KillerEnds, osVars
<1> QED
  BY <1>4, <1>5, <1>6, <1>7, <1>8, <1>9 DEF Next, Pool, Kept

\* Steps that leave events and books alone
LEMMA HandsFree ==
    ASSUME ProcessesInv, NothingIsLost, TypeOK', [Next]_vars, UNCHANGED <<queue, tracked, known>>,
           \A p \in Procs : Running(p) /\ proc'[p] = "running" /\ ToBeKilled(p) => ToBeKilled(p)',
           \A p \in condemned' : p \in condemned \/ ToBeKilled(p)'
    PROVE  NothingIsLost'
<1>1. \A w \in Workers, p \in Procs : InHand(w, p)' <=> InHand(w, p)
  BY DEF InHand, Tracking, About
<1>2. \A p \in Procs : proc[p] # "unborn" =>
          proc'[p] # "unborn" /\ (proc'[p] = "running" => Running(p))
  BY OnceGone DEF ProcessesInv
<1> QED
  BY <1>1, <1>2, HandedOn

LEMMA QuietLost ==
    ASSUME ProcessesInv, NothingIsLost, TypeOK', [Next]_vars,
           UNCHANGED <<queue, known, monitorVars, killerVars>>
    PROVE  NothingIsLost'
<1>1. \A p : ToBeKilled(p)' <=> ToBeKilled(p)
  BY DEF ToBeKilled, monitorVars, killerVars
<1> QED
  BY <1>1, HandsFree DEF monitorVars, killerVars

LEMMA AskLost ==
    ASSUME ProcessesInv, NothingIsLost, TypeOK', [Next]_vars, NEW p \in Procs,
           PoolAsks(p) \/ MonitorAsks
    PROVE  NothingIsLost'
<1>1. UNCHANGED <<queue, tracked, known, condemned>>
  BY DEF PoolAsks, MonitorAsks, workerVars
<1>2. ASSUME NEW q \in Procs, Running(q), ToBeKilled(q) PROVE ToBeKilled(q)'
  <2>1. CASE PoolAsks(p)
    <3>1. q = p => Task(FALSE, q) \in tasks'
      BY <1>2, <2>1 DEF PoolAsks, AddTask
    <3>2. tasks \subseteq tasks' /\ UNCHANGED <<targets, survivors, monitorKill>>
          /\ poolKills' = poolKills \ {p}
      BY <2>1 DEF PoolAsks, AddTask
    <3>3. Task(FALSE, q).proc = q
      OBVIOUS
    <3> QED
      BY <1>2, <3>1, <3>2, <3>3 DEF ToBeKilled
  <2>2. CASE MonitorAsks
    <3>1. q = monitorKill => Task(FALSE, q) \in tasks'
      BY <1>2, <2>2 DEF MonitorAsks, AddTask
    <3>2. tasks \subseteq tasks' /\ UNCHANGED <<targets, survivors, poolKills>>
      BY <2>2 DEF MonitorAsks, AddTask
    <3>3. Task(FALSE, q).proc = q
      OBVIOUS
    <3> QED
      BY <1>2, <3>1, <3>2, <3>3 DEF ToBeKilled
  <2> QED
    BY <2>1, <2>2
<1> QED
  BY <1>1, <1>2, HandsFree

LEMMA KillerLost ==
    ASSUME ProcessesInv, NothingIsLost, ExitsInOrder, TypeOK', [Next]_vars, Killer
    PROVE  NothingIsLost'
<1>0. UNCHANGED <<queue, tracked, known, poolKills, monitorKill>>
  BY DEF Killer, KillerDrops, KillerTakes, KillerSignals, KillerIsDone, KillerEnds, workerVars,
         monitorVars
<1>1. ASSUME NEW t \in tasks, KillerDrops(t) PROVE NothingIsLost'
  <2>1. ASSUME NEW q \in Procs, Running(q), ToBeKilled(q) PROVE ToBeKilled(q)'
    BY <1>0, <1>1, <2>1 DEF KillerDrops, ToBeKilled
  <2> QED
    BY <1>0, <1>1, <2>1, HandsFree DEF KillerDrops
<1>2. ASSUME NEW t \in tasks, KillerTakes(t) PROVE NothingIsLost'
  <2>1. /\ targets = {} /\ survivors = {} /\ tasks' = tasks \ {t} /\ targets' = Tree(t.proc)
        /\ condemned' = condemned \cup Tree(t.proc)
    BY <1>2 DEF KillerTakes, ExitsInOrder
  <2>2. t.proc \in Tree(t.proc)
    BY DEF Tree, ProcessesInv, TypeOK, Tasks
  <2>3. ASSUME NEW q \in Procs, ToBeKilled(q) PROVE ToBeKilled(q)'
    BY <1>0, <2>1, <2>2, <2>3 DEF ToBeKilled
  <2>4. \A q \in condemned' : q \in condemned \/ ToBeKilled(q)'
    BY <2>1 DEF ToBeKilled
  <2> QED
    BY <1>0, <2>3, <2>4, HandsFree
<1>3. ASSUME NEW p \in Procs, KillerSignals(p) PROVE NothingIsLost'
  <2>1. ASSUME NEW q \in Procs, Running(q), proc'[q] = "running", ToBeKilled(q)
        PROVE  ToBeKilled(q)'
    <3>1. CASE q = p
      <4>1. ~(job.hard /\ Running(p))
        BY <1>3, <2>1, <3>1 DEF KillerSignals, EndOf, ProcessesInv, TypeOK
      <4> QED
        BY <1>3, <2>1, <3>1, <4>1 DEF KillerSignals, ToBeKilled
    <3>2. CASE q # p
      <4>1. tasks' = tasks /\ targets' = targets \ {p} /\ survivors \subseteq survivors'
        BY <1>3 DEF KillerSignals
      <4> QED
        BY <1>0, <2>1, <3>2, <4>1 DEF ToBeKilled
    <3> QED
      BY <3>1, <3>2
  <2> QED
    BY <1>0, <1>3, <2>1, HandsFree DEF KillerSignals
<1>4. CASE KillerIsDone
  <2>1. ASSUME NEW q \in Procs, ToBeKilled(q) PROVE ToBeKilled(q)'
    <3>1. tasks \subseteq tasks' /\ targets = {} /\ targets' = {}
      BY <1>4 DEF KillerIsDone
    <3>2. q \in survivors => Task(TRUE, q) \in tasks' /\ Task(TRUE, q).proc = q
      BY <1>4 DEF KillerIsDone, ComesBackFor
    <3> QED
      BY <1>0, <2>1, <3>1, <3>2 DEF ToBeKilled
  <2> QED
    BY <1>0, <1>4, <2>1, HandsFree DEF KillerIsDone
<1>5. CASE KillerEnds
  BY <1>5, QuietLost DEF KillerEnds, workerVars
<1> QED
  BY <1>1, <1>2, <1>3, <1>4, <1>5 DEF Killer

LEMMA NotifyLost ==
    ASSUME ProcessesInv, NothingIsLost, TypeOK', [Next]_vars, NEW w \in Workers,
           NotifyStart(w) \/ NotifyEnd(w)
    PROVE  NothingIsLost'
<1> USE DEF ProcessesInv
<1>c. PICK c \in Procs : c = current[w]
  BY DEF NotifyStart, NotifyEnd, TypeOK
<1>0. /\ proc[c] # "unborn" /\ queue \in Seq(Events \cup {None})
      /\ UNCHANGED <<proc, monitorVars, killerVars>>
  BY <1>c, ProcessesAssumption DEF NotifyStart, NotifyEnd, TypeOK, Owners, osVars
<1>1. PICK e \in Events :
         /\ e.worker = w /\ e.child = c /\ queue' = Append(queue, e)
         /\ e.type = "finished" => ~Running(c)
  <2>1. \A t \in {"started", "orphaned", "finished"} : Event(w, c, t) \in Events
    BY <1>c DEF Events
  <2>2. \E t \in {"started", "orphaned", "finished"} :
            queue' = Append(queue, Event(w, c, t))
            /\ (t = "finished" => ~Running(c))
    BY <1>c DEF NotifyStart, NotifyEnd
  <2> QED
    BY <2>1, <2>2
<1>2. /\ Len(queue) + 1 \in 1..Len(queue') /\ queue'[Len(queue) + 1] = e
      /\ \A i \in 1..Len(queue) : i \in 1..Len(queue') /\ queue'[i] = queue[i]
      /\ \A i \in 1..Len(queue') : i \in 1..Len(queue) \/ queue'[i] = e
  BY <1>0, <1>1
<1>3. e # None
  BY ProcessesAssumption
<1>4. InHand(w, c)'
  BY <1>1, <1>2, <1>3 DEF InHand, About
<1>5. ASSUME NEW v \in Workers, NEW p \in Procs, InHand(v, p) PROVE InHand(v, p)'
  <2>1. Tracking(v)' = Tracking(v)
    BY <1>0 DEF Tracking, monitorVars
  <2>2. ASSUME NEW i \in 1..Len(queue), About(i, v, p)
        PROVE  \E j \in 1..Len(queue') : About(j, v, p)'
    BY <1>2, <2>2 DEF About
  <2> QED
    BY <1>5, <2>1, <2>2 DEF InHand
<1>6. ASSUME NEW v \in Workers, NEW p \in Procs, known'[p] = v, known[p] # v
      PROVE  p = c /\ v = w
  BY <1>c, <1>6 DEF NotifyStart, NotifyEnd, TypeOK
<1>7. ASSUME NEW v \in Workers, NEW p \in Procs, known'[p] = v, known[p] # v
      PROVE  proc[p] # "unborn" /\ InHand(v, p)'
  <2>1. p = c /\ v = w
    BY <1>6, <1>7
  <2> QED
    BY <1>0, <1>4, <2>1
<1>8. \A i \in 1..Len(queue') : (\E j \in 1..Len(queue) : queue'[i] = queue[j]) \/
          (queue'[i] # None /\ queue'[i].type = "finished" => proc[queue'[i].child] # "running")
  BY <1>1, <1>2
<1>9. \A p : ToBeKilled(p)' <=> ToBeKilled(p)
  BY <1>0 DEF ToBeKilled, monitorVars, killerVars
<1>10. proc' = proc /\ condemned' = condemned
  BY <1>0 DEF killerVars
<1> QED
  BY <1>5, <1>7, <1>8, <1>9, <1>10, HandedOn

LEMMA SentinelLost ==
    ASSUME ProcessesInv, NothingIsLost, TypeOK', [Next]_vars, PutSentinel \/ MonitorEnds
    PROVE  NothingIsLost'
<1>0. /\ queue \in Seq(Events \cup {None})
      /\ UNCHANGED <<proc, known, tracked, poolKills, monitorKill, killerVars>>
  BY DEF ProcessesInv, TypeOK, PutSentinel, MonitorEnds, osVars, monitorVars
<1>1. \A i \in 1..Len(queue') : queue'[i] = None \/ \E j \in 1..Len(queue) : queue'[i] = queue[j]
  <2>1. CASE PutSentinel
    BY <1>0, <2>1 DEF PutSentinel
  <2>2. CASE MonitorEnds
    <3>1. \A i \in 1..Len(queue') : i + 1 \in 1..Len(queue) /\ queue'[i] = queue[i + 1]
      BY <1>0, <2>2 DEF MonitorEnds
    <3> QED
      BY <3>1
  <2> QED
    BY <2>1, <2>2
<1>2. ASSUME NEW i \in 1..Len(queue), queue[i] # None
      PROVE  \E j \in 1..Len(queue') : queue'[j] = queue[i]
  <2>1. CASE PutSentinel
    <3>1. i \in 1..Len(queue') /\ queue'[i] = queue[i]
      BY <1>0, <2>1 DEF PutSentinel
    <3> QED
      BY <3>1
  <2>2. CASE MonitorEnds
    <3>1. queue[1] = None /\ queue # <<>> /\ queue' = Tail(queue)
      BY <1>0, <2>2 DEF MonitorEnds
    <3>2. i # 1
      BY <1>2, <3>1
    <3>3. i - 1 \in 1..Len(queue') /\ queue'[i - 1] = queue[i]
      BY <1>0, <3>1, <3>2
    <3> QED
      BY <3>3
  <2> QED
    BY <2>1, <2>2
<1>3. ASSUME NEW w \in Workers, NEW p \in Procs, InHand(w, p) PROVE InHand(w, p)'
  <2>1. CASE p \in Tracking(w)
    BY <1>0, <2>1 DEF InHand, Tracking
  <2>2. ASSUME NEW i \in 1..Len(queue), About(i, w, p) PROVE InHand(w, p)'
    BY <1>2, <2>2 DEF InHand, About
  <2> QED
    BY <1>3, <2>1, <2>2 DEF InHand
<1>4. \A p : ToBeKilled(p)' <=> ToBeKilled(p)
  BY <1>0 DEF ToBeKilled, killerVars
<1>5. proc' = proc /\ condemned' = condemned /\ known' = known
  BY <1>0 DEF killerVars
<1> QED
  BY <1>1, <1>3, <1>4, <1>5, HandedOn

LEMMA HookLost ==
    ASSUME ProcessesInv, NothingIsLost, TypeOK', [Next]_vars, NEW w \in Workers,
           OnWorkerStarted(w) \/ OnWorkerStopped(w)
    PROVE  NothingIsLost'
<1>0. UNCHANGED <<proc, known, queue, monitorKill, killerVars>>
  BY DEF OnWorkerStarted, OnWorkerStopped, osVars, workerVars
<1>1. ASSUME NEW p \in Procs, ToBeKilled(p) PROVE ToBeKilled(p)'
  BY <1>0, <1>1 DEF OnWorkerStarted, OnWorkerStopped, ToBeKilled, killerVars
<1>2. ASSUME NEW v \in Workers, NEW p \in Procs, InHand(v, p)
      PROVE  InHand(v, p)' \/ ToBeKilled(p)'
  <2>1. CASE \E i \in 1..Len(queue) : About(i, v, p)
    BY <1>0, <2>1 DEF InHand, About
  <2>2. CASE p \in Tracking(v)
    <3>1. CASE OnWorkerStarted(w)
      BY <2>2, <3>1 DEF OnWorkerStarted, Track, Tracking, InHand
    <3>2. CASE OnWorkerStopped(w) /\ v = w
      BY <2>2, <3>2 DEF OnWorkerStopped, Tracking, ToBeKilled
    <3>3. CASE OnWorkerStopped(w) /\ v # w
      BY <2>2, <3>3 DEF OnWorkerStopped, Tracking, InHand
    <3> QED
      BY <3>1, <3>2, <3>3
  <2> QED
    BY <1>2, <2>1, <2>2 DEF InHand
<1>3. proc' = proc /\ condemned' = condemned /\ known' = known /\ queue' = queue
  BY <1>0 DEF killerVars
<1> QED
  BY <1>1, <1>2, <1>3, HandedOn

LEMMA MonitorTakesLost ==
    ASSUME ProcessesInv, NothingIsLost, TypeOK', [Next]_vars, MonitorTakes
    PROVE  NothingIsLost'
<1> DEFINE e == Head(queue)
<1>0. /\ queue # <<>> /\ e # None /\ monitorKill = None /\ queue' = Tail(queue)
      /\ UNCHANGED <<proc, known, poolKills, killerVars>>
      /\ IF Posthumous(e.worker) THEN UNCHANGED tracked ELSE Track(e.worker, Children(e))
      /\ monitorKill' = IF ShouldKill(e) THEN e.child ELSE None
  BY DEF MonitorTakes, osVars
<1>1. /\ queue \in Seq(Events \cup {None}) /\ e = queue[1] /\ e \in Events
      /\ 1 \in 1..Len(queue)
      /\ \A i \in 1..Len(queue') : i + 1 \in 1..Len(queue) /\ queue'[i] = queue[i + 1]
      /\ \A i \in 1..Len(queue) : i # 1 => i - 1 \in 1..Len(queue') /\ queue'[i - 1] = queue[i]
  BY <1>0 DEF ProcessesInv, TypeOK
<1> HIDE DEF e
<1>2. ASSUME NEW p \in Procs, ToBeKilled(p) PROVE ToBeKilled(p)'
  BY <1>0, <1>2, ProcessesAssumption DEF ToBeKilled, killerVars
<1>3. ASSUME NEW w \in Workers, NEW p \in Procs, Running(p), e.worker = w, e.child = p
      PROVE  ToBeKilled(p)' \/ InHand(w, p)'
  <2>1. e.type # "finished"
    BY <1>0, <1>1, <1>3 DEF NothingIsLost
  <2>2. CASE ShouldKill(e)
    BY <1>0, <1>3, <2>2 DEF ToBeKilled
  <2>3. CASE ~ShouldKill(e)
    <3>1. e.type = "started" /\ Track(w, Children(e))
      BY <1>0, <1>1, <1>3, <2>1, <2>3 DEF ShouldKill, Events
    <3> QED
      BY <1>3, <3>1 DEF Track, Tracking, Children, InHand
  <2> QED
    BY <2>2, <2>3
<1>4. ASSUME NEW w \in Workers, NEW p \in Procs, Running(p), InHand(w, p)
      PROVE  ToBeKilled(p)' \/ InHand(w, p)'
  <2>1. CASE e.worker = w /\ e.child = p
    BY <1>3, <1>4, <2>1
  <2>2. CASE ~(e.worker = w /\ e.child = p)
    <3>1. ASSUME NEW i \in 1..Len(queue), About(i, w, p) PROVE InHand(w, p)'
      <4>1. i # 1
        BY <1>1, <2>2, <3>1 DEF About
      <4>2. i - 1 \in 1..Len(queue') /\ queue'[i - 1] = queue[i]
        BY <1>1, <4>1
      <4> QED
        BY <3>1, <4>2 DEF InHand, About
    <3>2. CASE p \in Tracking(w)
      <4>1. p \in Tracking(w)'
        BY <1>0, <2>2, <3>2 DEF Track, Tracking, Children
      <4> QED
        BY <4>1 DEF InHand
    <3> QED
      BY <1>4, <3>1, <3>2 DEF InHand
  <2> QED
    BY <2>1, <2>2
<1>5. proc' = proc /\ condemned' = condemned /\ known' = known
  BY <1>0 DEF killerVars
<1>6. \A i \in 1..Len(queue') : \E j \in 1..Len(queue) : queue'[i] = queue[j]
  BY <1>1
<1> QED
  BY <1>2, <1>4, <1>5, <1>6, HandedOn

LEMMA LostStep ==
    ASSUME ProcessesInv, SurvivorsInv, TypeOK', [Next]_vars
    PROVE  NothingIsLost'
<1> USE DEF SurvivorsInv
<1>1. CASE UNCHANGED <<queue, known, monitorVars, killerVars>>
  BY <1>1, QuietLost
<1>2. ASSUME NEW p \in Procs, ProcExit(p) \/ (\E q \in Procs : Fork(p, q))
      PROVE  UNCHANGED <<queue, known, monitorVars, killerVars>>
  BY <1>2 DEF ProcExit, Fork, workerVars
<1>3. ASSUME NEW w \in Workers, StartWorker(w) \/ WorkerEnds(w) \/ (\E p \in Procs : Spawn(w, p))
      PROVE  UNCHANGED <<queue, known, monitorVars, killerVars>>
  BY <1>3 DEF StartWorker, WorkerEnds, Spawn
<1>4. CASE StopPool \/ Ended \/ UNCHANGED vars
  <2>1. UNCHANGED <<queue, known, monitorVars, killerVars>>
    BY <1>4 DEF StopPool, Ended, vars, workerVars
  <2> QED
    BY <1>1, <2>1
<1>5. ASSUME NEW w \in Workers, NotifyStart(w) \/ NotifyEnd(w) PROVE NothingIsLost'
  BY <1>5, NotifyLost
<1>6. ASSUME NEW w \in Workers, OnWorkerStarted(w) \/ OnWorkerStopped(w) PROVE NothingIsLost'
  BY <1>6, HookLost
<1>7. ASSUME NEW p \in Procs, PoolAsks(p) PROVE NothingIsLost'
  BY <1>7, AskLost
<1>8. CASE MonitorAsks
  <2>1. monitorKill \in Procs
    BY <1>8 DEF MonitorAsks, ProcessesInv, TypeOK
  <2> QED
    BY <1>8, <2>1, AskLost
<1>9. CASE MonitorTakes
  BY <1>9, MonitorTakesLost
<1>10. CASE PutSentinel \/ MonitorEnds
  BY <1>10, SentinelLost
<1>11. CASE Killer
  BY <1>11, KillerLost
<1> QED
  BY <1>1, <1>2, <1>3, <1>4, <1>5, <1>6, <1>7, <1>8, <1>9, <1>10, <1>11 DEF Next, Pool, Monitor

\* The workers: none is alive when the pool has left __exit__.
LEMMA WorkerExits ==
    ASSUME ProcessesInv, ExitsInOrder, NEW w \in Workers,
           StartWorker(w) \/ NotifyStart(w) \/ NotifyEnd(w) \/ WorkerEnds(w)
           \/ \E p \in Procs : Spawn(w, p)
    PROVE  ExitsInOrder'
<1> USE DEF ProcessesInv
<1>0. /\ UNCHANGED <<hook, poolKills, monitorKill, tasks, job, targets, survivors, phase>>
      /\ life[w] = "unborn" => phase = "run"
      /\ \A v \in Workers : v # w => life'[v] = life[v]
  BY DEF StartWorker, NotifyStart, NotifyEnd, WorkerEnds, Spawn, monitorVars, killerVars, TypeOK
<1>1. phase \in {"run", "stopping"}
  <2>1. CASE StartWorker(w)
    BY <2>1 DEF StartWorker
  <2>2. CASE ~StartWorker(w)
    <3>1. life[w] = "alive"
      BY <2>2 DEF NotifyStart, NotifyEnd, WorkerEnds, Spawn, TypeOK
    <3>2. ~(life[w] = "unborn" \/ hook[w] = "stopped")
      BY <3>1 DEF DeadAreDead
    <3> QED
      BY <3>2 DEF ExitsInOrder, TypeOK
  <2> QED
    BY <2>1, <2>2
<1>2. \A i \in 1..Len(queue') : queue'[i] # None
  <2>1. CASE UNCHANGED queue
    BY <1>1, <2>1 DEF ExitsInOrder
  <2>2. CASE NotifyStart(w) \/ NotifyEnd(w)
    <3>1. \A t \in {"started", "orphaned", "finished"} : Event(w, current[w], t) \in Events
      BY <2>2 DEF Events, TypeOK, NotifyStart, NotifyEnd
    <3>2. PICK e \in Events : queue' = Append(queue, e)
      BY <2>2, <3>1 DEF NotifyStart, NotifyEnd
    <3>3. e # None /\ queue \in Seq(Events \cup {None})
      BY ProcessesAssumption DEF TypeOK
    <3>4. \A i \in 1..Len(queue) : queue[i] # None
      BY <1>1 DEF ExitsInOrder
    <3> QED
      BY <3>2, <3>3, <3>4
  <2> QED
    BY <2>1, <2>2 DEF StartWorker, WorkerEnds, Spawn
<1> QED
  BY <1>0, <1>1, <1>2 DEF ExitsInOrder

LEMMA PoolExits ==
    ASSUME ProcessesInv, ExitsInOrder, NEW w \in Workers,
           OnWorkerStarted(w) \/ OnWorkerStopped(w)
    PROVE  ExitsInOrder'
<1>0. UNCHANGED <<life, queue, monitorKill, tasks, job, targets, survivors, phase>>
  BY DEF OnWorkerStarted, OnWorkerStopped, workerVars, killerVars
<1>1. ~(life[w] = "unborn" \/ hook[w] = "stopped")
  BY DEF OnWorkerStarted, OnWorkerStopped
<1>2. phase \in {"run", "stopping"}
  BY <1>1 DEF ExitsInOrder, ProcessesInv, TypeOK
<1> QED
  BY <1>0, <1>2 DEF ExitsInOrder

LEMMA MonitorExits ==
    ASSUME ProcessesInv, ExitsInOrder, MonitorTakes
    PROVE  ExitsInOrder'
<1>0. /\ queue # <<>> /\ Head(queue) # None /\ queue' = Tail(queue)
      /\ UNCHANGED <<life, hook, poolKills, tasks, job, targets, survivors, phase>>
  BY DEF MonitorTakes, killerVars
<1>1. /\ queue \in Seq(Events \cup {None}) /\ Len(queue) \in Nat /\ Len(queue') = Len(queue) - 1
      /\ \A i \in 1..Len(queue') : i + 1 \in 1..Len(queue) /\ queue'[i] = queue[i + 1]
  BY <1>0 DEF ProcessesInv, TypeOK
<1>2. phase \in {"run", "stopping"} => \A i \in 1..Len(queue') : queue'[i] # None
  BY <1>1 DEF ExitsInOrder
<1>3. ASSUME phase = "closing", NEW i \in 1..Len(queue')
      PROVE  queue'[i] = None <=> i = Len(queue')
  BY <1>1, <1>3 DEF ExitsInOrder
<1>4. phase \notin {"shutdown", "ended"}
  BY <1>0 DEF ExitsInOrder
<1> QED
  BY <1>0, <1>2, <1>3, <1>4 DEF ExitsInOrder

LEMMA ShutdownExits ==
    ASSUME ProcessesInv, ExitsInOrder, StopPool \/ PutSentinel \/ MonitorEnds
    PROVE  ExitsInOrder'
<1>0. /\ queue \in Seq(Events \cup {None})
      /\ UNCHANGED <<life, hook, poolKills, monitorKill, tasks, job, targets, survivors>>
  BY DEF ProcessesInv, TypeOK, StopPool, PutSentinel, MonitorEnds, workerVars, monitorVars,
         killerVars
<1>1. CASE StopPool
  BY <1>0, <1>1 DEF StopPool, workerVars, ExitsInOrder
<1>2. CASE PutSentinel
  <2>1. \A i \in 1..Len(queue) : queue[i] # None
    BY <1>2 DEF PutSentinel, ExitsInOrder
  <2>2. /\ Len(queue') = Len(queue) + 1 /\ queue'[Len(queue')] = None
        /\ \A i \in 1..Len(queue') : i # Len(queue') => i \in 1..Len(queue) /\ queue'[i] = queue[i]
    BY <1>0, <1>2 DEF PutSentinel
  <2>3. \A i \in 1..Len(queue') : queue'[i] = None <=> i = Len(queue')
    BY <2>1, <2>2
  <2> QED
    BY <1>0, <1>2, <2>3 DEF PutSentinel, ExitsInOrder
<1>3. CASE MonitorEnds
  <2>1. queue # <<>> /\ queue[1] = None /\ 1 \in 1..Len(queue) /\ monitorKill = None
    BY <1>0, <1>3 DEF MonitorEnds
  <2>2. phase = "closing"
    BY <2>1 DEF ExitsInOrder, ProcessesInv, TypeOK
  <2>3. Len(queue) = 1
    BY <2>1, <2>2 DEF ExitsInOrder
  <2>4. queue' = <<>>
    BY <1>0, <1>3, <2>3 DEF MonitorEnds
  <2> QED
    BY <1>0, <1>3, <2>1, <2>2, <2>4 DEF MonitorEnds, ExitsInOrder
<1> QED
  BY <1>1, <1>2, <1>3

LEMMA KillerExits ==
    ASSUME ProcessesInv, ExitsInOrder, Killer \/ MonitorAsks \/ \E p \in Procs : PoolAsks(p)
    PROVE  ExitsInOrder'
<1>0. UNCHANGED <<life, queue, hook>>
  BY DEF Killer, KillerDrops, KillerTakes, KillerSignals, KillerIsDone, KillerEnds, MonitorAsks,
         PoolAsks, workerVars, monitorVars
<1>1. ASSUME NEW t \in tasks, KillerDrops(t) \/ KillerTakes(t) PROVE ExitsInOrder'
  <2>1. phase # "ended" /\ t # None
    BY ProcessesAssumption DEF ExitsInOrder, ProcessesInv, TypeOK
  <2>2. UNCHANGED <<phase, poolKills, monitorKill>>
    BY <1>1 DEF KillerDrops, KillerTakes, monitorVars
  <2>3. job' = None => targets' = {} /\ survivors' = {}
    BY <1>1, <2>1 DEF KillerDrops, KillerTakes, ExitsInOrder
  <2> QED
    BY <1>0, <2>1, <2>2, <2>3 DEF ExitsInOrder
<1>2. ASSUME NEW p \in Procs, KillerSignals(p) PROVE ExitsInOrder'
  <2>1. job # None
    BY <1>2 DEF KillerSignals, ExitsInOrder
  <2>2. UNCHANGED <<phase, poolKills, monitorKill, tasks, job>>
    BY <1>2 DEF KillerSignals, monitorVars
  <2> QED
    BY <1>0, <2>1, <2>2 DEF ExitsInOrder
<1>3. CASE KillerIsDone
  <2>1. UNCHANGED <<phase, poolKills, monitorKill>> /\ phase # "ended"
    BY <1>3 DEF KillerIsDone, monitorVars, ExitsInOrder
  <2>2. targets' = {} /\ survivors' = {}
    BY <1>3 DEF KillerIsDone
  <2> QED
    BY <1>0, <2>1, <2>2 DEF ExitsInOrder
<1>4. CASE KillerEnds
  <2>1. UNCHANGED <<poolKills, monitorKill, tasks, job, targets, survivors>>
    BY <1>4 DEF KillerEnds, monitorVars, killerVars
  <2> QED
    BY <1>0, <1>4, <2>1 DEF KillerEnds, NothingLeft, ExitsInOrder
<1>5. ASSUME NEW p \in Procs, PoolAsks(p) PROVE ExitsInOrder'
  <2>1. phase \in {"run", "stopping"}
    BY <1>5 DEF PoolAsks, ExitsInOrder, ProcessesInv, TypeOK
  <2> QED
    BY <1>0, <1>5, <2>1 DEF PoolAsks, ExitsInOrder
<1>6. CASE MonitorAsks
  <2>1. phase \notin {"shutdown", "ended"}
    BY <1>6 DEF MonitorAsks, ExitsInOrder
  <2> QED
    BY <1>0, <1>6, <2>1 DEF MonitorAsks, ExitsInOrder
<1> QED
  BY <1>1, <1>2, <1>3, <1>4, <1>5, <1>6 DEF Killer

LEMMA ExitsStep == ProcessesInv /\ ExitsInOrder /\ [Next]_vars => ExitsInOrder'
<1> SUFFICES ASSUME ProcessesInv, ExitsInOrder, [Next]_vars PROVE ExitsInOrder'
  OBVIOUS
<1>1. ASSUME NEW p \in Procs, ProcExit(p) \/ (\E q \in Procs : Fork(p, q)) PROVE ExitsInOrder'
  BY <1>1 DEF ProcExit, Fork, workerVars, monitorVars, killerVars, ExitsInOrder
<1>2. ASSUME NEW w \in Workers,
             StartWorker(w) \/ NotifyStart(w) \/ NotifyEnd(w) \/ WorkerEnds(w)
      PROVE  ExitsInOrder'
  BY <1>2, WorkerExits
<1>3. ASSUME NEW w \in Workers, NEW p \in Procs, Spawn(w, p) PROVE ExitsInOrder'
  BY <1>3, WorkerExits
<1>4. ASSUME NEW w \in Workers, OnWorkerStarted(w) \/ OnWorkerStopped(w) PROVE ExitsInOrder'
  BY <1>4, PoolExits
<1>5. ASSUME NEW p \in Procs, PoolAsks(p) PROVE ExitsInOrder'
  BY <1>5, KillerExits
<1>6. CASE MonitorAsks \/ Killer
  BY <1>6, KillerExits
<1>7. CASE MonitorTakes
  BY <1>7, MonitorExits
<1>8. CASE StopPool \/ PutSentinel \/ MonitorEnds
  BY <1>8, ShutdownExits
<1>9. CASE Ended \/ UNCHANGED vars
  BY <1>9 DEF Ended, vars, workerVars, monitorVars, killerVars, ExitsInOrder
<1> QED
  BY <1>1, <1>2, <1>3, <1>4, <1>5, <1>6, <1>7, <1>8, <1>9 DEF Next, Pool, Monitor

\* No subprocess that runs and was reported, or that the killer has seen, drops
\* out of the hands of the main process; pool, monitor and killer leave in order.
THEOREM SurvivorsInvariant == Spec => []SurvivorsInv
<1>1. ProcessesInv /\ ProcessesInv' /\ SurvivorsInv /\ [Next]_vars => SurvivorsInv'
  BY LostStep, ExitsStep DEF ProcessesInv, SurvivorsInv
<1> QED
  BY <1>1, SurvivorsInit, ProcessesInvariant, PTL DEF Spec

\* What ProcessMonitor.__exit__ leaves behind: no subprocess that was reported
\* and none that the killer has seen, for any number of workers and subprocesses
\* and any length of _recent_dead_workers, but what workers have reported of which
\* an event was read when they were forgotten.
THEOREM NothingSurvivesExit == Spec => []NothingSurvives
<1>1. ProcessesInv /\ BooksInv /\ SurvivorsInv => NothingSurvives
  <2> SUFFICES ASSUME ProcessesInv, BooksInv, SurvivorsInv, phase = "ended"
               PROVE  /\ \A p \in Procs :
                             known[p] \notin late \cup {None} \/ p \in condemned => ~Running(p)
                      /\ DOMAIN tracked \subseteq late
    BY DEF NothingSurvives
  <2>1. /\ queue = <<>> /\ monitorKill = None /\ poolKills = {} /\ tasks = {}
        /\ targets = {} /\ survivors = {}
        /\ \A w \in Workers : life[w] = "unborn" \/ hook[w] = "stopped"
    BY DEF SurvivorsInv, ExitsInOrder
  <2>2. \A p \in Procs : ~ToBeKilled(p)
    BY <2>1, ProcessesAssumption DEF ToBeKilled
  <2>3. DOMAIN tracked \subseteq late
    BY <2>1 DEF BooksInv, DeadHaveNoPage, StartedAreKnown, ProcessesInv, TypeOK
  <2>4. ASSUME NEW p \in Procs, Running(p) PROVE known[p] \in late \cup {None} /\ p \notin condemned
    <3>1. known[p] \in Workers \cup {None}
      BY DEF ProcessesInv, TypeOK
    <3> QED
      BY <2>1, <2>2, <2>3, <2>4, <3>1 DEF SurvivorsInv, NothingIsLost, Tracking
  <2> QED
    BY <2>3, <2>4
<1> QED
  BY <1>1, ProcessesInvariant, BooksInvariant, SurvivorsInvariant, PTL
=============================================================================
