------------------------------- MODULE TmpDirs -------------------------------
(***************************************************************************)
(* cvise/utils/fileutil.py, TmpDirManager: the main thread makes and        *)
(* deletes temporary directories below one root, while a janitor thread     *)
(* removes whatever it finds there that the manager does not know: what a   *)
(* failed deletion left, or what a worker process that is being killed      *)
(* still writes.                                                            *)
(*                                                                         *)
(* A step is what happens between two points at which the other thread can  *)
(* interfere: the look at the disk, the section under _lock, the system     *)
(* call.  Names are reused: the first attempt of create_dir is always the   *)
(* bare prefix.  An attempt that meets a name in use is followed by another *)
(* one; that there are at most 10000 is left out.                           *)
(***************************************************************************)
EXTENDS TLAPS

CONSTANTS
    Names,       \* the file names that occur below the root
    NoName,
    SaveTemps    \* _save_temps

ASSUME TmpDirsAssumption == NoName \notin Names /\ SaveTemps \in BOOLEAN

VARIABLES
    disk,      \* what exists below the root
    files,     \* the plain files among it; the rest are directories
    dirs,      \* _dirs
    inUse,     \* what create_dir returned and delete_dir was not yet called for
    pc, name,  \* the main thread: its place, and the directory it works on
    janitor,   \* the janitor thread: asleep, deleting, stopped, or dead of an exception
    toDelete,  \* to_delete, without what it has been through
    shutdown   \* _shutdown_event

vars == <<disk, files, dirs, inUse, pc, name, janitor, toDelete, shutdown>>
mainVars == <<dirs, inUse, pc, name, shutdown>>
janitorVars == <<janitor, toDelete>>

Init ==
    /\ disk = {} /\ files = {} /\ dirs = {} /\ inUse = {}
    /\ pc = "idle" /\ name = NoName
    /\ janitor = "asleep" /\ toDelete = {} /\ shutdown = FALSE

-----------------------------------------------------------------------------
(* The main thread *)

Goto(place, n) == pc' = place /\ name' = n

\* create_dir, the name of one attempt: one that exists is passed over.
ChooseName(n) ==
    /\ pc = "idle" /\ ~shutdown
    /\ n \notin disk
    /\ Goto("register", n)
    /\ UNCHANGED <<disk, files, dirs, inUse, shutdown, janitorVars>>

\* Under the lock, the name is registered before the directory exists.
Register ==
    /\ pc = "register"
    /\ IF name \in dirs
       THEN Goto("idle", NoName) /\ UNCHANGED dirs
       ELSE Goto("mkdir", name) /\ dirs' = dirs \cup {name}
    /\ UNCHANGED <<disk, files, inUse, shutdown, janitorVars>>

\* A faulty variant: mkdir(exist_ok=True)
MkDirExistOk ==
    /\ pc = "mkdir"
    /\ disk' = disk \cup {name}
    /\ inUse' = inUse \cup {name}
    /\ Goto("idle", NoName)
    /\ UNCHANGED <<files, dirs, shutdown, janitorVars>>

MkDir ==
    /\ pc = "mkdir" /\ name \notin disk
    /\ disk' = disk \cup {name}
    /\ inUse' = inUse \cup {name}
    /\ Goto("idle", NoName)
    /\ UNCHANGED <<files, dirs, shutdown, janitorVars>>

\* FileExistsError: the name is given back.
MkDirFails ==
    /\ pc = "mkdir" /\ name \in disk
    /\ Goto("unregister", name)
    /\ UNCHANGED <<disk, files, dirs, inUse, shutdown, janitorVars>>

\* delete_dir: rmtree ignores errors, so that something may be left.
RmTree(n) ==
    /\ pc = "idle" /\ ~shutdown
    /\ n \in inUse
    /\ inUse' = inUse \ {n}
    /\ IF SaveTemps THEN UNCHANGED <<disk, pc, name>>
       ELSE disk' \in {disk, disk \ {n}} /\ Goto("unregister", n)
    /\ UNCHANGED <<files, dirs, shutdown, janitorVars>>

\* Under the lock, _dirs.remove
Unregister ==
    /\ pc = "unregister"
    /\ dirs' = dirs \ {name}
    /\ Goto("idle", NoName)
    /\ UNCHANGED <<disk, files, inUse, shutdown, janitorVars>>

\* __exit__: the janitor is told to stop, and waited for at most ten minutes;
\* then the root goes.
Exit ==
    /\ pc = "idle" /\ ~shutdown
    /\ shutdown' = TRUE
    /\ inUse' = {}
    /\ UNCHANGED <<disk, files, dirs, pc, name, janitorVars>>

RemoveRoot ==
    /\ pc = "idle" /\ shutdown
    /\ disk' \in IF SaveTemps THEN {disk} ELSE SUBSET disk
    /\ files' = files \cap disk'
    /\ dirs' = {}
    /\ Goto("done", NoName)
    /\ UNCHANGED <<inUse, shutdown, janitorVars>>

-----------------------------------------------------------------------------
(* The janitor thread *)

Unknown == disk \ dirs

\* Under the lock: what is present, and what is known
Inspect ==
    /\ janitor = "asleep" /\ ~shutdown
    /\ janitor' = "deleting"
    /\ toDelete' = Unknown
    /\ UNCHANGED <<disk, files, mainVars>>

\* One of them is deleted.
Remove(n) ==
    /\ janitor = "deleting" /\ n \in toDelete
    /\ disk' = disk \ {n} /\ files' = files \ {n}
    /\ toDelete' = toDelete \ {n}
    /\ UNCHANGED <<janitor, mainVars>>

\* It cannot be: rmtree ignores errors, but unlink raises what it meets (except
\* that there is no such file), and nothing in the thread catches that.
RemoveFails(n) ==
    /\ janitor = "deleting" /\ n \in toDelete
    /\ IF n \in files
       THEN janitor' = "dead" /\ toDelete' = {}
       ELSE toDelete' = toDelete \ {n} /\ UNCHANGED janitor
    /\ UNCHANGED <<disk, files, mainVars>>

\* A faulty variant: there is only one round.
RestForEver ==
    /\ janitor = "deleting" /\ toDelete = {}
    /\ janitor' = "stopped"
    /\ UNCHANGED <<disk, files, toDelete, mainVars>>

\* The wait for the next round, or the end of the thread.
Rest ==
    /\ janitor = "deleting" /\ toDelete = {}
    /\ janitor' = IF shutdown THEN "stopped" ELSE "asleep"
    /\ UNCHANGED <<disk, files, toDelete, mainVars>>

Stop ==
    /\ janitor = "asleep" /\ shutdown
    /\ janitor' = "stopped"
    /\ UNCHANGED <<disk, files, toDelete, mainVars>>

-----------------------------------------------------------------------------
\* A worker process that is being killed still makes a file or a directory.
Stray(n) ==
    /\ pc # "done" /\ n \notin disk
    /\ disk' = disk \cup {n}
    /\ files' \in {files, files \cup {n}}
    /\ UNCHANGED <<mainVars, janitorVars>>

Main == \/ \E n \in Names : ChooseName(n) \/ RmTree(n)
        \/ Register \/ MkDir \/ MkDirFails \/ Unregister \/ Exit \/ RemoveRoot
Janitor == Inspect \/ Rest \/ Stop \/ \E n \in Names : Remove(n) \/ RemoveFails(n)
Terminated == pc = "done" /\ UNCHANGED vars

Next == Main \/ Janitor \/ (\E n \in Names : Stray(n)) \/ Terminated

Spec == Init /\ [][Next]_vars

\* The janitor's waits end, and what nobody writes to can be deleted some time.
FairSpec == Spec /\ WF_vars(Janitor) /\ \A n \in Names : SF_vars(Remove(n))

-----------------------------------------------------------------------------
(* Properties *)

\* "to prevent racing with the deletions by the janitor thread" (_do_create_dir):
\* a directory in use stays on the disk, and is none of those that the janitor
\* is about to delete, although it looked before the directory was made.
UsedDirsSafe ==
    ~shutdown => inUse \subseteq disk /\ inUse \cap toDelete = {}

\* "the janitor thread will clean leftovers on error" (delete_dir): as long as no
\* plain file resists it, the janitor removes everything that a failed deletion or
\* a killed process left, however often it is made again.
LeftoversVanish ==
    \A n \in Names : n \in Unknown ~> n \notin Unknown \/ shutdown \/ janitor = "dead"

-----------------------------------------------------------------------------
(***************************************************************************)
(* Proofs.  The janitor deletes what existed and was unknown when it        *)
(* looked.  The main thread takes a name only if nothing of that name       *)
(* exists, and what the janitor has yet to delete exists still.             *)
(***************************************************************************)
DirsInv ==
    /\ disk \subseteq Names /\ files \subseteq disk \ inUse /\ dirs \subseteq Names /\ inUse \subseteq Names
    /\ name \in Names \cup {NoName} /\ toDelete \subseteq Names
    /\ pc \in {"idle", "register", "mkdir", "unregister", "done"}
    /\ janitor \in {"asleep", "deleting", "stopped", "dead"} /\ shutdown \in BOOLEAN
    /\ pc \in {"register", "mkdir", "unregister"} => name \in Names /\ ~shutdown
    /\ shutdown => inUse = {}
    /\ inUse \subseteq disk \cap dirs
    /\ pc \in {"mkdir", "unregister"} => name \in dirs \ inUse
    /\ pc # "done" => toDelete \subseteq disk
    /\ pc = "done" => shutdown
    /\ inUse \cap toDelete = {}

LEMMA MainKeepsDirs ==
  ASSUME TmpDirsAssumption, DirsInv, Main
  PROVE  DirsInv'
<1> USE TmpDirsAssumption DEF DirsInv, Goto, janitorVars
<1>1. CASE \E n \in Names : ChooseName(n)
  BY <1>1 DEF ChooseName
<1>2. CASE \E n \in Names : RmTree(n)
  <2>1. PICK n \in Names : RmTree(n)
    BY <1>2
  <2>2. n \in disk \cap dirs /\ inUse' = inUse \ {n} /\ n \notin toDelete
    BY <2>1 DEF RmTree
  <2>3. CASE SaveTemps
    BY <2>1, <2>2, <2>3 DEF RmTree
  <2>4. CASE ~SaveTemps
    BY <2>1, <2>2, <2>4 DEF RmTree
  <2> QED BY <2>3, <2>4
<1>3. CASE Register
  <2>1. CASE name \in dirs
    BY <1>3, <2>1 DEF Register
  <2>2. CASE name \notin dirs
    <3>1. pc' = "mkdir" /\ name' = name /\ dirs' = dirs \cup {name}
      BY <1>3, <2>2 DEF Register
    <3>2. name \in Names /\ name \notin inUse
      BY <1>3, <2>2 DEF Register
    <3>3. UNCHANGED <<disk, files, inUse, shutdown, janitor, toDelete>> /\ pc = "register"
      BY <1>3 DEF Register
    <3> QED BY <3>1, <3>2, <3>3
  <2> QED BY <2>1, <2>2
<1>4. CASE MkDir
  \* What the janitor is to delete exists, and so is not the new directory.
  <2>1. name \in Names /\ name \in dirs /\ name \notin toDelete
    BY <1>4 DEF MkDir
  <2>2. disk' = disk \cup {name} /\ inUse' = inUse \cup {name} /\ pc' = "idle" /\ name' = NoName
    BY <1>4 DEF MkDir
  <2>3. UNCHANGED <<files, dirs, shutdown, janitor, toDelete>> /\ ~shutdown /\ name \notin files
    BY <1>4 DEF MkDir
  <2> QED BY <2>1, <2>2, <2>3
<1>5. CASE MkDirFails
  BY <1>5 DEF MkDirFails
<1>6. CASE Unregister
  BY <1>6 DEF Unregister
<1>7. CASE Exit
  BY <1>7 DEF Exit
<1>8. CASE RemoveRoot
  BY <1>8 DEF RemoveRoot
<1> QED BY <1>1, <1>2, <1>3, <1>4, <1>5, <1>6, <1>7, <1>8 DEF Main

LEMMA JanitorKeepsDirs ==
  ASSUME DirsInv, Janitor
  PROVE  DirsInv'
<1> USE DEF DirsInv, mainVars
<1>1. CASE Inspect
  BY <1>1 DEF Inspect, Unknown
<1>2. CASE Rest
  BY <1>2 DEF Rest
<1>3. CASE Stop
  BY <1>3 DEF Stop
<1>4. CASE \E n \in Names : Remove(n)
  BY <1>4 DEF Remove
<1>5. CASE \E n \in Names : RemoveFails(n)
  BY <1>5 DEF RemoveFails
<1> QED BY <1>1, <1>2, <1>3, <1>4, <1>5 DEF Janitor

THEOREM DirsInvariant == Spec => []DirsInv
<1>1. Init => DirsInv
  BY DEF Init, DirsInv
<1>2. DirsInv /\ [Next]_vars => DirsInv'
  <2> SUFFICES ASSUME DirsInv, [Next]_vars PROVE DirsInv'
    OBVIOUS
  <2>1. CASE Main
    BY <2>1, TmpDirsAssumption, MainKeepsDirs
  <2>2. CASE Janitor
    BY <2>2, JanitorKeepsDirs
  <2>3. CASE \E n \in Names : Stray(n)
    BY <2>3 DEF DirsInv, Stray, mainVars, janitorVars
  <2>4. CASE UNCHANGED vars
    BY <2>4 DEF DirsInv, vars
  <2> QED BY <2>1, <2>2, <2>3, <2>4 DEF Next, Terminated
<1> QED BY <1>1, <1>2, PTL DEF Spec

\* The janitor never deletes a directory in use, whatever it finds below the
\* root, however long it takes and whichever names are used again.
THEOREM UsedDirsAreSafe == Spec => []UsedDirsSafe
<1>1. DirsInv => UsedDirsSafe
  BY DEF DirsInv, UsedDirsSafe
<1> QED BY <1>1, DirsInvariant, PTL
=============================================================================
