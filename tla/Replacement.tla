----------------------------- MODULE Replacement -----------------------------
(***************************************************************************)
(* replace_test_case_atomically (cvise/utils/fileutil.py): the new version   *)
(* is first brought into the directory of the test case under a temporary    *)
(* name and then renamed.  For a file that is one rename; a directory cannot *)
(* be renamed onto another, so that the old one is first moved out of the    *)
(* way, into the temporary directory that is deleted at the end.             *)
(*                                                                         *)
(* Each action is one system call or one that may stop half-way; between any *)
(* two the program may die, and an exception may be raised.                  *)
(***************************************************************************)
EXTENDS Naturals, Sequences

VARIABLES
    kind,     \* "file" or "dir": what the test case is
    move,     \* whether the source is to be moved and not copied
    step,     \* what the function does next
    place,    \* the version found at each place
    tmp,      \* whether there is a temporary file or directory
    exc       \* the exceptions of this call, each raised while the one before was handled

replaceVars == <<kind, move, step, place, tmp, exc>>

\* "backup" is old_destination; a place holds the version from before or after
\* the reduction, a part of one, or nothing.
Places == {"source", "fresh", "backup", "dest"}
Versions == {"before", "after", "part", "nothing"}
Exceptions == {"int", "term", "oserror", "renameerror"}

\* Both are OSError: that of the second rename of a directory has a name of its
\* own for the properties.
Errors == {"oserror", "renameerror"}
SwapFailed == \E i \in DOMAIN exc : exc[i] = "renameerror"

Steps == {"idle", "create", "fill", "copying", "unlink", "retire", "install", "installed",
          "leave", "undo", "cleanup", "abnormal", "returned", "raised"}

ReplaceType ==
    /\ kind \in {"file", "dir"} /\ move \in BOOLEAN /\ step \in Steps
    /\ place \in [Places -> Versions] /\ tmp \in BOOLEAN /\ exc \in Seq(Exceptions)

ReplaceInit ==
    /\ kind \in {"file", "dir"} /\ move = TRUE /\ step = "idle"
    /\ place = [p \in Places |-> IF p = "dest" THEN "before" ELSE "nothing"]
    /\ tmp = FALSE /\ exc = <<>>

Put(p, v) == place' = [place EXCEPT ![p] = v]
Rename(p, q) == place' = [place EXCEPT ![q] = place[p], ![p] = "nothing"]
GoTo(s) == step' = s /\ UNCHANGED <<kind, move, exc>>

\* The call: process_result moves a candidate, a cache hit copies the entry.
Call ==
    /\ step = "idle"
    /\ Put("source", "after")
    /\ move' \in BOOLEAN
    /\ step' = "create"
    /\ UNCHANGED <<kind, tmp, exc>>

\* TemporaryDirectory or NamedTemporaryFile, an empty file
CreateTemp ==
    /\ step = "create"
    /\ tmp' = TRUE
    /\ IF kind = "file" THEN Put("fresh", "part") ELSE UNCHANGED place
    /\ GoTo("fill")

\* Where the new version is copied to; a faulty variant copies it to the place of
\* the test case itself.
CopyInPlace == "dest"
CopyTarget == "fresh"

AfterFill == IF kind = "file" THEN "install" ELSE "retire"

\* shutil.move within one file system; a faulty variant moves what it should copy.
MoveAlways ==
    /\ step = "fill"
    /\ Rename("source", "fresh")
    /\ GoTo(AfterFill) /\ UNCHANGED tmp

FillByRename ==
    /\ step = "fill" /\ move
    /\ Rename("source", "fresh")
    /\ GoTo(AfterFill) /\ UNCHANGED tmp

\* Copying, also by shutil.move between file systems
FillByCopy ==
    /\ step = "fill"
    /\ Put(CopyTarget, "part")
    /\ GoTo("copying") /\ UNCHANGED tmp

CopyDone ==
    /\ step = "copying"
    /\ Put(CopyTarget, "after")
    /\ GoTo(IF move THEN "unlink" ELSE AfterFill) /\ UNCHANGED tmp

UnlinkSource ==
    /\ step = "unlink"
    /\ Put("source", "nothing")
    /\ GoTo(AfterFill) /\ UNCHANGED tmp

\* destination.rename(old_destination); a faulty variant deletes it.
RetireForGood ==
    /\ step = "retire"
    /\ Put("dest", "nothing")
    /\ GoTo("install") /\ UNCHANGED tmp

Retire ==
    /\ step = "retire"
    /\ Rename("dest", "backup")
    /\ GoTo("install") /\ UNCHANGED tmp

\* new_path.rename(destination), tmp_path.rename(destination)
Install ==
    /\ step = "install"
    /\ Rename("fresh", "dest")
    /\ tmp' = (kind = "dir")
    /\ GoTo(IF kind = "dir" THEN "installed" ELSE "leave")

LeaveTry == step = "installed" /\ GoTo("leave") /\ UNCHANGED <<place, tmp>>

\* Deleting the temporary file or directory, with all that is in it
Emptied == [place EXCEPT !["fresh"] = "nothing", !["backup"] = "nothing"]
DeleteTemp == place' = Emptied /\ tmp' = FALSE

Leave == step = "leave" /\ DeleteTemp /\ GoTo("returned")

\* An exception between two steps goes to the except clause around the swap,
\* if it is one it catches, or to the end of the with statement. A faulty variant
\* catches the Ctrl-C key only.
InSwap == kind = "dir" /\ step \in {"retire", "install", "installed"}
Outside(e) ==
    IF step \in {"create", "leave", "cleanup"} THEN "abnormal"
    ELSE IF step = "abnormal" THEN "raised" ELSE "cleanup"
IntHandler(e) == IF InSwap /\ e = "int" THEN "undo" ELSE Outside(e)
Handler(e) == IF InSwap /\ e \notin Errors THEN "undo" ELSE Outside(e)

InReplacement == step \in Steps \ {"idle", "returned", "raised"}

Raise(e) ==
    /\ InReplacement
    /\ exc' = Append(exc, e)
    /\ step' = Handler(e)
    /\ UNCHANGED <<kind, move>>

\* An exception from a signal: it may come when the temporary directory was just
\* made, or when a deletion is half-way.
Interrupted(e) ==
    /\ Raise(e)
    /\ IF step = "create" THEN tmp' \in BOOLEAN /\ UNCHANGED place
       ELSE IF step \in {"leave", "cleanup", "abnormal"} /\ kind = "dir"
       THEN /\ tmp' = tmp
            /\ \E gone \in SUBSET {"fresh", "backup"} :
                  place' = [p \in Places |->
                              IF p \in gone /\ place[p] # "nothing" THEN "part" ELSE place[p]]
       ELSE UNCHANGED <<place, tmp>>

\* A system call fails.  The except clause around the swap is for the exceptions
\* of signals alone.
Fails ==
    /\ step \in {"create", "fill", "copying", "unlink", "retire", "install", "leave"}
    /\ Raise(IF step = "install" /\ kind = "dir" THEN "renameerror" ELSE "oserror")
    /\ UNCHANGED <<place, tmp>>

\* "If swapping was interrupted, attempt to bring back the original directory."
\* The rename fails, and is ignored, when there is nothing to bring back, or the
\* new version is in place and is not an empty directory.
Undo ==
    /\ step = "undo"
    /\ \/ place["backup"] # "nothing" /\ Rename("backup", "dest")
       \/ (place["backup"] = "nothing" \/ place["dest"] # "nothing") /\ UNCHANGED place
    /\ GoTo("cleanup") /\ UNCHANGED tmp

\* __exit__ of the temporary directory or file
CleanUp == step = "cleanup" /\ DeleteTemp /\ GoTo("abnormal")

\* _cleanup_abnormal_exit: everything with the prefix of this call. A faulty
\* variant leaves it to the with statement.
NoAbnormalCleanUp == step = "abnormal" /\ GoTo("raised") /\ UNCHANGED <<place, tmp>>
AbnormalCleanUp == step = "abnormal" /\ DeleteTemp /\ GoTo("raised")

ReplaceStep ==
    \/ CreateTemp \/ FillByRename \/ FillByCopy \/ CopyDone \/ UnlinkSource
    \/ Retire \/ Install \/ LeaveTry \/ Leave \/ Fails \/ Undo \/ CleanUp
    \/ AbnormalCleanUp

\* Ready for the next replacement: the new version is the old one then.
Reset ==
    /\ step = "returned"
    /\ place' = [p \in Places |-> IF p = "dest" THEN "before" ELSE "nothing"]
    /\ GoTo("idle") /\ UNCHANGED tmp

-----------------------------------------------------------------------------
\* The inductive invariant behind the properties of Interruption: what lies where
\* at each step.
InNormalCourse ==
    step \in {"idle", "create", "fill", "copying", "unlink", "retire", "install", "installed",
              "leave", "returned"}
BeforeSwap == step \in {"idle", "create", "fill", "copying", "unlink", "retire"}

ReplaceInv ==
    /\ ReplaceType
    /\ InNormalCourse <=> exc = <<>>
    /\ step \in {"retire", "installed", "undo"} => kind = "dir"
    /\ step = "unlink" => move
    /\ BeforeSwap => place["dest"] = "before" /\ place["backup"] = "nothing"
    /\ step \in {"unlink", "retire", "install"} => place["fresh"] = "after"
    /\ step \in {"idle", "create"} => ~tmp /\ place["fresh"] = "nothing"
    /\ step = "install" /\ kind = "dir" =>
          place["dest"] = "nothing" /\ place["backup"] = "before"
    /\ step = "installed" => place["dest"] = "after" /\ place["backup"] = "before"
    /\ step \in {"leave", "returned"} => place["dest"] = "after"
    /\ step = "undo" =>
          \/ (place["dest"] \in {"nothing", "after"} /\ place["backup"] = "before")
          \/ (place["dest"] = "before" /\ place["backup"] = "nothing")
    /\ kind = "file" => place["dest"] \in {"before", "after"}
    /\ step \in {"cleanup", "abnormal", "raised"} /\ Len(exc) <= 1 /\ ~SwapFailed =>
          place["dest"] \in {"before", "after"}
    /\ step = "undo" /\ Len(exc) <= 1 => ~SwapFailed
    /\ step = "cleanup" /\ Len(exc) <= 1 /\ SwapFailed => place["backup"] = "before"
    /\ step = "returned" => ~tmp /\ place["fresh"] = "nothing" /\ place["backup"] = "nothing"
    /\ step = "raised" /\ Len(exc) <= 1 =>
          ~tmp /\ place["fresh"] = "nothing" /\ place["backup"] = "nothing"
    /\ step \in {"create", "fill"} => place["source"] = "after"
    /\ step # "idle" /\ InNormalCourse /\ ~move => place["source"] = "after"
=============================================================================
