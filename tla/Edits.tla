------------------------------- MODULE Edits -------------------------------
(***************************************************************************)
(* The contents of candidates: what clex prints, and what the hints of       *)
(* clex (cvise/passes/clexhints.py) and of other passes make of the file     *)
(* that clex has read.  Characters are numbered from 1, positions in hints    *)
(* are counted from 0.                                                        *)
(***************************************************************************)
EXTENDS Clex, HintAlgebra

CONSTANT MaxPatches     \* bound: patches that meet in one file

VARIABLE patches        \* hints for the file, in the order of their bundles

vars == <<clexVars, patches>>

\* A pass that makes hints, while no other pass edits the file
AddPatch ==
    /\ command[1] = "hints-toks" /\ Len(patches) < MaxPatches
    /\ \E p \in PatchesOf(file_size) : patches' = Append(patches, p)
    /\ UNCHANGED clexVars

Init == ClexInit /\ patches = <<>>
ClexStep == command[1] # "hints-toks" /\ ClexNext /\ UNCHANGED patches
Next == ClexStep \/ AddPatch
Spec == Init /\ [][Next]_vars
\* The manager asks for another state until clex has said STOP.
FairSpec == Spec /\ WF_vars(ClexStep)

-----------------------------------------------------------------------------
(* Properties *)

\* What is left of the file: exactly these characters, in their order.
Leaves(data, kept) ==
    /\ {c \in ToSet(data) : c # Inserted} = {i - 1 : i \in kept}
    /\ \A k, l \in DOMAIN data :
          k < l /\ data[k] # Inserted /\ data[l] # Inserted => data[k] < data[l]

\* The characters that a sequence of patches covers
Covered(ps) == UNION {(p.left + 1)..p.right : p \in ToSet(ps)}

(***************************************************************************)
(* Whatever hints meet in a file, the merged patches satisfy the assertions  *)
(* of _apply_hint_patches_to_file, and the outcome is the file, in order,    *)
(* without exactly the characters that one of the patches covers.            *)
(***************************************************************************)
PatchesApply ==
    /\ AppliesCleanly(Merge(patches), file_size)
    /\ Leaves(Apply(patches, file_size), (1..file_size) \ Covered(patches))

(***************************************************************************)
(* subtract_hints moves a position of another hint to where it is in the     *)
(* file with the patches applied: the characters that are left are on the    *)
(* same side of it as before.                                                *)
(***************************************************************************)
PositionsFollow ==
    LET data == Apply(patches, file_size)
    IN \A position \in 0..file_size :
           LET moved == MapPosition(patches, position)
           IN /\ moved \in 0..Len(data)
              /\ \A k \in DOMAIN data :
                    data[k] # Inserted => (data[k] < position <=> k <= moved)

\* The hints of clex for n_toks tokens from a place on
Tokens == {i \in Places : ~Space(i)}
HintsFrom(i) ==
    LET order == InOrder({j \in Tokens : Which(j) \in Which(i)..(Which(i) + n_toks - 1)})
    IN [k \in DOMAIN order |->
           [left |-> start_pos[order[k]], right |-> start_pos[CutEnd(order[k])] + 1,
            value |-> NoValue]]

\* The characters of tokens, and those of comments
CharsOf(places) == {start_pos[i] + 1 : i \in places}
Comments == (1..file_size) \ CharsOf(Places)
\* The tokens that patches cut
CutBy(ps) == {i \in Places : start_pos[i] + 1 \in Covered(ps)}

(***************************************************************************)
(* "Two consecutive hints remove both tokens with all spaces between them"   *)
(* (driver.c): applying the hints of as many tokens leaves the tokens that    *)
(* rm-toks prints for an index, and no others.  The two differ in comments:   *)
(* rm-toks prints none of them, the hints leave those outside of the cuts.    *)
(***************************************************************************)
HintsAgree ==
    command[1] = "rm-toks" =>
        \A i \in Tokens :
            Leaves(Apply(HintsFrom(i), file_size),
                   CharsOf(Places \ RmToks(Which(i) - 1))
                       \union (Comments \ Covered(HintsFrom(i))))

\* A name for which the unused one is better, and the file with all its
\* occurrences renamed
CanGoDown(name) ==
    ~Lowercase(name) \/ (Len(UnusedName) <= Len(name) /\ Less(UnusedName, name))
RenamedAt(i) ==
    [j \in Places |-> IF toks[j] = toks[i] THEN [toks[j] EXCEPT !.text = UnusedName]
                      ELSE toks[j]]

(***************************************************************************)
(* When clex says STOP and nothing was interesting, all of what the command  *)
(* is for has been tried: every choice of tokens within a window for          *)
(* rm-tok-pattern, every run of tokens for rm-toks, every string, every       *)
(* character of a string; and the renaming, wherever it occurs, of every name *)
(* that is not of lowercase letters only, and of every other that is not      *)
(* shorter than the unused name and comes after it.                          *)
(***************************************************************************)
SweepIsComplete ==
    stopped /\ ~accepted =>
        CASE command[1] = "rm-tok-pattern" ->
                \A cut \in SUBSET Tokens :
                    (cut # {} /\ \A i, j \in cut : Which(i) - Which(j) < n_toks)
                        => Without(cut) \in tried
          [] command[1] = "rm-toks" ->
                \A i \in Tokens :
                    Without(CutBy(HintsFrom(i))) \in tried
          [] command[1] = "delete-string" ->
                \A i \in NonEmpty : [toks EXCEPT ![i].text = <<>>] \in tried
          [] command[1] = "shorten-string" ->
                \A i \in Strings : \A k \in DOMAIN toks[i].text :
                    [toks EXCEPT ![i].text = RemoveAt(@, k)] \in tried
          [] command[1] = "rename-toks" ->
                \A i \in Places :
                    (toks[i].kind = "ident" /\ CanGoDown(toks[i].text)) => RenamedAt(i) \in tried

(***************************************************************************)
(* Renaming keeps different names apart and equal ones equal, whatever the   *)
(* names are: the program stays the same one.                                *)
(***************************************************************************)
NamesKeptApart ==
    [][command[1] = "rename-toks" =>
        \A i, j \in Places :
            (Written(toks[i]) = Written(toks[j])) <=> (Written(toks'[i]) = Written(toks'[j]))]_vars

(***************************************************************************)
(* The pass comes to its end whatever is interesting: each success leaves     *)
(* less to be tried at the same index, renamings included.                   *)
(***************************************************************************)
PassEnds == (command[1] # "hints-toks") ~> stopped
=============================================================================
