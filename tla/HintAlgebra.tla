---------------------------- MODULE HintAlgebra ----------------------------
(***************************************************************************)
(* What a bundle of hints does to a file, and to the positions in hints of  *)
(* other passes (cvise/utils/hint.py).                                      *)
(*                                                                         *)
(* A patch replaces the characters left .. right-1, counted from 0, by a     *)
(* text of "value" characters; NoValue is a deletion.  All patches have      *)
(* positions, in one file, and the operation is none.                        *)
(***************************************************************************)
EXTENDS Integers, FiniteSets, Sequences, FiniteSetsExt, SequencesExt, Ranking

NoValue == -1
PatchesOf(size) ==
    {p \in [left : 0..size, right : 0..size, value : {NoValue, 2}] : p.left <= p.right}

\* _patch_merge_sorting_key: leftmost, then largest, then deletion first
Precedes(p, c) ==
    \/ p.left < c.left
    \/ p.left = c.left /\ p.right > c.right
    \/ p.left = c.left /\ p.right = c.right /\ p.value < c.value

\* A common character, or an empty patch within or at an end of the previous one.
Overlap(p, c) ==
    LET xl == Max({p.left, c.left})
        xr == Min({p.right, c.right})
    IN xl < xr \/ (xl = xr /\ c.left = c.right)

\* One turn of _merge_overlapping_patches. A faulty variant drops an overlapping
\* patch without extending the previous one.
SwallowPatch(merged, c) ==
    IF merged # <<>> /\ Overlap(Last(merged), c) THEN merged ELSE Append(merged, c)
MergePatch(merged, c) ==
    IF merged # <<>> /\ Overlap(Last(merged), c)
    THEN [merged EXCEPT ![Len(merged)].right = Max({@, c.right})]
    ELSE Append(merged, c)

\* sorted(patches, key=_patch_merge_sorting_key); equal patches stay as they are
Sorted(patches) ==
    LET Before(j, i) == Precedes(patches[j], patches[i]) \/ (patches[j] = patches[i] /\ j < i)
        order == Ranked(DOMAIN patches,
                        [i \in DOMAIN patches |-> {j \in DOMAIN patches : Before(j, i)}])
    IN [k \in DOMAIN patches |-> patches[order[k]]]

\* What is merged after so many turns of the loop
Merging(patches) ==
    LET sorted == Sorted(patches)
        merged[k \in 0..Len(patches)] ==
            IF k = 0 THEN <<>> ELSE MergePatch(merged[k - 1], sorted[k])
    IN merged
Merge(patches) == Merging(patches)[Len(patches)]

InsertedBy(p) == IF p.value = NoValue THEN 0 ELSE p.value

\* The file after _apply_hint_patches_to_file: positions of the original file,
\* and Inserted for a character of a replacement.
Inserted == -1
Chunk(from, to) == [k \in 1..(to - from) |-> from + k - 1]
ApplyPatch(done, p) ==
    [data |-> done.data \o Chunk(done.start, p.left) \o [k \in 1..InsertedBy(p) |-> Inserted],
     start |-> p.right]
\* What is written after so many of the merged patches
Applying(merged) ==
    LET done[k \in 0..Len(merged)] ==
            IF k = 0 THEN [data |-> <<>>, start |-> 0] ELSE ApplyPatch(done[k - 1], merged[k])
    IN done
Apply(patches, size) ==
    LET done == Applying(Merge(patches))[Len(Merge(patches))]
    IN done.data \o Chunk(done.start, size)

\* The assertions that applying makes of each merged patch
AppliesCleanly(merged, size) ==
    \A k \in DOMAIN merged :
        /\ (IF k = 1 THEN 0 ELSE merged[k - 1].right) <= merged[k].left
        /\ merged[k].left <= merged[k].right /\ merged[k].right <= size

\* _calc_positions_mapping_for_patches: the shift by all patches that end at the
\* position or before it, then the way back to the left end of the patch that the
\* position is inside of. The faulty variant leaves the latter out.
Passed(merged, position) ==
    Cardinality({k \in DOMAIN merged : \A j \in 1..k : merged[j].right <= position})
\* position_delta after so many of the merged patches
Delta(merged) ==
    LET delta[k \in 0..Len(merged)] ==
            IF k = 0 THEN 0
            ELSE delta[k - 1] + InsertedBy(merged[k]) - (merged[k].right - merged[k].left)
    IN delta
Shifted(patches, position) ==
    position + Delta(Merge(patches))[Passed(Merge(patches), position)]
MapPosition(patches, position) ==
    LET merged == Merge(patches)
        ptr == Passed(merged, position) + 1
    IN Shifted(patches, position)
       - (IF ptr \in DOMAIN merged THEN Max({0, position - merged[ptr].left}) ELSE 0)
=============================================================================
