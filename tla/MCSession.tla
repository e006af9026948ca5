----------------------------- MODULE MCSession -----------------------------
(***************************************************************************)
(* Small instances of Session: what the passes do to the contents, and the  *)
(* configuration of the categories.                                         *)
(***************************************************************************)
EXTENDS Session

CONSTANTS cut, trim, grow, swap

\* The contents are the empty one and four larger ones, 3 and 4 of one size.
Sizes == [c \in Contents |-> IF c = 4 THEN 3 ELSE c]

\* One pass cuts a byte, another of the same name leaves the last byte alone, as
\* if another pass had claimed it; one inlines what was cut or more, one renames.
Transformations ==
    [p \in Passes |->
        CASE p = cut  -> {<<4, 2>>, <<3, 2>>, <<2, 1>>, <<1, 0>>}
          [] p = trim -> {<<3, 2>>, <<2, 1>>}
          [] p = grow -> {<<1, 3>>, <<2, 3>>}
          [] p = swap -> {<<3, 4>>, <<4, 3>>}]

Names == [p \in Passes |-> IF p = trim THEN cut ELSE p]

OneTransform == [p \in Passes |-> IF p = grow THEN 1 ELSE 0]

Everything == [TestCases -> Contents]
\* "One of the files still has the construct": more than a byte of it.
SomeLeft == {f \in Everything : \E t \in TestCases : f[t] > 1}

Initial == [passes |-> <<cut, grow>>, once |-> TRUE, interleaving |-> TRUE, initial |-> TRUE]
MainLoop == [passes |-> <<cut, trim, swap, grow>>, once |-> FALSE, interleaving |-> FALSE,
             initial |-> FALSE]
CutLoop == [MainLoop EXCEPT !.passes = <<cut>>]

Default == [skipInitial |-> FALSE, skipAfter |-> 0, useCache |-> TRUE]
CommandLines == {Default, [Default EXCEPT !.skipInitial = TRUE], [Default EXCEPT !.skipAfter = 1],
                 [Default EXCEPT !.useCache = FALSE]}
DefaultOnly == {Default}

AllCategories == <<Initial, MainLoop>>
OneLoop == <<CutLoop>>
=============================================================================
