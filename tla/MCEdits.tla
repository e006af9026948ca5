------------------------------ MODULE MCEdits ------------------------------
(***************************************************************************)
(* Small instances of Edits: the files that each command is tried on.        *)
(***************************************************************************)
EXTENDS Edits

Token(kind, text) == [kind |-> kind, text |-> text]
Other == Token("other", <<9>>)
Blank == Token("ws", <<>>)
Newline == Token("newline", <<8>>)

\* 'a', 'b', "aa", "ba" and a name with a letter that is not lowercase
Names == {Token("ident", n) : n \in {<<0>>, <<1>>, <<0, 0>>, <<1, 0>>, <<2>>}}
\* A number of a letter's size, that is no name
Number == Token("other", <<3>>)
Texts3 == {Token("string", t) : t \in {<<>>, <<0>>, <<0, 1>>}}

AllCommands ==
    {<<"rm-toks", 1>>, <<"rm-toks", 2>>, <<"rm-tok-pattern", 2>>, <<"rm-tok-pattern", 3>>,
     <<"rename-toks", 0>>, <<"delete-string", 0>>, <<"shorten-string", 0>>, <<"hints-toks", 0>>}

Instances == [c \in AllCommands |->
    CASE c[1] = "rm-toks" -> UNION {[1..n -> {Other, Blank, Newline}] : n \in 1..5}
      [] c[1] = "rm-tok-pattern" ->
             {[i \in 1..5 |-> IF i \in spaces THEN Blank ELSE Token("other", <<i>>)] :
                 spaces \in SUBSET {2, 3}}
      [] c[1] = "rename-toks" -> {Append(f, Number) : f \in [1..3 -> Names]}
      [] c[1] \in {"delete-string", "shorten-string"} -> [1..3 -> Texts3 \union {Other}]
      [] c[1] = "hints-toks" -> {[i \in 1..4 |-> Other]}]

\* Comments matter where hints are compared with what clex prints.
Room == [c \in AllCommands |-> IF c[1] = "rm-toks" THEN 2 ELSE 0]
=============================================================================
