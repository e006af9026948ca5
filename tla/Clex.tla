------------------------------- MODULE Clex -------------------------------
(***************************************************************************)
(* The token-based reductions of C sources: the tool clex (clex/driver.c)   *)
(* and the pass that calls it with one index after the other                *)
(* (cvise/passes/clex.py).                                                  *)
(*                                                                         *)
(* A token is a record of its kind and its text, a sequence of numbers: the  *)
(* letters of a name, of which those from LetterCount on are not lowercase   *)
(* ones, or the characters between the quotes of a string.  There is one     *)
(* file, in which a token is taken to be one character long, and what is     *)
(* printed is taken to be read as the same tokens again.  The lexer reads    *)
(* comments without making tokens of them: they leave gaps between the       *)
(* positions of the tokens, and are not printed.                             *)
(***************************************************************************)
EXTENDS Integers, FiniteSets, Sequences, FiniteSetsExt, SequencesExt, Ranking

CONSTANTS
    LetterCount,    \* letters from 'a' to 'z', as 0..LetterCount-1
    Commands,       \* the arguments of the pass, as <<name, n_toks>>
    Inputs,         \* [Commands -> set of token sequences], the files to start with
    CommentChars    \* [Commands -> Nat], bound: characters of comments in such a file

Kinds == {"ws", "newline", "ident", "string", "other"}
Files == Seq([kind : Kinds, text : Seq(Nat)])
\* What is printed of a token: a string with its quotes
Written(tok) == <<tok.kind = "string", tok.text>>

(***************************************************************************)
(* main asserts the bounds of n_toks; with 8 a pattern fits its unsigned char.*)
(* The lexer gives the same text the same kind.                              *)
(***************************************************************************)
ASSUME ClexAssumption ==
    /\ LetterCount \in Nat \ {0} /\ CommentChars \in [Commands -> Nat]
    /\ \A c \in Commands :
        /\ \/ c \in {"rm-toks"} \X (1..1000)
           \/ c \in {"rm-tok-pattern"} \X (2..8)
           \/ c \in {"rename-toks", "delete-string", "shorten-string", "hints-toks"} \X Nat
        /\ \A file \in Inputs[c] :
              /\ file \in Files
              /\ \A i, j \in DOMAIN file :
                    Written(file[i]) = Written(file[j]) => file[i].kind = file[j].kind

VARIABLES
    command,    \* the argument of the pass
    toks,       \* tok_list, for the file of the last success
    start_pos,  \* where in that file the tokens are, counted from 0
    file_size,       \* characters of that file
    index,      \* the state of the pass
    accepted,   \* whether some candidate was interesting
    tried,      \* history: the candidates so far
    stopped     \* whether clex has returned STOP

fileVars == <<toks, start_pos, file_size>>
clexVars == <<command, fileVars, index, accepted, tried, stopped>>

n_toks == command[2]
Places == DOMAIN toks
Space(i) == toks[i].kind \in {"ws", "newline"}

\* The tokens up to a place that are not space: "which" once it was printed
Which(i) == Cardinality({j \in 1..i : ~Space(j)})
TokenCount == Cardinality({j \in Places : ~Space(j)})

\* "Do not consume the file-terminating newline."
TerminatingNewline(i) == toks[i].kind = "newline" /\ i = Len(toks)

-----------------------------------------------------------------------------
(* Cutting tokens: the places that are not printed *)

\* rm_toks. The faulty variant counts one token more.
RmToksOneMore(idx) ==
    {i \in Places : Which(i) > idx /\ Which(i) <= idx + n_toks + 1 /\ ~TerminatingNewline(i)}
RmToks(idx) ==
    {i \in Places : Which(i) > idx /\ Which(i) <= idx + n_toks /\ ~TerminatingNewline(i)}

\* hints_toks: the last place of the cut that begins with a token, which takes the
\* spaces after it with it
CutEnd(i) ==
    Max({j \in i..Len(toks) : \A k \in (i + 1)..j : Space(k) /\ ~TerminatingNewline(k)})

\* rm_tok_pattern: an index stands for the first token of a window and for a
\* pattern, whose lowest bit is set and which is shifted at every token. The faulty
\* variant leaves that bit out.
Patterns ==
    LET power[k \in 0..(n_toks - 1)] == IF k = 0 THEN 1 ELSE 2 * power[k - 1]
    IN power[n_toks - 1]
EvenPattern(idx) == 2 * (idx % Patterns)
Pattern(idx) == 1 + 2 * (idx % Patterns)
WindowOf(idx) == idx \div Patterns
ShiftedPattern(idx) ==
    LET pat[k \in 0..(n_toks - 1)] == IF k = 0 THEN Pattern(idx) ELSE pat[k - 1] \div 2
    IN pat
RmTokPattern(idx) ==
    {i \in Places :
        LET turn == Which(i) - 1 - WindowOf(idx)
        IN ~Space(i) /\ turn \in 0..(n_toks - 1) /\ ShiftedPattern(idx)[turn] % 2 = 1}

Without(places) ==
    LET kept == InOrder(Places \ places)
    IN [k \in DOMAIN kept |-> toks[kept[k]]]

-----------------------------------------------------------------------------
(* Renaming identifiers *)

Lowercase(name) == \A k \in DOMAIN name : name[k] < LetterCount

\* next_name: the last letter that is not 'z' is incremented, those after it start
\* again; a name of 'z' only grows by one letter.
NextName(name) ==
    LET rising == {k \in DOMAIN name : name[k] < LetterCount - 1}
    IN IF rising = {} THEN [k \in 1..(Len(name) + 1) |-> 0]
       ELSE [k \in DOMAIN name |->
                IF k = Max(rising) THEN name[k] + 1 ELSE IF k > Max(rising) THEN 0 ELSE name[k]]

\* find_unused_name: the first name in this order that no token has. A faulty
\* variant looks at the first token only.
FirstText == {toks[i].text : i \in {j \in Places : j = 1}}
Texts == {toks[i].text : i \in {j \in Places : toks[j].kind # "string"}}
UnusedName ==
    LET nth[k \in 0..Len(toks)] == IF k = 0 THEN <<0>> ELSE NextName(nth[k - 1])
        unused == CHOOSE k \in 0..Len(toks) :
                      nth[k] \notin Texts /\ \A j \in 0..(k - 1) : nth[j] \in Texts
    IN nth[unused]

\* strcmp(s, t) < 0
Less(s, t) ==
    \/ \E k \in DOMAIN s \cap DOMAIN t :
          s[k] < t[k] /\ \A m \in 1..(k - 1) : s[m] = t[m]
    \/ Len(s) < Len(t) /\ \A k \in DOMAIN s : s[k] = t[k]

\* should_be_renamed. A faulty variant renames whatever is not longer.
RenameSameLength(name, newname) == ~Lowercase(name) \/ Len(newname) <= Len(name)
ShouldBeRenamed(name, newname) ==
    ~Lowercase(name) \/ (Len(newname) <= Len(name) /\ Less(newname, name))

\* index_toks: where the names to be renamed occur first
FirstPlaces ==
    {i \in Places :
        /\ toks[i].kind = "ident" /\ ShouldBeRenamed(toks[i].text, UnusedName)
        /\ \A j \in 1..(i - 1) : ~(toks[j].kind = "ident" /\ toks[j].text = toks[i].text)}

RenameToks(idx) ==
    LET first == CHOOSE i \in FirstPlaces : Cardinality({j \in FirstPlaces : j < i}) = idx
        name == toks[first].text
    IN [i \in Places |-> IF toks[i].kind = "ident" /\ toks[i].text = name
                         THEN [toks[i] EXCEPT !.text = UnusedName] ELSE toks[i]]

-----------------------------------------------------------------------------
(* Strings *)

Strings == {i \in Places : toks[i].kind = "string"}
NonEmpty == {i \in Strings : toks[i].text # <<>>}

\* delete_string: the string that idx others, not counting "", come before
DeleteString(idx) ==
    [i \in Places |-> IF i \in NonEmpty /\ Cardinality({j \in NonEmpty : j < i}) = idx
                      THEN [toks[i] EXCEPT !.text = <<>>] ELSE toks[i]]

\* shorten_string: the character that idx others come before, in all strings
Chars(i) == IF i \in Strings THEN Len(toks[i].text) ELSE 0
CharsUpTo ==
    LET upTo[i \in 0..Len(toks)] == IF i = 0 THEN 0 ELSE upTo[i - 1] + Chars(i)
    IN upTo
ShortenString(idx) ==
    [i \in Places |->
        LET k == idx - CharsUpTo[i - 1] + 1
        IN IF i \in Strings /\ k \in DOMAIN toks[i].text
           THEN [toks[i] EXCEPT !.text = RemoveAt(@, k)] ELSE toks[i]]

-----------------------------------------------------------------------------
(* The pass *)

\* How many indices clex answers with OK; STOP for the others
OKs ==
    CASE command[1] = "rm-toks"        -> TokenCount
      [] command[1] = "rm-tok-pattern" -> TokenCount * Patterns
      [] command[1] = "rename-toks"    -> Cardinality(FirstPlaces)
      [] command[1] = "delete-string"  -> Cardinality(NonEmpty)
      [] command[1] = "shorten-string" -> CharsUpTo[Len(toks)]

\* What clex prints
Candidate(idx) ==
    CASE command[1] = "rm-toks"        -> Without(RmToks(idx))
      [] command[1] = "rm-tok-pattern" -> Without(RmTokPattern(idx))
      [] command[1] = "rename-toks"    -> RenameToks(idx)
      [] command[1] = "delete-string"  -> DeleteString(idx)
      [] command[1] = "shorten-string" -> ShortenString(idx)

\* Where the tokens of a file can be, with comments in front of, between and
\* after them.
Layouts(n, chars) ==
    {s \in [1..n -> 0..(chars - 1)] : \A i, j \in 1..n : i < j => s[i] < s[j]}

ClexInit ==
    /\ command \in Commands /\ toks \in Inputs[command]
    /\ file_size \in Len(toks)..(Len(toks) + CommentChars[command])
    /\ start_pos \in Layouts(Len(toks), file_size)
    /\ index = 0 /\ accepted = FALSE /\ tried = {} /\ stopped = FALSE

\* advance_on_success keeps the index. What was printed has no comments.
Accept ==
    /\ ~stopped /\ index < OKs
    /\ toks' = Candidate(index)
    /\ start_pos' = [i \in DOMAIN toks' |-> i - 1] /\ file_size' = Len(toks')
    /\ accepted' = TRUE /\ tried' = {}
    /\ UNCHANGED <<command, index, stopped>>

\* Not interesting: the history is kept as long as the file is the one to begin with.
Reject ==
    /\ ~stopped /\ index < OKs
    /\ index' = index + 1 /\ tried' = IF accepted THEN {} ELSE tried \union {Candidate(index)}
    /\ UNCHANGED <<command, fileVars, accepted, stopped>>

Stop == ~stopped /\ index >= OKs /\ stopped' = TRUE
        /\ UNCHANGED <<command, fileVars, index, accepted, tried>>

ClexNext == Accept \/ Reject \/ Stop
=============================================================================
