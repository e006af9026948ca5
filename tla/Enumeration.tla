----------------------------- MODULE Enumeration -----------------------------
(***************************************************************************)
(* cvise/passes/abstract.py: the two elementary ways to enumerate a list of *)
(* hints, each a sequence of ranges [index; index + chunk).  BinaryState    *)
(* bisects the list; SubsegmentState tries every range of a given length,   *)
(* then those one longer, beginning at a random place of the list.          *)
(*                                                                         *)
(* An operator that draws a random number returns the set of its possible   *)
(* results, and NoEnum stands for None.  A BinaryState leaves start and     *)
(* maxChunk alone.                                                          *)
(***************************************************************************)
EXTENDS Naturals

Enum == [instances : Nat, chunk : Nat, index : Nat, start : Nat, maxChunk : Nat]
NoEnum == [instances |-> 0, chunk |-> 0, index |-> 0, start |-> 0, maxChunk |-> 0]

-----------------------------------------------------------------------------
(* BinaryState: the last range of a round may be cut short. *)

BinaryEnd(e) == IF e.index + e.chunk <= e.instances THEN e.index + e.chunk ELSE e.instances

BinaryCreate(n) ==
    IF n = 0 THEN NoEnum ELSE [NoEnum EXCEPT !.instances = n, !.chunk = n]

BinaryAdvance(e) ==
    IF e.index + e.chunk < e.instances THEN [e EXCEPT !.index = @ + e.chunk]
    ELSE IF e.chunk < 2 THEN NoEnum
    ELSE [e EXCEPT !.chunk = @ \div 2, !.index = 0]

\* A faulty variant: the index is not compared with the new number of hints.
BinaryKeepIndex(e, n) ==
    IF n = 0 THEN NoEnum ELSE [e EXCEPT !.instances = n]

BinaryAdvanceOnSuccess(e, n) ==
    LET shrunk == [e EXCEPT !.instances = n]
    IN  IF n = 0 THEN NoEnum ELSE IF e.index >= n THEN BinaryAdvance(shrunk) ELSE shrunk

-----------------------------------------------------------------------------
(* SubsegmentState *)

SubsegmentEnd(e) == e.index + e.chunk

SubsegmentCreate(n, minChunk, maxChunk) ==
    IF minChunk > n \/ minChunk > maxChunk THEN {NoEnum}
    ELSE {[instances |-> n, chunk |-> minChunk, index |-> s, start |-> s, maxChunk |-> maxChunk] :
             s \in 0..(n - minChunk)}

SubsegmentAdvance(e) ==
    LET toStart == e.index + 1 = e.start
        toWrapover == e.index + 1 + e.chunk > e.instances
    IN  IF toStart \/ (toWrapover /\ e.start = 0)
        THEN SubsegmentCreate(e.instances, e.chunk + 1, e.maxChunk)
        ELSE {[e EXCEPT !.index = IF toWrapover THEN 0 ELSE @ + 1]}

\* A faulty variant: a range that is beyond the shorter list is kept.
SubsegmentKeepIndex(e, n) ==
    IF e.chunk > n THEN {NoEnum}
    ELSE {[e EXCEPT !.instances = n, !.start = IF @ + e.chunk > n THEN 0 ELSE @]}

SubsegmentAdvanceOnSuccess(e, n) ==
    LET wrapover == e.index + e.chunk > n
        toStart == e.index < e.start \/ e.start = 0
    IN  IF e.chunk > n THEN {NoEnum}
        ELSE IF wrapover /\ toStart THEN SubsegmentCreate(n, e.chunk + 1, e.maxChunk)
        ELSE {[e EXCEPT !.instances = n,
                        !.index = IF wrapover THEN 0 ELSE @,
                        !.start = IF @ + e.chunk > n THEN 0 ELSE @]}
=============================================================================
