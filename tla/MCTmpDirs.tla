------------------------------ MODULE MCTmpDirs ------------------------------
(***************************************************************************)
(* TmpDirs with three names: two directories at a time and one attempt that *)
(* meets a name in use.                                                     *)
(***************************************************************************)
EXTENDS TmpDirs

CONSTANTS d1, d2, d3

ThreeNames == {d1, d2, d3}
=============================================================================
