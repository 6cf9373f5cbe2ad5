------------------------------ MODULE MCEditor ------------------------------
(***************************************************************************)
(* Small instances of Editor.                                              *)
(***************************************************************************)
EXTENDS Editor

Permuted == Permutations(Sites)
=============================================================================
