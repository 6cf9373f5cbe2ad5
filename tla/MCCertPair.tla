---------------------------- MODULE MCCertPair -----------------------------
(***************************************************************************)
(* Small instances of CertPair.                                            *)
(***************************************************************************)
EXTENDS CertPair, TLC

Symmetric == Permutations(Pair) \cup Permutations(Writer)
=============================================================================
