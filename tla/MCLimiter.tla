----------------------------- MODULE MCLimiter -----------------------------
(***************************************************************************)
(* Small instances of Limiter.                                             *)
(***************************************************************************)
EXTENDS Limiter, TLC

Attempts == Permutations(Tries)
=============================================================================
