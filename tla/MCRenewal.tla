----------------------------- MODULE MCRenewal -----------------------------
(***************************************************************************)
(* Small instances of Renewal.                                             *)
(***************************************************************************)
EXTENDS Renewal, TLC

Requests == Permutations(Req)
=============================================================================
