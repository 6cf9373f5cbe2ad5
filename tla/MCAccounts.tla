---------------------------- MODULE MCAccounts -----------------------------
(***************************************************************************)
(* Small instances of Accounts.                                            *)
(***************************************************************************)
EXTENDS Accounts, TLC

AllOps    == SelfOps \cup AdminOps \cup SysOps \cup {"cli"}
EnrollOps == {"enroll", "activate"}
OwnOps    == StageOps \cup {"changepw", "rebind"}
ResetOps  == StageOps \cup {"changepw"}
DeleteOps == {"enroll", "activate", "create", "delete", "setpw"}

Symmetric == Permutations(User) \cup Permutations(Req) \cup Permutations(Password)
             \cup Permutations(Secret)
=============================================================================
