---------------------------- MODULE MCSitePanel ----------------------------
(***************************************************************************)
(* Small instances of SitePanel.                                           *)
(***************************************************************************)
EXTENDS SitePanel, TLC

(* One configuration nginx -t refuses; two it accepts where they must differ. *)
OneCfg    == {"plain", "broken"}
TwoCfgs   == {"plain", "other", "broken"}
MCRefused == {"broken"}

SiteOps == {"create", "update", "toggle", "delete", "savefile", "restore", "lock"}
CertOps == {"bind", "newcert", "reissue", "delcert"}

AllOps     == SiteOps \cup CertOps \cup {"crash"}
NoRestore  == AllOps \ {"restore", "lock", "crash"}
RenderOps  == {"create", "toggle", "delete", "crash"}
UpdateOps  == {"create", "update"}
LockOps    == {"create", "update", "lock"}
DeleteOps  == {"create", "update", "delete"}
BindOps    == {"create", "bind", "newcert", "delcert"}
UnboundOps == BindOps \cup {"restore"}
EditCrash  == {"create", "savefile", "crash"}

Requests == Permutations(Req)
Sites    == Permutations(Site)
=============================================================================
