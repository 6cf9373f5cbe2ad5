---------------------------- MODULE MCSiteApply ----------------------------
(***************************************************************************)
(* Small instances of SiteApply: the values its configurations give to the *)
(* constants.                                                              *)
(***************************************************************************)
EXTENDS SiteApply, TLC

MCFile    == {"site.conf", "loc"}
MCContent == {"empty", "plain", "other", "broken", "def", "use"}

(* nginx -t refuses a broken file, and a file that uses what no other file *)
(* defines, as an include of all sites can.                                *)
MCAccepted(c) ==
    LET Holds(x) == \E s \in Site : \E f \in Files(c[s]) : c[s][f] = x
    IN  ~Holds("broken") /\ (Holds("use") => Holds("def"))

TreeOf(main, loc) == [f \in File |-> IF f = Main THEN main ELSE loc]

Apply(s, main, loc) == [kind |-> "apply", site |-> s, tree |-> TreeOf(main, loc)]
Save(s, f, c)       == [kind |-> "save", site |-> s, file |-> f, content |-> c]
Remove(s)           == [kind |-> "remove", site |-> s]
Restore(s, t)       == [kind |-> "restore", site |-> s, at |-> t]
ReloadCall          == [kind |-> "reload"]

(* One site: every kind of call, valid and refused. *)
OneSite == UNION { {Apply(s, "plain", "other"), Apply(s, "broken", NoFile),
                    Save(s, "loc", "plain"), Remove(s), Restore(s, 0)} : s \in Site }

(* Two sites, one of which may need what the other defines: every kind of  *)
(* call on one of them.                                                    *)
TwoSites ==
    LET First == CHOOSE s \in Site : TRUE
    IN  UNION { {Apply(s, "def", NoFile), Apply(s, "use", NoFile), Remove(s)} : s \in Site }
            \cup {Save(First, Main, "use"), Restore(First, 0), ReloadCall}

(* Applies and backups only. *)
Backups == UNION { {Apply(s, "plain", "other"), Apply(s, "other", NoFile), Restore(s, 0)}
                   : s \in Site }

(* Callers are interchangeable. *)
Callers == Permutations(Req)
=============================================================================
