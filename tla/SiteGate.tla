------------------------------ MODULE SiteGate ------------------------------
(***************************************************************************)
(* What nginx.Service promises its callers: each call on a site takes      *)
(* effect at once or not at all, what becomes live has passed nginx -t     *)
(* together with every other site, and a successful reply means nginx runs *)
(* it.  The promise has two exceptions, both explicit: a reload that took  *)
(* effect and was reported as failed (LostReload), and a panel that dies   *)
(* in the middle of a call (Crash).                                        *)
(***************************************************************************)
EXTENDS SiteTrees

VARIABLES
    live,      \* sites/site-<id>, as far as a caller can tell
    running,   \* the directories nginx last loaded
    call,      \* call[r]: the call r is making
    status,    \* status[r]: is it going on, or how did the last one end
    up         \* the panel process is alive

vars == <<live, running, call, status, up>>

(* A restore whose backup has been read is an apply of what was read. *)
Fetch == [kind : {"fetch"}, site : Site]
Call  == ApplyJob \cup RemoveJob \cup SaveJob \cup Fetch \cup ReloadJob

Status == {"busy", "ok", "err"}

TypeOK ==
    /\ live \in [Site -> Whole \cup {NoDir}]
    /\ running \in [Site -> Dir]
    /\ call \in [Req -> Call \cup {NoCall}]
    /\ status \in [Req -> Status]
    /\ up \in BOOLEAN

Init ==
    /\ live \in [Site -> Whole \cup {NoDir}]
    /\ Accepted(live)
    /\ running = live
    /\ call = [r \in Req |-> NoCall]
    /\ status = [r \in Req |-> "ok"]
    /\ up = TRUE

(* The directory call c leaves in place of d when it succeeds. *)
Outcome(c, d) ==
    CASE c.kind = "apply"  -> c.tree
      [] c.kind = "save"   -> Edited(d, c.file, c.content)
      [] c.kind = "remove" -> NoDir

Writes(c) == c.kind \in {"apply", "save", "remove"}

Target(c) == [live EXCEPT ![c.site] = Outcome(c, @)]

Ends(r, how) == /\ status[r] = "busy"
                /\ status' = [status EXCEPT ![r] = how]
                /\ call' = [call EXCEPT ![r] = NoCall]
                /\ UNCHANGED up

Submit(r, c) ==
    /\ status[r] # "busy"
    /\ call' = [call EXCEPT ![r] = c]
    /\ status' = [status EXCEPT ![r] = "busy"]
    /\ UNCHANGED <<live, running, up>>

Fetched(r, t) ==
    /\ status[r] = "busy"
    /\ call[r].kind = "fetch"
    /\ call' = [call EXCEPT ![r] = [kind |-> "apply", site |-> call[r].site, tree |-> t]]
    /\ UNCHANGED <<live, running, status, up>>

Commit(r) ==
    /\ Ends(r, "ok")
    /\ Writes(call[r])
    /\ Accepted(Target(call[r]))
    /\ live' = Target(call[r])
    /\ running' = live'

(* Removing a site that has no directory succeeds and reloads nothing. *)
NothingToRemove(r) ==
    /\ Ends(r, "ok")
    /\ call[r].kind = "remove"
    /\ live[call[r].site] = NoDir
    /\ UNCHANGED <<live, running>>

Reload(r) ==
    /\ Ends(r, "ok")
    /\ call[r].kind = "reload"
    /\ Accepted(live)
    /\ running' = live
    /\ UNCHANGED live

Abort(r) ==
    /\ Ends(r, "err")
    /\ UNCHANGED <<live, running>>

LostReload(r) ==
    /\ LostReply
    /\ status[r] = "busy"
    /\ Writes(call[r])
    /\ Accepted(Target(call[r]))
    /\ running' = Target(call[r])
    /\ UNCHANGED <<live, call, status, up>>

LostSignal(r) ==
    /\ LostReply
    /\ Ends(r, "err")
    /\ call[r].kind = "reload"
    /\ Accepted(live)
    /\ running' = live
    /\ UNCHANGED live

(* The panel dies: the site being written is left as it was, missing, or as *)
(* the call wanted it, and nginx keeps running what it had loaded.          *)
Crash ==
    /\ up' = FALSE
    /\ \/ live' = live
       \/ \E r \in Req :
            /\ status[r] = "busy"
            /\ Writes(call[r])
            /\ \/ live' = [live EXCEPT ![call[r].site] = NoDir]
               \/ live' = Target(call[r])
    /\ UNCHANGED <<running, call, status>>

Next ==
    /\ up
    /\ \/ Crash
       \/ \E r \in Req :
            \/ \E c \in Call : Submit(r, c)
            \/ \E t \in Whole : Fetched(r, t)
            \/ Commit(r)
            \/ NothingToRemove(r)
            \/ Reload(r)
            \/ Abort(r)
            \/ LostReload(r)
            \/ LostSignal(r)

Spec == Init /\ [][Next]_vars
=============================================================================
