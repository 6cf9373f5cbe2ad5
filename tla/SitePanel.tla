----------------------------- MODULE SitePanel -----------------------------
(***************************************************************************)
(* Sites and certificates as the handlers of sites_handler.go and          *)
(* cert_handler.go keep them: rows in the database, trees under sites/,    *)
(* key pairs under certs/.  A handler loads a row, asks the nginx service  *)
(* for a change, and saves the row it loaded; every database call and      *)
(* every call of the service is one step (SiteApplyProofs shows that the   *)
(* service's calls may be seen that way), and between two steps any other  *)
(* handler may run.  The panel may die between two steps, and boot again   *)
(* through ReconcileSites, site by site; that may fail, or die, as well.   *)
(***************************************************************************)
EXTENDS Naturals, FiniteSets

CONSTANTS
    Site, Cert,    \* ids, never reused (AUTOINCREMENT)
    Req,           \* requests in flight at the same time
    Cfg,           \* structured configurations a user may enter
    ByHand,        \* what a tree that started from no tree at all says
    Parts,         \* what a tree says that was written or removed half-way
    Refused,       \* what nginx -t refuses, of Cfg and Parts
    NoRow, NoCert, NoTree,
    Ops,           \* the operations of this instance
    SaveFails      \* may a database write fail?

ASSUME PanelAssumption ==
    /\ Refused \subseteq Cfg \cup Parts
    /\ ByHand \notin Cfg \cup Parts
    /\ Cfg \cap Parts = {}
    /\ NoCert \notin Cert
    /\ SaveFails \in BOOLEAN

VARIABLES
    rows,     \* rows[s]: the row of site s
    certs,    \* certs[c]: the row of certificate c
    files,    \* the certificates whose key pair is on disk
    live,     \* live[s]: the tree sites/site-<s>
    backup,   \* backup[s]: one of the backups of s, whichever
    used,     \* ids already given out
    pc,       \* pc[r]: the next step of request r
    job,      \* job[r]: what r has loaded and been asked for
    up,       \* the panel serves requests
    left,     \* while it does not: the sites the boot has not come to
    apart     \* history: the sites whose row and tree are known to have been left apart

vars == <<rows, certs, files, live, backup, used, pc, job, up, left, apart>>
disk == <<files, live, backup>>

MaybeCert == Cert \cup {NoCert}

(* tls: CertPath and KeyPath are set; raw: RawEdited. *)
Row == [cfg : Cfg, cert : MaybeCert, tls : BOOLEAN, enabled : BOOLEAN,
        locked : BOOLEAN, raw : BOOLEAN]

(* cert: the certificate whose files the tree names; hand: edited by hand.  A *)
(* directory without site.conf, which nginx does not include, is no tree.     *)
Tree == [cfg : Cfg \cup {ByHand} \cup Parts, cert : MaybeCert, hand : BOOLEAN]

(* paths: CertPath and KeyPath are set, which is after the first issuance. *)
CertRow == [paths : BOOLEAN]

(* Nothing is not something. *)
ASSUME NothingAssumption == NoRow \notin Row \cup CertRow /\ NoTree \notin Tree

NewRow(g) == [cfg |-> g, cert |-> NoCert, tls |-> FALSE, enabled |-> TRUE,
              locked |-> FALSE, raw |-> FALSE]

Rendered(row) == [cfg |-> row.cfg, hand |-> FALSE,
                  cert |-> IF row.tls THEN row.cert ELSE NoCert]

Edited(t) == IF t = NoTree THEN [cfg |-> ByHand, cert |-> NoCert, hand |-> TRUE]
             ELSE [t EXCEPT !.hand = TRUE]

(* What is there when t was written, or removed, half-way: no site.conf yet,  *)
(* or no more, or one that is cut short, or lacks its locations.              *)
Fragments(t) ==
    {NoTree} \cup {f \in Tree : t # NoTree /\ f.cfg \in Parts /\ f.hand = t.hand
                                          /\ f.cert \in {t.cert, NoCert}}

IsPart(t) == t # NoTree /\ t.cfg \in Parts

(* nginx -t reads every site and every key pair the sites name. *)
Valid(l, fs) ==
    \A s \in Site : l[s] # NoTree =>
        l[s].cfg \notin Refused /\ l[s].cert \in fs \cup {NoCert}

NoJob == [op |-> "none"]

Init ==
    /\ rows = [s \in Site |-> NoRow]
    /\ certs = [c \in Cert |-> NoRow]
    /\ files = {}
    /\ live = [s \in Site |-> NoTree]
    /\ backup = [s \in Site |-> NoTree]
    /\ used = {}
    /\ pc = [r \in Req |-> "idle"]
    /\ job = [r \in Req |-> NoJob]
    /\ up = TRUE
    /\ left = {}
    /\ apart = {}

-----------------------------------------------------------------------------
(* Control flow of one request *)

Begin(r, l, j) == /\ pc[r] = "idle"
                  /\ j.op \in Ops
                  /\ pc' = [pc EXCEPT ![r] = l]
                  /\ job' = [job EXCEPT ![r] = j]
                  /\ UNCHANGED <<disk, up, left, apart>>

Goto(r, l) == /\ pc' = [pc EXCEPT ![r] = l]
              /\ job' = IF l = "idle" THEN [job EXCEPT ![r] = NoJob] ELSE job
              /\ UNCHANGED <<used, up, left>>

Together(s) == apart' = apart \ {s}
Apart(ss)   == apart' = apart \cup ss

(* loadSite, and siteLocked: every handler but setSiteLocked refuses a locked *)
(* site.                                                                      *)
\* Mutant: a handler that forgets siteLocked (MayChange).
LoadOnly(s) == rows[s] # NoRow
MayChange(s) == rows[s] # NoRow /\ ~rows[s].locked

(* The handler's copy of the row, the tree it wants, what it does meanwhile. *)
Job(op, s, row, tree) == [op |-> op, site |-> s, row |-> row, tree |-> tree]

SameRows == UNCHANGED <<rows, certs, used>>

-----------------------------------------------------------------------------
(* sites_handler.go: what each handler does up to its call of the service *)

Create(r, s, g) ==
    /\ s \notin used
    /\ Begin(r, "call", Job("create", s, NewRow(g), Rendered(NewRow(g))))
    /\ rows' = [rows EXCEPT ![s] = NewRow(g)]
    /\ used' = used \cup {s}
    /\ UNCHANGED certs

(* The tree of an enabled site is applied first, a disabled one is only saved. *)
ApplyOrSave(r, op, s, row) ==
    Begin(r, IF row.enabled THEN "call" ELSE "save", Job(op, s, row, Rendered(row)))

Update(r, s, g) ==
    /\ MayChange(s)
    /\ ApplyOrSave(r, "update", s, [rows[s] EXCEPT !.cfg = g, !.raw = FALSE])
    /\ SameRows

Toggle(r, s) ==
    /\ MayChange(s)
    /\ LET row == [rows[s] EXCEPT !.enabled = ~@, !.raw = @ /\ rows[s].enabled]
       IN  Begin(r, "call", Job("toggle", s, row,
                                IF row.enabled THEN Rendered(row) ELSE NoTree))
    /\ SameRows

Delete(r, s) ==
    /\ MayChange(s)
    /\ Begin(r, "call", Job("delete", s, rows[s], NoTree))
    /\ SameRows

SaveFile(r, s) ==
    /\ MayChange(s)
    /\ Begin(r, "call", Job("savefile", s, [rows[s] EXCEPT !.raw = TRUE], NoTree))
    /\ SameRows

Restore(r, s) ==
    /\ MayChange(s)
    /\ backup[s] # NoTree
    /\ Begin(r, "call", Job("restore", s, [rows[s] EXCEPT !.raw = TRUE], backup[s]))
    /\ SameRows

SetLocked(r, s) ==
    /\ rows[s] # NoRow
    /\ Begin(r, "save", Job("lock", s, [rows[s] EXCEPT !.locked = ~@], NoTree))
    /\ SameRows

\* Mutant: unbinding leaves the denormalised paths (Unbind).
UnbindIdOnly(r, s) ==
    /\ MayChange(s)
    /\ ApplyOrSave(r, "bind", s, [rows[s] EXCEPT !.cert = NoCert, !.raw = FALSE])
    /\ SameRows
Unbind(r, s) ==
    /\ MayChange(s)
    /\ ApplyOrSave(r, "bind", s, [rows[s] EXCEPT !.cert = NoCert, !.tls = FALSE, !.raw = FALSE])
    /\ SameRows

(* bindCert reads the certificate in a database call of its own. *)
Bind(r, s, c) ==
    /\ MayChange(s)
    /\ Begin(r, "bind", Job("bind", s, [rows[s] EXCEPT !.cert = c, !.raw = FALSE], NoTree))
    /\ SameRows

BindCert(r) ==
    LET c   == job[r].row.cert
        row == [job[r].row EXCEPT !.tls = certs[c].paths]
    IN  /\ pc[r] = "bind"
        /\ certs[c] # NoRow
        /\ pc' = [pc EXCEPT ![r] = IF row.enabled THEN "call" ELSE "save"]
        /\ job' = [job EXCEPT ![r].row = row, ![r].tree = Rendered(row)]
        /\ UNCHANGED <<rows, certs, used, disk, up, left, apart>>

BindCertMissing(r) ==
    /\ pc[r] = "bind"
    /\ certs[job[r].row.cert] = NoRow
    /\ Goto(r, "idle")
    /\ UNCHANGED <<rows, certs, disk, apart>>

-----------------------------------------------------------------------------
(* ApplySite, RemoveSite, SaveSiteFile, RestoreBackup *)

Wanted(r) == IF job[r].op = "savefile" THEN Edited(live[job[r].site]) ELSE job[r].tree

(* Any replaced tree may be the backup the admin picks later. *)
BackUp(s) == \/ UNCHANGED backup
             \/ live[s] # NoTree /\ backup' = [backup EXCEPT ![s] = live[s]]

AfterCall(op) == CASE op = "create" -> "idle"
                   [] op = "delete" -> "drop"
                   [] OTHER         -> "save"

CallOk(r) ==
    LET s == job[r].site IN
    /\ pc[r] = "call"
    /\ live' = [live EXCEPT ![s] = Wanted(r)]
    /\ \/ Valid(live', files)
       \/ live[s] = NoTree /\ live'[s] = NoTree    \* nothing to remove
    /\ BackUp(s)
    /\ Goto(r, AfterCall(job[r].op))
    /\ UNCHANGED <<rows, certs, files, apart>>

CallFail(r) ==
    /\ pc[r] = "call"
    /\ BackUp(job[r].site)
    /\ Goto(r, IF job[r].op = "create" THEN "drop" ELSE "idle")
    /\ UNCHANGED <<rows, certs, files, live, apart>>

(* What changes a tree that is there before it saves the row. *)
Edits   == {"savefile", "restore"}
Changes == {"update", "bind"} \cup Edits

(* A save after a call brings row and tree together.  A file can be saved,   *)
(* and a backup restored, while the site is disabled, which serves it.       *)
Settle(op, s, enabled) ==
    IF op # "lock" /\ (op = "toggle" \/ enabled) THEN Together(s)
    ELSE IF op \in Edits THEN Apart({s})
    ELSE UNCHANGED apart

(* gorm's Save writes every column of the copy, and inserts the row again if *)
(* it is no longer there.                                                    *)
Save(r) ==
    LET s == job[r].site IN
    /\ pc[r] = "save"
    /\ rows' = [rows EXCEPT ![s] = job[r].row]
    /\ Settle(job[r].op, s, job[r].row.enabled)
    /\ Goto(r, "idle")
    /\ UNCHANGED <<certs, disk>>

(* DeleteSite, and CreateSite after a failed apply. *)
Drop(r) ==
    /\ pc[r] = "drop"
    /\ rows' = [rows EXCEPT ![job[r].site] = NoRow]
    /\ Together(job[r].site)
    /\ Goto(r, "idle")
    /\ UNCHANGED <<certs, disk>>

-----------------------------------------------------------------------------
(* cert_handler.go *)

CertJob(op, c, row) == [op |-> op, cert |-> c, row |-> row]

(* CreateManualCert and IssueACMECert: the row comes before the files. *)
NewCert(r, c) ==
    /\ c \notin used
    /\ Begin(r, "issue", CertJob("newcert", c, [paths |-> TRUE]))
    /\ certs' = [certs EXCEPT ![c] = [paths |-> FALSE]]
    /\ used' = used \cup {c}
    /\ UNCHANGED rows

(* RenewCert, UpdateCert and the scheduler's renewOne: to the paths of the row. *)
Reissue(r, c) ==
    /\ certs[c] # NoRow
    /\ Begin(r, "issue", CertJob("reissue", c, certs[c]))
    /\ SameRows

(* There is nowhere to write to before the first issuance has been recorded. *)
IssueOk(r) ==
    /\ pc[r] = "issue"
    /\ job[r].row.paths
    /\ files' = files \cup {job[r].cert}
    /\ Goto(r, "record")
    /\ UNCHANGED <<rows, certs, live, backup, apart>>

(* A failed creation drops its row; a failed renewal is recorded in the row, *)
(* and so is a new name alone; a failed upload is not.                       *)
IssueFail(r) ==
    /\ pc[r] = "issue"
    /\ \E l \in IF job[r].op = "newcert" THEN {"discard"} ELSE {"record", "idle"} : Goto(r, l)
    /\ UNCHANGED <<rows, certs, disk, apart>>

Discard(r) ==
    /\ pc[r] = "discard"
    /\ certs' = [certs EXCEPT ![job[r].cert] = NoRow]
    /\ Goto(r, "idle")
    /\ UNCHANGED <<rows, disk, apart>>

Record(r) ==
    /\ pc[r] = "record"
    /\ certs' = [certs EXCEPT ![job[r].cert] = job[r].row]
    /\ Goto(r, "idle")
    /\ UNCHANGED <<rows, disk, apart>>

DeleteCert(r, c) ==
    /\ certs[c] # NoRow
    /\ Begin(r, "deltx", CertJob("delcert", c, certs[c]))
    /\ SameRows

InUse(c) == \E s \in Site : rows[s] # NoRow /\ rows[s].cert = c

(* One transaction: count the sites of the certificate, delete its row. *)
\* Mutant: the row is deleted whether a site uses it or not (DeleteCertTx).
DeleteCertBlindly(r) ==
    /\ pc[r] = "deltx"
    /\ certs' = [certs EXCEPT ![job[r].cert] = NoRow]
    /\ Goto(r, "rmfiles")
    /\ UNCHANGED <<rows, disk, apart>>
DeleteCertTx(r) ==
    /\ pc[r] = "deltx"
    /\ ~InUse(job[r].cert)
    /\ certs' = [certs EXCEPT ![job[r].cert] = NoRow]
    /\ Goto(r, "rmfiles")
    /\ UNCHANGED <<rows, disk, apart>>

DeleteCertRefused(r) ==
    /\ pc[r] = "deltx"
    /\ InUse(job[r].cert)
    /\ Goto(r, "idle")
    /\ UNCHANGED <<rows, certs, disk, apart>>

RemoveFiles(r) ==
    /\ pc[r] = "rmfiles"
    /\ files' = files \ {job[r].cert}
    /\ Goto(r, "idle")
    /\ UNCHANGED <<rows, certs, live, backup, apart>>

(* A write that fails ends the request; what it has done to disk stays. *)
WriteFail(r) ==
    /\ SaveFails
    /\ pc[r] \in {"save", "drop", "discard", "record"}
    /\ Apart(IF pc[r] \in {"save", "drop"} THEN {job[r].site} ELSE {})
    /\ Goto(r, "idle")
    /\ UNCHANGED <<rows, certs, disk>>

-----------------------------------------------------------------------------
(* Death and boot *)

(* Dying inside a call leaves the site as it was, without a directory, with  *)
(* a tree nginx -t has not seen, or with what a rollback had yet to remove.  *)
Crash ==
    /\ "crash" \in Ops
    /\ up' = FALSE
    /\ left' = Site
    /\ \/ UNCHANGED <<live, backup>>
       \/ \E r \in Req :
            LET s == job[r].site IN
            /\ pc[r] = "call"
            /\ \E t \in {Wanted(r)} \cup Fragments(Wanted(r)) : live' = [live EXCEPT ![s] = t]
            /\ BackUp(s)
    /\ Apart({job[r].site : r \in {q \in Req : pc[q] \in {"call", "save"} /\ job[q].op \in Changes}}
              \cup {s \in Site : IsPart(live'[s])})
    /\ pc' = [r \in Req |-> "idle"]
    /\ job' = [r \in Req |-> NoJob]
    /\ UNCHANGED <<rows, certs, files, used>>

(* ReconcileSites, before the first request is served: it removes the trees  *)
(* of disabled sites and writes those that are missing, in place.            *)
Enabled(s)  == rows[s] # NoRow /\ rows[s].enabled
Disabled(s) == rows[s] # NoRow /\ ~rows[s].enabled
Missing(s)  == Enabled(s) /\ live[s] = NoTree

Written(s) == Rendered([rows[s] EXCEPT !.tls = @ /\ rows[s].cert \in files])

Booting(s) == /\ ~up
              /\ s \in left
              /\ UNCHANGED <<rows, certs, files, backup, used, pc, job, up>>

\* Mutant: the trees of disabled sites are left alone (Reconcile).
ReconcileMissing(s) ==
    /\ Booting(s)
    /\ left' = left \ {s}
    /\ live' = [live EXCEPT ![s] = IF Missing(s) THEN Written(s) ELSE @]
    /\ IF Disabled(s) \/ Missing(s) THEN Together(s) ELSE UNCHANGED apart
Reconcile(s) ==
    /\ Booting(s)
    /\ left' = left \ {s}
    /\ live' = [live EXCEPT ![s] = IF Disabled(s) THEN NoTree
                                   ELSE IF Missing(s) THEN Written(s) ELSE @]
    /\ IF Disabled(s) \/ Missing(s) THEN Together(s) ELSE UNCHANGED apart

(* Rendering, writing or removing fails, which is logged or ignored, and the *)
(* next site is looked at; or the panel dies, and the next boot starts over. *)
(* A part of a tree that has a site.conf is kept by every later boot.        *)
ReconcileFail(s) ==
    /\ Booting(s)
    /\ Disabled(s) \/ Missing(s)
    /\ left' \in {left \ {s}, Site}
    /\ \E t \in IF Disabled(s) THEN {live[s]} \cup Fragments(live[s]) ELSE Fragments(Written(s)) :
         live' = [live EXCEPT ![s] = t]
    /\ Apart({s})

BootDies ==
    /\ ~up
    /\ left' = Site
    /\ UNCHANGED <<rows, certs, disk, used, pc, job, up, apart>>

Boot ==
    /\ ~up
    /\ left = {}
    /\ up' = TRUE
    /\ UNCHANGED <<rows, certs, disk, used, pc, job, left, apart>>

Serve(r) ==
    \/ \E s \in Site :
        \/ \E g \in Cfg : Create(r, s, g) \/ Update(r, s, g)
        \/ Toggle(r, s) \/ Delete(r, s) \/ SaveFile(r, s) \/ Restore(r, s)
        \/ SetLocked(r, s) \/ Unbind(r, s)
        \/ \E c \in Cert : Bind(r, s, c)
    \/ \E c \in Cert : NewCert(r, c) \/ Reissue(r, c) \/ DeleteCert(r, c)

Proceed(r) ==
    \/ BindCert(r) \/ BindCertMissing(r)
    \/ CallOk(r) \/ CallFail(r) \/ Save(r) \/ Drop(r)
    \/ IssueOk(r) \/ IssueFail(r) \/ Discard(r) \/ Record(r)
    \/ DeleteCertTx(r) \/ DeleteCertRefused(r) \/ RemoveFiles(r)
    \/ WriteFail(r)

Next == \/ up /\ (Crash \/ \E r \in Req : Serve(r) \/ Proceed(r))
        \/ \E s \in Site : Reconcile(s) \/ ReconcileFail(s)
        \/ BootDies \/ Boot

Spec == Init /\ [][Next]_vars

-----------------------------------------------------------------------------
(* Properties *)

(* Types; and a row names key files only if it names their certificate. *)
TypeOK ==
    /\ rows \in [Site -> Row \cup {NoRow}]
    /\ \A s \in Site : rows[s] # NoRow /\ rows[s].tls => rows[s].cert # NoCert
    /\ certs \in [Cert -> CertRow \cup {NoRow}]
    /\ files \subseteq Cert
    /\ live \in [Site -> Tree \cup {NoTree}]
    /\ backup \in [Site -> Tree \cup {NoTree}]
    /\ used \subseteq Site \cup Cert
    /\ up \in BOOLEAN
    /\ left \subseteq Site

AtRest == up /\ \A r \in Req : pc[r] = "idle"

(* UpdateSite: a failed apply leaves the row "staying consistent with the   *)
(* live config".  When no request is in flight, an enabled site that is not *)
(* marked as edited by hand is served as its row says, unless a database    *)
(* write failed, or the panel died, between the change of its tree and the  *)
(* save of its row, or a boot or a rollback broke off while it wrote or     *)
(* removed the tree; and no later save or boot has made up for it.          *)
LiveIsModel ==
    AtRest => \A s \in Site \ apart : Enabled(s) /\ ~rows[s].raw => live[s] = Rendered(rows[s])

(* A site that has been deleted, or whose creation failed, is not served.   *)
DeletedIsOff == AtRest => \A s \in Site : rows[s] = NoRow => live[s] = NoTree

(* "Disabling removes its nginx config" (Sites.tsx): a disabled site is not *)
(* served, unless a save failed or its files were edited while it was       *)
(* disabled; every boot that can remove its files makes sure of it.         *)
DisabledIsOff == AtRest => \A s \in Site \ apart : Disabled(s) => live[s] = NoTree

(* So between requests what is served follows from the rows, for sites that *)
(* exist, are disabled, or are gone.                                        *)
TreesFollowRows == LiveIsModel /\ DeletedIsOff /\ DisabledIsOff

(* DeleteCert's transaction is there to prevent "a dangling cert_id": the   *)
(* certificate of a row exists.                                             *)
NoDanglingCert ==
    \A s \in Site : rows[s] # NoRow /\ rows[s].cert # NoCert => certs[rows[s].cert] # NoRow

(* "... / orphaned files": no live tree names key files that are gone, or   *)
(* nginx -t fails from then on, for every site.                             *)
CertsOfLiveExist ==
    \A s \in Site : live[s] # NoTree => live[s].cert \in files \cup {NoCert}

(* What is on disk passes nginx -t, also after a death and a boot that      *)
(* renders what was missing ("a previously-valid model is only re-rendered  *)
(* when its tree is absent").                                               *)
LiveIsValid == up => Valid(live, files)

(* "A locked site is frozen for everyone": until it is unlocked no step of  *)
(* a request changes its row or its tree.                                   *)
LockedIsFrozen ==
    [][\A s \in Site : up /\ rows[s] # NoRow /\ rows[s].locked =>
        /\ rows'[s] # NoRow
        /\ rows'[s] = [rows[s] EXCEPT !.locked = rows'[s].locked]
        /\ live'[s] = live[s]]_vars

(* A deleted site does not come back.  (Ids are not reused.)                *)
DeletedIsGone ==
    [][\A s \in Site \cap used : rows[s] = NoRow => rows'[s] = NoRow]_vars

(* ReconcileSites keeps the trees on disk "so admin raw edits survive       *)
(* restarts": booting does not replace a tree that was edited by hand.      *)
EditsSurviveBoot ==
    [][~up => \A s \in Site :
        Enabled(s) /\ rows[s].raw => live'[s] = live[s]]_vars
=============================================================================
