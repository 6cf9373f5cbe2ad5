------------------------------ MODULE Renewal ------------------------------
(***************************************************************************)
(* How the key pair of a certificate is replaced and reaches nginx:        *)
(* RenewCert, UpdateCert and DeleteCert of cert_handler.go beside the      *)
(* nightly sweep of ssl/renew.go.  Each loads rows, replaces files, saves  *)
(* the rows it has loaded and asks the nginx service for one reload at the *)
(* end; any other may run between two of these steps.  Writing one pair is *)
(* CertPair's subject, binding a site SitePanel's: here a bind is one step *)
(* that ends in a reload, and the sites are enabled ones.                  *)
(*                                                                         *)
(* A date of expiry is either "good" or, within renewThreshold, "due".     *)
(***************************************************************************)
EXTENDS Naturals, FiniteSets

CONSTANTS
    Cert,       \* ids, never reused
    Lucky,      \* those the CA has issued and issues again sooner or later
    Req,        \* requests in flight at the same time
    Sched,      \* the goroutine of the scheduler
    NoCert,
    Faults,     \* what may fail: the database ("save"), nginx ("reload")
    MaxCrashes  \* how often the panel dies

ASSUME RenewalAssumption ==
    /\ Lucky \subseteq Cert
    /\ NoCert \notin Cert
    /\ Sched \notin Req
    /\ Faults \subseteq {"save", "reload"}
    /\ MaxCrashes \in Nat

Proc == Req \cup {Sched}

VARIABLES
    rows,      \* rows[c]: NotAfter in the row of c, or "gone"
    pair,      \* pair[c]: that of the files of c, or "none"
    bound,     \* the certificates some site is bound to
    stale,     \* those whose files changed since nginx last read them
    pc,        \* pc[p]: the next step of p
    job,       \* job[p]: what p is doing
    excused,   \* history: changed by a call that failed or died before its reload
    crashes,   \* how often the panel has died
    acme       \* the certificates the CA has issued; the others were uploaded

vars == <<rows, pair, bound, stale, pc, job, excused, crashes, acme>>

Date == {"good", "due"}

(* row: the date in the loaded row of cert; todo: the rows a sweep has found *)
(* and not looked at; changed: the certificates whose files it has replaced. *)
Job == [op : {"none", "sweep", "renew", "rename", "delete"},
        cert : Cert \cup {NoCert}, row : Date,
        todo : SUBSET (Cert \X Date), changed : SUBSET Cert]

NoJob == [op |-> "none", cert |-> NoCert, row |-> "due", todo |-> {}, changed |-> {}]

Exists(c) == rows[c] # "gone"

Init ==
    /\ rows \in [Cert -> Date]
    /\ pair = rows
    /\ bound \in SUBSET Cert
    /\ stale = {}
    /\ pc = [p \in Proc |-> "idle"]
    /\ job = [p \in Proc |-> NoJob]
    /\ excused = {}
    /\ crashes = 0
    /\ acme \in {a \in SUBSET Cert : Lucky \subseteq a}

Goto(p, l) == pc' = [pc EXCEPT ![p] = l]

(* The call returns, leaving what it has changed to others. *)
Leave(p) == /\ Goto(p, "idle")
            /\ job' = [job EXCEPT ![p] = NoJob]

(* nginx -t refuses a configuration that names missing files. *)
Testable(cs) == \A c \in cs : pair[c] # "none"

(* nginx has read the files of every site. *)
Synced == stale' = {} /\ excused' = {}

(* Nobody is left to reload nginx for what was changed in cs. *)
Excuse(cs) == excused' = excused \cup (cs \cap stale)

-----------------------------------------------------------------------------
(* Time passes and the date of c, wherever it has been copied to, comes      *)
(* near, though not within the call that has just issued it; a site is bound *)
(* or unbound.                                                               *)

Later(d) == IF d = "good" THEN "due" ELSE d

Age(c) ==
    /\ \A p \in Proc : c \notin job[p].changed
    /\ rows' = [rows EXCEPT ![c] = Later(@)]
    /\ pair' = [pair EXCEPT ![c] = Later(@)]
    /\ job' = [p \in Proc |-> [job[p] EXCEPT
                 !.row  = IF job[p].cert = c THEN "due" ELSE @,
                 !.todo = {IF x[1] = c THEN <<c, "due">> ELSE x : x \in @}]]
    /\ UNCHANGED <<bound, stale, pc, excused, crashes, acme>>

Bind(c) ==
    /\ Exists(c)
    /\ Testable(bound \cup {c})
    /\ bound' = bound \cup {c}
    /\ Synced
    /\ UNCHANGED <<rows, pair, pc, job, crashes, acme>>

Unbind(c) ==
    /\ c \in bound
    /\ Testable(bound \ {c})
    /\ bound' = bound \ {c}
    /\ Synced
    /\ UNCHANGED <<rows, pair, pc, job, crashes, acme>>

-----------------------------------------------------------------------------
(* The handlers up to their first change *)

Request(r, op, c, row, l) ==
    /\ pc[r] = "idle"
    /\ Exists(c)
    /\ Goto(r, l)
    /\ job' = [job EXCEPT ![r] = [NoJob EXCEPT !.op = op, !.cert = c, !.row = row]]
    /\ UNCHANGED <<rows, pair, bound, stale, excused, crashes, acme>>

(* RenewCert, or UpdateCert with other domains or another PEM. *)
Renew(r, c)  == Request(r, "renew", c, rows[c], "issue")
Rename(r, c) == Request(r, "rename", c, rows[c], "save")
Delete(r, c) == Request(r, "delete", c, NoJob.row, "deltx")

-----------------------------------------------------------------------------
(* The sweep *)

Sweep ==
    /\ pc[Sched] = "idle"
    /\ Goto(Sched, "next")
    /\ job' = [job EXCEPT ![Sched] = [NoJob EXCEPT !.op = "sweep",
                 !.todo = {<<c, rows[c]>> : c \in {d \in acme : Exists(d)}}]]
    /\ UNCHANGED <<rows, pair, bound, stale, excused, crashes, acme>>

(* The rows are those of the start of the sweep, the time is now. *)
\* Mutant: the loop goes on without its certificate (Take).
TakeUnnamed ==
    /\ pc[Sched] = "next"
    /\ \E x \in job[Sched].todo :
         /\ Goto(Sched, IF x[2] = "due" THEN "issue" ELSE "next")
         /\ job' = [job EXCEPT ![Sched].todo = @ \ {x}]
    /\ UNCHANGED <<rows, pair, bound, stale, excused, crashes, acme>>
Take ==
    /\ pc[Sched] = "next"
    /\ \E x \in job[Sched].todo :
         IF x[2] = "due"
         THEN /\ Goto(Sched, "issue")
              /\ job' = [job EXCEPT ![Sched].todo = @ \ {x}, ![Sched].cert = x[1]]
         ELSE /\ UNCHANGED pc
              /\ job' = [job EXCEPT ![Sched].todo = @ \ {x}]
    /\ UNCHANGED <<rows, pair, bound, stale, excused, crashes, acme>>

SweepEnd ==
    /\ pc[Sched] = "next"
    /\ job[Sched].todo = {}
    /\ IF job[Sched].changed # {} THEN Goto(Sched, "reload") /\ UNCHANGED job
                                  ELSE Leave(Sched)
    /\ UNCHANGED <<rows, pair, bound, stale, excused, crashes, acme>>

-----------------------------------------------------------------------------
(* Issuance, or the storing of an upload: the files are there at the end. *)
(* What the CA issues is good for longer than the threshold; an upload has *)
(* only not to have run out.                                               *)

Dates(c) == IF c \in acme THEN {"good"} ELSE Date

IssueOk(p) ==
    /\ pc[p] = "issue"
    /\ \E d \in Dates(job[p].cert) :
         /\ pair' = [pair EXCEPT ![job[p].cert] = d]
         /\ job' = [job EXCEPT ![p].row = d, ![p].changed = @ \cup {job[p].cert}]
    /\ stale' = stale \cup {job[p].cert}
    /\ Goto(p, "save")
    /\ UNCHANGED <<rows, bound, excused, crashes, acme>>

(* A failed issuance is noted in the row, a failed upload is not. *)
\* Mutant: the date is set before the error is looked at (IssueFail).
IssueFailDated(p) ==
    /\ pc[p] = "issue"
    /\ IF job[p].cert \in acme
       THEN Goto(p, "note") /\ job' = [job EXCEPT ![p].row = "good"]
       ELSE Leave(p)
    /\ UNCHANGED <<rows, pair, bound, stale, excused, crashes, acme>>
IssueFail(p) ==
    /\ pc[p] = "issue"
    /\ IF job[p].cert \in acme THEN Goto(p, "note") /\ UNCHANGED job ELSE Leave(p)
    /\ UNCHANGED <<rows, pair, bound, stale, excused, crashes, acme>>

-----------------------------------------------------------------------------
(* The save, of every column; gorm inserts a row that is gone. *)

Put(p) == rows' = [rows EXCEPT ![job[p].cert] = job[p].row]

(* The sweep goes on to the next row. *)
Goon(p) == /\ Goto(p, "next")
           /\ job' = [job EXCEPT ![p].cert = NoCert, ![p].row = NoJob.row]

AfterSave(p) ==
    CASE job[p].op = "sweep"  -> Goon(p)
      [] job[p].op = "rename" -> Leave(p)
      [] job[p].op = "renew"  -> Goto(p, "reload") /\ UNCHANGED job

\* Mutants: the sweep ends with the first renewal that fails, or remembers
\* only whether its last renewal worked (AfterNote).
AfterNoteEnd(p)    == Leave(p)
AfterNoteForget(p) == IF job[p].op = "sweep"
                      THEN Goto(p, "next") /\ job' = [job EXCEPT ![p] = [NoJob EXCEPT
                             !.op = "sweep", !.todo = job[p].todo]]
                      ELSE Leave(p)
AfterNote(p)       == IF job[p].op = "sweep" THEN Goon(p) ELSE Leave(p)

Save(p) == /\ pc[p] = "save"
           /\ Put(p)
           /\ AfterSave(p)
           /\ UNCHANGED <<pair, bound, stale, excused, crashes, acme>>

Note(p) == /\ pc[p] = "note"
           /\ Put(p)
           /\ AfterNote(p)
           /\ UNCHANGED <<pair, bound, stale, excused, crashes, acme>>

(* A handler answers 500 and returns without a reload; the sweep does not    *)
(* look at the error.                                                        *)
SaveFail(p) ==
    /\ "save" \in Faults
    /\ pc[p] = "save"
    /\ IF job[p].op = "sweep"
       THEN AfterSave(p) /\ UNCHANGED excused
       ELSE Leave(p) /\ Excuse(job[p].changed)
    /\ UNCHANGED <<rows, pair, bound, stale, crashes, acme>>

NoteFail(p) == /\ "save" \in Faults
               /\ pc[p] = "note"
               /\ AfterNote(p)
               /\ UNCHANGED <<rows, pair, bound, stale, excused, crashes, acme>>

ReloadOk(p) == /\ pc[p] = "reload"
               /\ Testable(bound)
               /\ Synced
               /\ Leave(p)
               /\ UNCHANGED <<rows, pair, bound, crashes, acme>>

ReloadFail(p) == /\ pc[p] = "reload"
                 /\ "reload" \in Faults \/ ~Testable(bound)
                 /\ Excuse(job[p].changed)
                 /\ Leave(p)
                 /\ UNCHANGED <<rows, pair, bound, stale, crashes, acme>>

-----------------------------------------------------------------------------
(* DeleteCert: a transaction, and then the files. *)

DeleteTx(p) ==
    /\ pc[p] = "deltx"
    /\ IF job[p].cert \in bound
       THEN Leave(p) /\ UNCHANGED rows
       ELSE /\ rows' = [rows EXCEPT ![job[p].cert] = "gone"]
            /\ Goto(p, "rmfiles") /\ UNCHANGED job
    /\ UNCHANGED <<pair, bound, stale, excused, crashes, acme>>

RemoveFiles(p) ==
    /\ pc[p] = "rmfiles"
    /\ pair' = [pair EXCEPT ![job[p].cert] = "none"]
    /\ Leave(p)
    /\ UNCHANGED <<rows, bound, stale, excused, crashes, acme>>

(* The panel dies; nginx, in a container of its own, goes on with what it    *)
(* has read, and the boot does not reload it.                                *)
Crash ==
    /\ crashes < MaxCrashes
    /\ crashes' = crashes + 1
    /\ pc' = [p \in Proc |-> "idle"]
    /\ job' = [p \in Proc |-> NoJob]
    /\ Excuse(UNION {job[p].changed : p \in Proc})
    /\ UNCHANGED <<rows, pair, bound, stale, acme>>

-----------------------------------------------------------------------------
Step(p) == \/ IssueOk(p) \/ IssueFail(p)
           \/ Save(p) \/ SaveFail(p) \/ Note(p) \/ NoteFail(p)
           \/ ReloadOk(p) \/ ReloadFail(p)
           \/ DeleteTx(p) \/ RemoveFiles(p)

Next ==
    \/ \E c \in Cert : Age(c) \/ Bind(c) \/ Unbind(c)
    \/ \E r \in Req, c \in Cert : Renew(r, c) \/ Rename(r, c) \/ Delete(r, c)
    \/ Sweep \/ Take \/ SweepEnd
    \/ \E p \in Proc : Step(p)
    \/ Crash

Spec == Init /\ [][Next]_vars

(* The cron job comes round again, a call that can go on does, and what is   *)
(* tried every night works some night: the CA for a lucky certificate, and   *)
(* the save of its row.                                                      *)
Fairness ==
    /\ WF_vars(Sweep) /\ WF_vars(Take) /\ WF_vars(SweepEnd)
    /\ \A p \in Proc : WF_vars(Step(p))
    /\ \A c \in Lucky : SF_vars(job[Sched].cert = c /\ IssueOk(Sched))
    /\ \A c \in Lucky : SF_vars(job[Sched].cert = c /\ Save(Sched))

FairSpec == Spec /\ Fairness

-----------------------------------------------------------------------------
(* Properties *)

(* Types; only what a call has changed awaits a reload. *)
TypeOK ==
    /\ rows \in [Cert -> Date \cup {"gone"}]
    /\ pair \in [Cert -> Date \cup {"none"}]
    /\ bound \in SUBSET Cert
    /\ stale \in SUBSET Cert
    /\ pc \in [Proc -> {"idle", "next", "issue", "save", "note", "reload", "deltx", "rmfiles"}]
    /\ job \in [Proc -> Job]
    /\ \A p \in Proc : pc[p] \notin {"idle", "next", "reload"} => job[p].cert \in Cert
    /\ excused \in SUBSET Cert
    /\ crashes \in 0..MaxCrashes
    /\ acme \in SUBSET Cert /\ Lucky \subseteq acme

(* New files reach nginx ("so every site using the cert syncs to the new     *)
(* files automatically"): whatever calls overlap, files nginx has not read   *)
(* are those of a call that is still to reload, or of one that failed or     *)
(* died before it could, and a reload of any call makes up for these.        *)
ServedOrOwed ==
    \A c \in stale : c \in excused \/ \E p \in Proc : c \in job[p].changed

(* The sweep goes by the rows of what the CA has issued; overlapping saves   *)
(* of loaded rows never make one promise more than the files hold, so none   *)
(* of these certificates runs out unseen.  (Nothing goes by the row of an    *)
(* upload, which does after a save that failed: UploadsAreTrue.)             *)
NeverOverstated ==
    \A c \in acme : rows[c] = "good" => pair[c] # "due"

(* The list of certificates shows when each runs out, uploads included.      *)
UploadsAreTrue ==
    \A c \in Cert \ acme : rows[c] = "good" /\ pair[c] = "due" =>
        \E p \in Proc : pc[p] = "save" /\ c \in job[p].changed

(* Whatever becomes of the other certificates, of requests and of single     *)
(* nights, a certificate that is due and that the CA will issue is renewed,  *)
(* or deleted.                                                               *)
DueIsRenewed == \A c \in Lucky : rows[c] = "due" ~> rows[c] # "due"

(* "so sites using them pick up the new content": what a site uses and nginx *)
(* has not read, it reads in the end.                                        *)
StaleIsRead == \A c \in Cert : c \in stale \cap bound ~> c \notin stale \cap bound

(* "DeleteCert removes a certificate; blocked if any site references it".    *)
BoundHasFiles == \A c \in bound : pair[c] # "none"
=============================================================================
