----------------------------- MODULE SiteApply -----------------------------
(***************************************************************************)
(* The apply pipeline of internal/nginx/service.go, file operation by file *)
(* operation, over one life of the panel process: staging directory, per-  *)
(* second backup, rename aside, rename in, nginx -t, reload, and the       *)
(* restore on every failure.  Everything but the reading of a backup runs  *)
(* under the service mutex.                                                *)
(***************************************************************************)
EXTENDS SiteTrees

CONSTANTS
    NoReq,         \* the mutex is free
    Keep,          \* backups kept by a successful apply (10 in the code)
    PutbackFails   \* may the rename that undoes a failed apply itself fail?

ASSUME ApplyAssumption ==
    /\ NoReq \notin Req
    /\ Keep \in Nat \ {0}
    /\ PutbackFails \in BOOLEAN

VARIABLES
    live,      \* live[s]: sites/site-<s>
    staging,   \* staging[s]: .staging/site-<s>
    aside,     \* aside[s][t]: .staging/site-<s>.old.<t>
    backups,   \* backups[s][t]: backups/site-<s>/<t>
    running,   \* the directories nginx last loaded
    clock,     \* wall clock, in seconds: the resolution of tsStr
    mu,        \* holder of Service.mu
    pc,        \* pc[r]: where r is in its call, or how its last call ended
    job,       \* job[r]: the arguments of the call
    new,       \* new[r]: the fileset r is going to stage
    had,       \* hadPrev of the holder
    ts,        \* ts of the holder
    todo,      \* files the holder's copyTree has still to copy
    up         \* the panel process is alive

vars == <<live, staging, aside, backups, running, clock, mu, pc, job, new,
          had, ts, todo, up>>
locals == <<had, ts, todo>>

Done    == {"ok", "err"}
Reading == {"read", "readLocs"}
Locked  == {"stage", "backup", "aside", "swap", "test", "reload", "finish",
            "undo", "putback", "check", "signal"}
PC      == Done \cup Reading \cup {"wait"} \cup Locked

(* The holder has put the previous directory aside (or found none). *)
Swapping == {"swap", "test", "reload", "undo", "putback"}

Blank == [f \in File |-> NoFile]   \* a directory just made by MkdirAll
MkDir(d) == IF d = NoDir THEN Blank ELSE d

Init ==
    /\ live \in [Site -> {NoDir} \cup {j.tree : j \in Jobs \cap ApplyJob}]
    /\ Accepted(live)
    /\ running = live
    /\ staging = [s \in Site |-> NoDir]
    /\ aside = [s \in Site |-> [t \in Time |-> NoDir]]
    /\ backups = [s \in Site |-> [t \in Time |-> NoDir]]
    /\ clock = 0
    /\ mu = NoReq
    /\ pc = [r \in Req |-> "ok"]
    /\ job = [r \in Req |-> NoCall]
    /\ new = [r \in Req |-> Blank]
    /\ had = FALSE /\ ts = 0 /\ todo = {}
    /\ up = TRUE

-----------------------------------------------------------------------------
(* Control flow of one call *)

Goto(r, l) == pc' = [pc EXCEPT ![r] = l]

(* A step of the holder that stays inside the critical section. *)
Step(r, from, to) == /\ pc[r] = from
                     /\ Goto(r, to)
                     /\ UNCHANGED <<mu, job, new, clock, up>>

(* r returns, and its arguments and locals go out of scope. *)
Reply(r, how) == /\ Goto(r, how)
                 /\ job' = [job EXCEPT ![r] = NoCall]
                 /\ new' = [new EXCEPT ![r] = Blank]

(* A return of the holder runs the deferred Unlock. *)
\* Mutant: an error return that forgets the deferred Unlock (Return).
ReturnLocked(r, from, how) == /\ pc[r] = from
                              /\ Reply(r, how)
                              /\ mu' = IF how = "err" THEN mu ELSE NoReq
                              /\ had' = FALSE /\ ts' = 0 /\ todo' = {}
                              /\ UNCHANGED <<clock, up>>
Return(r, from, how) == /\ pc[r] = from
                        /\ Reply(r, how)
                        /\ mu' = NoReq
                        /\ had' = FALSE /\ ts' = 0 /\ todo' = {}
                        /\ UNCHANGED <<clock, up>>

(* The deferred RemoveAll(staging), also what a rename of staging leaves. *)
Drop(s) == staging' = [staging EXCEPT ![s] = NoDir]

Start(r, j) ==
    /\ pc[r] \in Done
    /\ job' = [job EXCEPT ![r] = j]
    /\ Goto(r, IF j.kind = "restore" THEN "read" ELSE "wait")
    /\ UNCHANGED <<live, staging, aside, backups, running, clock, mu, new, locals, up>>

(* RestoreBackup reads the backup before it takes the mutex, site.conf first. *)
Source(r) == backups[job[r].site][job[r].at]

ReadSiteConf(r) ==
    /\ pc[r] = "read"
    /\ new' = [new EXCEPT ![r] = [Blank EXCEPT ![Main] = ReadFile(Source(r), Main)]]
    /\ Goto(r, "readLocs")
    /\ UNCHANGED <<live, staging, aside, backups, running, clock, mu, job, locals, up>>

ReadLocations(r) ==
    /\ pc[r] = "readLocs"
    /\ new' = [new EXCEPT ![r] = [f \in File |-> IF f = Main THEN new[r][Main]
                                                 ELSE ReadFile(Source(r), f)]]
    /\ Goto(r, "wait")
    /\ UNCHANGED <<live, staging, aside, backups, running, clock, mu, job, locals, up>>

ReadFail(r) ==
    /\ pc[r] \in Reading
    /\ Reply(r, "err")
    /\ UNCHANGED <<live, staging, aside, backups, running, clock, mu, locals, up>>

-----------------------------------------------------------------------------
(* Taking the mutex: s.mu.Lock() and what precedes the first file operation *)

Acquire(r, kinds) == /\ pc[r] = "wait"
                     /\ mu = NoReq
                     /\ job[r].kind \in kinds
                     /\ UNCHANGED <<live, staging, aside, running, clock, up>>

LockApply(r) ==
    /\ Acquire(r, {"apply", "restore"})
    /\ mu' = r
    /\ Goto(r, "stage")
    /\ new' = [new EXCEPT ![r] = IF job[r].kind = "apply" THEN job[r].tree ELSE @]
    /\ UNCHANGED <<job, backups, locals>>

LockSave(r) ==
    /\ Acquire(r, {"save"})
    /\ LET d == live[job[r].site] IN
         /\ job[r].file \in Editable(d)
         /\ new' = [new EXCEPT ![r] = Edited(d, job[r].file, job[r].content)]
    /\ mu' = r
    /\ Goto(r, "stage")
    /\ UNCHANGED <<job, backups, locals>>

LockSaveMissing(r) ==
    /\ Acquire(r, {"save"})
    /\ job[r].file \notin Editable(live[job[r].site])
    /\ Reply(r, "err")
    /\ UNCHANGED <<mu, backups, locals>>

(* copyTree makes the backup directory, or goes into the one of this second. *)
OpenBackup(s) ==
    /\ had' = (live[s] # NoDir)
    /\ ts' = clock
    /\ todo' = Files(live[s])
    /\ backups' = IF live[s] = NoDir THEN backups
                  ELSE [backups EXCEPT ![s][clock] = MkDir(@)]

LockRemove(r) ==
    /\ Acquire(r, {"remove"})
    /\ live[job[r].site] # NoDir
    /\ OpenBackup(job[r].site)
    /\ mu' = r
    /\ Goto(r, "backup")
    /\ UNCHANGED <<job, new>>

LockRemoveMissing(r) ==
    /\ Acquire(r, {"remove"})
    /\ live[job[r].site] = NoDir
    /\ Reply(r, "ok")
    /\ UNCHANGED <<mu, backups, locals>>

LockReload(r) ==
    /\ Acquire(r, {"reload"})
    /\ mu' = r
    /\ Goto(r, "check")
    /\ UNCHANGED <<job, new, backups, locals>>

Lock(r) == \/ LockApply(r) \/ LockSave(r) \/ LockSaveMissing(r)
           \/ LockRemove(r) \/ LockRemoveMissing(r) \/ LockReload(r)

-----------------------------------------------------------------------------
(* applyStagedSiteLocked and RemoveSite, under the mutex *)

Stage(r) ==
    LET s == job[r].site IN
    /\ Step(r, "stage", IF live[s] = NoDir THEN "swap" ELSE "backup")
    /\ staging' = [staging EXCEPT ![s] = new[r]]
    /\ OpenBackup(s)
    /\ UNCHANGED <<live, aside, running>>

StageFail(r) ==
    /\ Return(r, "stage", "err")
    /\ Drop(job[r].site)
    /\ UNCHANGED <<live, aside, backups, running>>

(* WalkDir visits locations/ before site.conf. *)
CopyFile(r, f) ==
    LET s == job[r].site IN
    /\ Step(r, "backup", "backup")
    /\ f \in todo
    /\ f = Main => todo = {Main}
    /\ backups' = [backups EXCEPT ![s][ts][f] = live[s][f]]
    /\ todo' = todo \ {f}
    /\ UNCHANGED <<live, staging, aside, running, had, ts>>

\* Mutant: the backup's error is ignored (CopyDone).
CopySkipped(r) ==
    /\ Step(r, "backup", "aside")
    /\ UNCHANGED <<live, staging, aside, backups, running, locals>>
CopyDone(r) ==
    /\ Step(r, "backup", "aside")
    /\ todo = {}
    /\ UNCHANGED <<live, staging, aside, backups, running, locals>>

CopyFail(r) ==
    /\ Return(r, "backup", "err")
    /\ Drop(job[r].site)
    /\ UNCHANGED <<live, aside, backups, running>>

(* Renaming onto a directory that is not empty fails, so a leftover of the *)
(* same second makes this step impossible.                                  *)
Aside(r) ==
    LET s == job[r].site IN
    /\ Step(r, "aside", IF job[r].kind = "remove" THEN "test" ELSE "swap")
    /\ aside[s][ts] = NoDir
    /\ aside' = [aside EXCEPT ![s][ts] = live[s]]
    /\ live' = [live EXCEPT ![s] = NoDir]
    /\ UNCHANGED <<staging, backups, running, locals>>

AsideFail(r) ==
    /\ Return(r, "aside", "err")
    /\ Drop(job[r].site)
    /\ UNCHANGED <<live, aside, backups, running>>

Swap(r) ==
    LET s == job[r].site IN
    /\ Step(r, "swap", "test")
    /\ live' = [live EXCEPT ![s] = staging[s]]
    /\ Drop(s)
    /\ UNCHANGED <<aside, backups, running, locals>>

SwapFail(r) ==
    /\ Step(r, "swap", "putback")
    /\ UNCHANGED <<live, staging, aside, backups, running, locals>>

TestOk(r) ==
    /\ Step(r, "test", "reload")
    /\ Accepted(live)
    /\ UNCHANGED <<live, staging, aside, backups, running, locals>>

\* Mutant: a refused configuration is not rolled back (TestFail).
TestFailKept(r) ==
    /\ Return(r, "test", "err")
    /\ UNCHANGED <<live, staging, aside, backups, running>>
(* nginx -t refuses the configuration, or docker exec does not answer. *)
TestFail(r) ==
    /\ Step(r, "test", "undo")
    /\ UNCHANGED <<live, staging, aside, backups, running, locals>>

\* Mutant: a removal is not reloaded (ReloadOk).
ReloadSkipped(r) ==
    /\ Step(r, "reload", "finish")
    /\ running' = IF job[r].kind = "remove" THEN running ELSE live
    /\ UNCHANGED <<live, staging, aside, backups, locals>>
ReloadOk(r) ==
    /\ Step(r, "reload", "finish")
    /\ running' = live
    /\ UNCHANGED <<live, staging, aside, backups, locals>>

\* Mutant: a failed reload is not rolled back (ReloadFail).
ReloadFailKept(r) ==
    /\ Return(r, "reload", "err")
    /\ UNCHANGED <<live, staging, aside, backups, running>>
(* An error of the exec stream or of ContainerExecInspect, or a cancelled *)
(* request, comes after the command has run.                              *)
ReloadFail(r) ==
    /\ Step(r, "reload", "undo")
    /\ \/ UNCHANGED running
       \/ LostReply /\ running' = live
    /\ UNCHANGED <<live, staging, aside, backups, locals>>

(* restore(): RemoveAll(siteDir), which RemoveSite does not need ... *)
Undo(r) ==
    /\ Step(r, "undo", "putback")
    /\ live' = [live EXCEPT ![job[r].site] = NoDir]
    /\ UNCHANGED <<staging, aside, backups, running, locals>>

(* ... then the rename of what was put aside, whose error is ignored. *)
Putback(r) ==
    LET s == job[r].site IN
    /\ Return(r, "putback", "err")
    /\ Drop(s)
    /\ live' = IF had THEN [live EXCEPT ![s] = aside[s][ts]] ELSE live
    /\ aside' = IF had THEN [aside EXCEPT ![s][ts] = NoDir] ELSE aside
    /\ UNCHANGED <<backups, running>>

PutbackFail(r) ==
    /\ PutbackFails /\ had
    /\ Return(r, "putback", "err")
    /\ Drop(job[r].site)
    /\ UNCHANGED <<live, aside, backups, running>>

(* pruneBackups: the Keep newest stay. *)
Pruned(b) == [t \in Time |->
                IF Cardinality({u \in Time : u > t /\ b[u] # NoDir}) < Keep
                THEN b[t] ELSE NoDir]

Finish(r) ==
    LET s == job[r].site IN
    /\ Return(r, "finish", "ok")
    /\ Drop(s)
    /\ aside' = IF had THEN [aside EXCEPT ![s][ts] = NoDir] ELSE aside
    /\ backups' = IF job[r].kind = "remove" THEN backups
                  ELSE [backups EXCEPT ![s] = Pruned(@)]
    /\ UNCHANGED <<live, running>>

-----------------------------------------------------------------------------
(* Service.Reload, under the mutex *)

CheckOk(r) ==
    /\ Step(r, "check", "signal")
    /\ Accepted(live)
    /\ UNCHANGED <<live, staging, aside, backups, running, locals>>

CheckFail(r) ==
    /\ Return(r, "check", "err")
    /\ UNCHANGED <<live, staging, aside, backups, running>>

SignalOk(r) ==
    /\ Return(r, "signal", "ok")
    /\ running' = live
    /\ UNCHANGED <<live, staging, aside, backups>>

SignalFail(r) ==
    /\ Return(r, "signal", "err")
    /\ \/ UNCHANGED running
       \/ LostReply /\ running' = live
    /\ UNCHANGED <<live, staging, aside, backups>>

-----------------------------------------------------------------------------
Tick ==
    /\ clock < MaxTime
    /\ clock' = clock + 1
    /\ UNCHANGED <<live, staging, aside, backups, running, mu, pc, job, new, locals, up>>

Crash ==
    /\ up' = FALSE
    /\ UNCHANGED <<live, staging, aside, backups, running, clock, mu, pc, job, new, locals>>

Read(r) == ReadSiteConf(r) \/ ReadLocations(r) \/ ReadFail(r)

Work(r) ==
    \/ Stage(r) \/ StageFail(r)
    \/ (\E f \in File : CopyFile(r, f)) \/ CopyDone(r) \/ CopyFail(r)
    \/ Aside(r) \/ AsideFail(r) \/ Swap(r) \/ SwapFail(r)
    \/ TestOk(r) \/ TestFail(r) \/ ReloadOk(r) \/ ReloadFail(r)
    \/ Undo(r) \/ Putback(r) \/ PutbackFail(r) \/ Finish(r)
    \/ CheckOk(r) \/ CheckFail(r) \/ SignalOk(r) \/ SignalFail(r)

Next ==
    /\ up
    /\ \/ Tick
       \/ Crash
       \/ \E r \in Req : \/ \E j \in Jobs : Start(r, j)
                         \/ Read(r)
                         \/ Lock(r)
                         \/ Work(r)

Spec == Init /\ [][Next]_vars

(* A goroutine inside a call keeps running, docker answers or the request's *)
(* context ends, and sync.Mutex hands itself to a starving waiter.          *)
Fairness ==
    \A r \in Req : /\ WF_vars(up /\ Read(r))
                   /\ WF_vars(up /\ Work(r))
                   /\ SF_vars(up /\ Lock(r))

FairSpec == Spec /\ Fairness

-----------------------------------------------------------------------------
(* Properties *)

(* Types.  A directory that nginx reads, or may read again, has a site.conf  *)
(* whatever was missing from the directory it was made from: only a backup   *)
(* may lack files.                                                           *)
TypeOK ==
    /\ live \in [Site -> Whole \cup {NoDir}]
    /\ staging \in [Site -> Whole \cup {NoDir}]
    /\ aside \in [Site -> [Time -> Whole \cup {NoDir}]]
    /\ backups \in [Site -> [Time -> Dir]]
    /\ running \in [Site -> Dir]
    /\ clock \in Time
    /\ mu \in Req \cup {NoReq}
    /\ pc \in [Req -> PC]
    /\ job \in [Req -> Job \cup {NoCall}]
    /\ new \in [Req -> Tree]
    /\ had \in BOOLEAN /\ ts \in Time /\ todo \in SUBSET File
    /\ up \in BOOLEAN

(* While nobody holds the mutex, what lies under sites/ passes nginx -t as a *)
(* whole: every failure path of an apply or of a removal has put back what   *)
(* it had moved, whatever the other callers were doing (service.go: "restor- *)
(* ing the entire previous directory on any failure").                       *)
ValidAtRest == up /\ mu = NoReq => Accepted(live)

(* Nor does nginx ever run anything that has not passed, and when nobody     *)
(* holds the mutex it runs what lies on disk.                                *)
RunningIsLive == up /\ mu = NoReq => running = live

(* A directory that has been put aside is covered, file by file, by the      *)
(* backup of the same second, also when the panel dies right there: a crash  *)
(* inside the swap loses nothing the admin could not restore.                *)
AsideIsBackedUp ==
    \A s \in Site, t \in Time :
        aside[s][t] # NoDir =>
            /\ backups[s][t] # NoDir
            /\ \A f \in Files(aside[s][t]) : backups[s][t][f] = aside[s][t][f]

(* "applyStagedSite swaps the whole site directory atomically": while an     *)
(* apply replaces a site's directory, the site has one.                      *)
SwapIsAtomic ==
    \A r \in Req :
        pc[r] \in Swapping /\ job[r].kind # "remove" /\ had =>
            live[job[r].site] # NoDir

(* What copyTree leaves under backups/<ts> is the tree it was given.         *)
BackupIsTheTree ==
    \A r \in Req : pc[r] = "aside" => backups[job[r].site][ts] = live[job[r].site]

(* "RestoreSiteBackup restores a saved config backup": no site ends up with  *)
(* the blank tree that stands for a backup which is not there, as long as    *)
(* no caller asks for that tree.                                             *)
NeverBlanked == \A s \in Site : mu = NoReq => live[s] # ReadTree(NoDir)

(* Every call returns, unless the panel dies. *)
CallsReturn == \A r \in Req : (pc[r] \notin Done) ~> (pc[r] \in Done \/ ~up)

-----------------------------------------------------------------------------
(* The pipeline implements the promise of SiteGate *)

(* The directory the holder would go back to. *)
Previous == IF had THEN aside[job[mu].site][ts] ELSE NoDir

(* Until the reload has succeeded a call has not happened. *)
Seen == IF up /\ mu # NoReq /\ pc[mu] \in Swapping
        THEN [live EXCEPT ![job[mu].site] = Previous]
        ELSE live

SeenCall(r) ==
    CASE pc[r] = "finish"         -> NoCall
      [] pc[r] # "finish" /\ job[r].kind # "restore" -> job[r]
      [] job[r].kind = "restore" /\ pc[r] \in Reading ->
            [kind |-> "fetch", site |-> job[r].site]
      [] OTHER -> [kind |-> "apply", site |-> job[r].site, tree |-> new[r]]

SeenStatus(r) == CASE pc[r] \in Done    -> pc[r]
                   [] pc[r] = "finish"  -> "ok"
                   [] OTHER             -> "busy"

SeenCalls    == [r \in Req |-> SeenCall(r)]
SeenStatuses == [r \in Req |-> SeenStatus(r)]

Gate == INSTANCE SiteGate
        WITH live <- Seen, call <- SeenCalls, status <- SeenStatuses

(* Every call on a site takes effect at once or not at all, a save edits the *)
(* tree that is live when it takes effect, and only a crash or a reload      *)
(* whose reply is lost shows anything in between.                            *)
Promise == Gate!Spec
=============================================================================
