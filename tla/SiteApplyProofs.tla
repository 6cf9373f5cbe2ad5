-------------------------- MODULE SiteApplyProofs --------------------------
(***************************************************************************)
(* Proofs about SiteApply for any number of sites, callers, files and      *)
(* contents, and for any notion of what nginx -t accepts: its types, what  *)
(* is left when a call ends or the panel dies, and that it implements the  *)
(* promise of SiteGate.                                                    *)
(***************************************************************************)
EXTENDS SiteApply, TLAPS

(* The mutex is what keeps the pipelines apart. *)
MutexInv ==
    /\ mu # NoReq => pc[mu] \in Locked
    /\ \A r \in Req : pc[r] \in Locked => mu = r

SiteKinds == {"apply", "save", "restore", "remove"}

(* Where a caller is tells what kind of call it is making. *)
JobInv ==
    \A r \in Req :
        /\ pc[r] \in Done => job[r] = NoCall
        /\ pc[r] \notin Done => job[r] \in Job
        /\ pc[r] \in Reading => job[r].kind = "restore"
        /\ pc[r] \in {"stage", "swap"} => job[r].kind \in SiteKinds \ {"remove"}
        /\ pc[r] \in Locked \ {"check", "signal"} => job[r].kind \in SiteKinds
        /\ pc[r] \in {"check", "signal"} => job[r].kind = "reload"

(* A fileset always has a site.conf by the time it is staged. *)
NewInv ==
    \A r \in Req :
        /\ pc[r] = "readLocs" => new[r][Main] # NoFile
        /\ pc[r] = "wait" /\ job[r].kind = "restore" => new[r] \in Whole
        /\ pc[r] = "stage" => new[r] \in Whole

(* copyTree goes from a directory into a directory. *)
CopyInv ==
    \A r \in Req : pc[r] \in {"backup", "aside"} =>
        /\ had
        /\ live[job[r].site] # NoDir
        /\ backups[job[r].site][ts] # NoDir

ControlInv == TypeOK /\ MutexInv /\ JobInv /\ NewInv /\ CopyInv

-----------------------------------------------------------------------------
(* The arguments of a call have the types its kind says. *)
LEMMA JobFields ==
    ASSUME NEW j \in Job
    PROVE  /\ j.kind \in SiteKinds => j.site \in Site
           /\ j.kind = "apply" => j.tree \in Whole
           /\ j.kind = "save" => j.file \in File /\ j.content \in Content
           /\ j.kind = "restore" => j.at \in Time
           /\ j.kind \in SiteKinds \cup {"reload"}
  BY DEF Job, ApplyJob, RemoveJob, SaveJob, RestoreJob, ReloadJob, SiteKinds

(* What a site's directory may be is a directory. *)
LEMMA WholeIsDir == Whole \subseteq Tree /\ Whole \cup {NoDir} \subseteq Dir
  BY DEF Whole, Dir

(* The clock can start. *)
LEMMA ZeroIsTime == 0 \in Time
  BY TreesAssumption DEF Time

(* The directory MkdirAll has just made is a tree without files. *)
LEMMA BlankIsTree == Blank \in Tree
  BY DEF Blank, Tree

(* Reading a file of a directory gives a content, for site.conf even if it is missing. *)
LEMMA ReadFileType ==
    ASSUME NEW d \in Dir, NEW f \in File
    PROVE  /\ ReadFile(d, f) \in Content \cup {NoFile}
           /\ f = Main => ReadFile(d, f) # NoFile
  BY TreesAssumption DEF ReadFile, Files, Dir, Tree

(* SaveSiteFile always has a site.conf to stage. *)
LEMMA EditedType ==
    ASSUME NEW d \in Dir, NEW f \in File, NEW c \in Content
    PROVE  Edited(d, f, c) \in Whole
  BY ReadFileType, TreesAssumption DEF Edited, ReadTree, Tree, Whole

(* pruneBackups leaves directories or nothing. *)
LEMMA PrunedType ==
    ASSUME NEW b \in [Time -> Dir]
    PROVE  Pruned(b) \in [Time -> Dir]
  BY DEF Pruned, Dir

(* The control invariant holds before the first call. *)
LEMMA InitControl == Init => ControlInv
  <1> SUFFICES ASSUME Init PROVE ControlInv
    OBVIOUS
  <1>1. live \in [Site -> Whole \cup {NoDir}]
    BY DEF Init, ApplyJob
  <1>2. TypeOK
    <2>1. /\ staging \in [Site -> Whole \cup {NoDir}]
          /\ aside \in [Site -> [Time -> Whole \cup {NoDir}]]
          /\ backups \in [Site -> [Time -> Dir]]
          /\ running \in [Site -> Dir]
      BY <1>1 DEF Init, Dir, Whole
    <2>2. /\ pc \in [Req -> PC]
          /\ job \in [Req -> Job \cup {NoCall}]
          /\ new \in [Req -> Tree]
      BY BlankIsTree DEF Init, PC, Done
    <2> QED BY <1>1, ZeroIsTime, <2>1, <2>2 DEF Init, TypeOK
  <1>3. MutexInv /\ JobInv /\ NewInv /\ CopyInv
    BY ApplyAssumption DEF Init, MutexInv, JobInv, NewInv, CopyInv, Locked, Done, Reading
  <1> QED BY <1>2, <1>3 DEF ControlInv

-----------------------------------------------------------------------------
(* Every step of the holder moves pc, mu and job in one of two ways. *)
LEMMA StepKeepsControl ==
    ASSUME ControlInv, NEW r \in Req, NEW from \in Locked, NEW to \in Locked \ {"stage"},
           Step(r, from, to),
           job[r].kind # "reload" => to \notin {"check", "signal"},
           job[r].kind = "reload" => to \in {"check", "signal"},
           to = "swap" => job[r].kind # "remove",
           to \in {"backup", "aside"} =>
              had' /\ live'[job[r].site] # NoDir /\ backups'[job[r].site][ts'] # NoDir
    PROVE  pc' \in [Req -> PC] /\ MutexInv' /\ JobInv' /\ NewInv' /\ CopyInv'
  <1> USE DEF ControlInv, TypeOK, Step, Goto
  <1>1. pc' \in [Req -> PC]
    BY DEF PC
  <1>2. MutexInv'
    BY DEF MutexInv
  <1>3. JobInv'
    BY JobFields DEF JobInv, Locked, Done, Reading, SiteKinds
  <1>4. NewInv'
    BY DEF NewInv, Locked
  <1>5. CopyInv'
    BY <1>2 DEF CopyInv, MutexInv, Locked
  <1> QED BY <1>1, <1>2, <1>3, <1>4, <1>5

(* A return of the holder frees the mutex and forgets its arguments and locals. *)
LEMMA ReturnKeepsControl ==
    ASSUME ControlInv, NEW r \in Req, NEW from \in Locked, NEW how \in Done,
           Return(r, from, how)
    PROVE  /\ pc' \in [Req -> PC]
           /\ job' \in [Req -> Job \cup {NoCall}]
           /\ new' \in [Req -> Tree]
           /\ mu' = NoReq
           /\ had' \in BOOLEAN /\ ts' \in Time /\ todo' \in SUBSET File
           /\ MutexInv' /\ JobInv' /\ NewInv' /\ CopyInv'
  <1> USE DEF ControlInv, TypeOK, Return, Reply, Goto
  <1>1. /\ pc' \in [Req -> PC]
        /\ job' \in [Req -> Job \cup {NoCall}]
        /\ new' \in [Req -> Tree]
    BY BlankIsTree DEF PC
  <1>2. had' \in BOOLEAN /\ ts' \in Time /\ todo' \in SUBSET File
    BY ZeroIsTime
  <1>3. MutexInv'
    BY ApplyAssumption DEF MutexInv, Locked, Done
  <1>4. JobInv'
    BY DEF JobInv, Locked, Done, Reading
  <1>5. NewInv'
    BY DEF NewInv, Locked, Done
  <1>6. CopyInv'
    BY <1>3, ApplyAssumption DEF CopyInv, MutexInv, Locked
  <1> QED BY <1>1, <1>2, <1>3, <1>4, <1>5, <1>6

(* What is on disk keeps its type whatever the step. *)
DiskType ==
    /\ live \in [Site -> Whole \cup {NoDir}]
    /\ staging \in [Site -> Whole \cup {NoDir}]
    /\ aside \in [Site -> [Time -> Whole \cup {NoDir}]]
    /\ backups \in [Site -> [Time -> Dir]]
    /\ running \in [Site -> Dir]

(* The holder of the mutex works on one site, unless it only reloads. *)
LEMMA HolderSite ==
    ASSUME ControlInv, NEW r \in Req, pc[r] \in Locked \ {"check", "signal"}
    PROVE  job[r] \in Job /\ job[r].kind \in SiteKinds /\ job[r].site \in Site
  BY JobFields DEF ControlInv, JobInv, Locked, Done

(* Opening a backup directory keeps the types. *)
LEMMA OpenBackupType ==
    ASSUME TypeOK, NEW s \in Site, OpenBackup(s)
    PROVE  /\ backups' \in [Site -> [Time -> Dir]]
           /\ had' \in BOOLEAN /\ ts' \in Time /\ todo' \in SUBSET File
  <1>1. \A d \in Dir : MkDir(d) \in Dir
    BY BlankIsTree DEF MkDir, Dir
  <1>2. backups' \in [Site -> [Time -> Dir]]
    BY <1>1 DEF OpenBackup, TypeOK
  <1>3. had' \in BOOLEAN /\ ts' \in Time /\ todo' \in SUBSET File
    BY DEF OpenBackup, TypeOK, Files
  <1> QED BY <1>2, <1>3

(* A site that has a directory gets a backup directory. *)
LEMMA OpenBackupOpens ==
    ASSUME TypeOK, NEW s \in Site, OpenBackup(s), live[s] # NoDir
    PROVE  had' /\ backups'[s][ts'] # NoDir
  <1>1. \A d \in Dir : MkDir(d) # NoDir
    BY BlankIsTree, TreesAssumption DEF MkDir
  <1>2. clock \in Time /\ backups[s][clock] \in Dir
    BY DEF TypeOK
  <1>3. backups'[s][clock] = MkDir(backups[s][clock])
    BY <1>2 DEF OpenBackup, TypeOK
  <1> QED BY <1>1, <1>2, <1>3 DEF OpenBackup

(* Every step under the mutex keeps the control invariant. *)
LEMMA WorkKeepsControl ==
    ASSUME ControlInv, NEW r \in Req, Work(r)
    PROVE  ControlInv'
  <1> DEFINE s == job[r].site
  <1>0. TypeOK /\ DiskType
    BY DEF ControlInv, TypeOK, DiskType
  <1>1. ASSUME Stage(r) PROVE ControlInv'
    <2>0. pc[r] = "stage" /\ "stage" \in Locked
      BY <1>1 DEF Stage, Step, Locked
    <2>1. s \in Site /\ job[r].kind \in SiteKinds
      BY <2>0, HolderSite
    <2> DEFINE to == IF live[s] = NoDir THEN "swap" ELSE "backup"
    <2>a. to \in Locked /\ Step(r, "stage", to) /\ OpenBackup(s)
      BY <1>1 DEF Stage, Locked
    <2>b. live' = live /\ job[r].kind \notin {"reload", "remove"}
      BY <1>1, <2>0 DEF Stage, ControlInv, JobInv, SiteKinds
    <2>c. to = "backup" => had' /\ live'[s] # NoDir /\ backups'[s][ts'] # NoDir
      BY <1>0, <2>1, <2>a, <2>b, OpenBackupOpens
    <2> HIDE DEF to
    <2>d. to \in {"swap", "backup"}
      BY DEF to
    <2>2. pc' \in [Req -> PC] /\ MutexInv' /\ JobInv' /\ NewInv' /\ CopyInv'
      BY <2>0, <2>a, <2>b, <2>c, <2>d, StepKeepsControl
    <2>3. DiskType' /\ had' \in BOOLEAN /\ ts' \in Time /\ todo' \in SUBSET File
      <3>1. new[r] \in Whole
        BY <2>0 DEF ControlInv, NewInv
      <3> QED BY <1>0, <1>1, <2>1, <3>1, OpenBackupType DEF Stage, DiskType, TypeOK
    <2> QED BY <1>1, <2>2, <2>3 DEF Stage, Step, ControlInv, TypeOK, DiskType
  <1>2. ASSUME StageFail(r) PROVE ControlInv'
    <2>0. pc[r] = "stage" /\ "stage" \in Locked
      BY <1>2 DEF StageFail, Return, Locked
    <2>1. s \in Site /\ job[r].kind \in SiteKinds
      BY <2>0, HolderSite
    <2>2. Return(r, "stage", "err") /\ "err" \in Done
      BY <1>2 DEF StageFail, Done
    <2>3. DiskType'
      BY <1>0, <1>2, <2>1 DEF StageFail, Drop, DiskType, Dir
    <2> QED BY <2>0, <2>2, <2>3, ReturnKeepsControl DEF Return, ControlInv, TypeOK, DiskType
  <1>3. ASSUME NEW f \in File, CopyFile(r, f) PROVE ControlInv'
    <2>0. pc[r] = "backup" /\ "backup" \in Locked
      BY <1>3 DEF CopyFile, Step, Locked
    <2>1. s \in Site /\ job[r].kind \in SiteKinds
      BY <2>0, HolderSite
    <2>a. had /\ live[s] \in Tree /\ backups[s][ts] \in Tree
      BY <1>0, <2>0, <2>1, WholeIsDir DEF ControlInv, CopyInv, TypeOK, Dir
    <2>b. live[s][f] \in Content \cup {NoFile}
      BY <2>a DEF Tree
    <2>c. [backups[s][ts] EXCEPT ![f] = live[s][f]] \in Tree
      BY <2>a, <2>b DEF Tree
    <2>d. backups' = [backups EXCEPT ![s] = [backups[s] EXCEPT ![ts] =
                        [backups[s][ts] EXCEPT ![f] = live[s][f]]]]
      BY <1>3 DEF CopyFile
    <2>e. backups' \in [Site -> [Time -> Dir]] /\ backups'[s][ts] \in Tree
      BY <1>0, <2>1, <2>c, <2>d DEF TypeOK, Dir
    <2>f. Step(r, "backup", "backup") /\ live' = live /\ had' = had /\ ts' = ts
      BY <1>3 DEF CopyFile
    <2>2. pc' \in [Req -> PC] /\ MutexInv' /\ JobInv' /\ NewInv' /\ CopyInv'
      BY <2>0, <2>1, <2>a, <2>e, <2>f, TreesAssumption, StepKeepsControl DEF SiteKinds
    <2>3. DiskType' /\ had' \in BOOLEAN /\ ts' \in Time /\ todo' \in SUBSET File
      BY <1>0, <1>3, <2>e DEF CopyFile, DiskType, TypeOK
    <2> QED BY <1>3, <2>2, <2>3 DEF CopyFile, Step, ControlInv, TypeOK, DiskType
  <1>4. ASSUME CopyDone(r) PROVE ControlInv'
    <2>0. pc[r] = "backup" /\ "backup" \in Locked
      BY <1>4 DEF CopyDone, Step, Locked
    <2>1. s \in Site /\ job[r].kind \in SiteKinds
      BY <2>0, HolderSite
    <2>2. pc' \in [Req -> PC] /\ MutexInv' /\ JobInv' /\ NewInv' /\ CopyInv'
      BY <1>4, <1>0, <2>0, <2>1, StepKeepsControl DEF CopyDone, CopyInv, locals, Locked, SiteKinds, ControlInv, JobInv
    <2>3. DiskType' /\ had' \in BOOLEAN /\ ts' \in Time /\ todo' \in SUBSET File
      BY <1>0, <1>4, <2>1 DEF CopyDone, DiskType, TypeOK, locals
    <2> QED BY <1>4, <2>2, <2>3 DEF CopyDone, Step, ControlInv, TypeOK, DiskType
  <1>5. ASSUME CopyFail(r) PROVE ControlInv'
    <2>0. pc[r] = "backup" /\ "backup" \in Locked
      BY <1>5 DEF CopyFail, Return, Locked
    <2>1. s \in Site /\ job[r].kind \in SiteKinds
      BY <2>0, HolderSite
    <2>2. Return(r, "backup", "err") /\ "err" \in Done
      BY <1>5 DEF CopyFail, Done
    <2>3. DiskType'
      BY <1>0, <1>5, <2>1 DEF CopyFail, Drop, DiskType, Dir
    <2> QED BY <2>0, <2>2, <2>3, ReturnKeepsControl DEF Return, ControlInv, TypeOK, DiskType
  <1>6. ASSUME Aside(r) PROVE ControlInv'
    <2>0. pc[r] = "aside" /\ "aside" \in Locked
      BY <1>6 DEF Aside, Step, Locked
    <2>1. s \in Site /\ job[r].kind \in SiteKinds
      BY <2>0, HolderSite
    <2>2. pc' \in [Req -> PC] /\ MutexInv' /\ JobInv' /\ NewInv' /\ CopyInv'
      BY <1>6, <1>0, <2>0, <2>1, StepKeepsControl DEF Aside, Locked, SiteKinds, ControlInv, JobInv
    <2>3. DiskType' /\ had' \in BOOLEAN /\ ts' \in Time /\ todo' \in SUBSET File
      BY <1>0, <1>6, <2>1 DEF Aside, DiskType, TypeOK, locals, Dir
    <2> QED BY <1>6, <2>2, <2>3 DEF Aside, Step, ControlInv, TypeOK, DiskType
  <1>7. ASSUME AsideFail(r) PROVE ControlInv'
    <2>0. pc[r] = "aside" /\ "aside" \in Locked
      BY <1>7 DEF AsideFail, Return, Locked
    <2>1. s \in Site /\ job[r].kind \in SiteKinds
      BY <2>0, HolderSite
    <2>2. Return(r, "aside", "err") /\ "err" \in Done
      BY <1>7 DEF AsideFail, Done
    <2>3. DiskType'
      BY <1>0, <1>7, <2>1 DEF AsideFail, Drop, DiskType, Dir
    <2> QED BY <2>0, <2>2, <2>3, ReturnKeepsControl DEF Return, ControlInv, TypeOK, DiskType
  <1>8. ASSUME Swap(r) PROVE ControlInv'
    <2>0. pc[r] = "swap" /\ "swap" \in Locked
      BY <1>8 DEF Swap, Step, Locked
    <2>1. s \in Site /\ job[r].kind \in SiteKinds
      BY <2>0, HolderSite
    <2>2. pc' \in [Req -> PC] /\ MutexInv' /\ JobInv' /\ NewInv' /\ CopyInv'
      BY <1>8, <1>0, <2>0, <2>1, StepKeepsControl DEF Swap, Locked, SiteKinds, ControlInv, JobInv
    <2>3. DiskType' /\ had' \in BOOLEAN /\ ts' \in Time /\ todo' \in SUBSET File
      BY <1>0, <1>8, <2>1 DEF Swap, Drop, DiskType, TypeOK, locals, Dir
    <2> QED BY <1>8, <2>2, <2>3 DEF Swap, Step, ControlInv, TypeOK, DiskType
  <1>9. ASSUME SwapFail(r) PROVE ControlInv'
    <2>0. pc[r] = "swap" /\ "swap" \in Locked
      BY <1>9 DEF SwapFail, Step, Locked
    <2>1. s \in Site /\ job[r].kind \in SiteKinds
      BY <2>0, HolderSite
    <2>2. pc' \in [Req -> PC] /\ MutexInv' /\ JobInv' /\ NewInv' /\ CopyInv'
      BY <1>9, <1>0, <2>0, <2>1, StepKeepsControl DEF SwapFail, Locked, SiteKinds, ControlInv, JobInv
    <2>3. DiskType' /\ had' \in BOOLEAN /\ ts' \in Time /\ todo' \in SUBSET File
      BY <1>0, <1>9, <2>1 DEF SwapFail, DiskType, TypeOK, locals
    <2> QED BY <1>9, <2>2, <2>3 DEF SwapFail, Step, ControlInv, TypeOK, DiskType
  <1>10. ASSUME TestOk(r) PROVE ControlInv'
    <2>0. pc[r] = "test" /\ "test" \in Locked
      BY <1>10 DEF TestOk, Step, Locked
    <2>1. s \in Site /\ job[r].kind \in SiteKinds
      BY <2>0, HolderSite
    <2>2. pc' \in [Req -> PC] /\ MutexInv' /\ JobInv' /\ NewInv' /\ CopyInv'
      BY <1>10, <1>0, <2>0, <2>1, StepKeepsControl DEF TestOk, Locked, SiteKinds, ControlInv, JobInv
    <2>3. DiskType' /\ had' \in BOOLEAN /\ ts' \in Time /\ todo' \in SUBSET File
      BY <1>0, <1>10, <2>1 DEF TestOk, DiskType, TypeOK, locals
    <2> QED BY <1>10, <2>2, <2>3 DEF TestOk, Step, ControlInv, TypeOK, DiskType
  <1>11. ASSUME TestFail(r) PROVE ControlInv'
    <2>0. pc[r] = "test" /\ "test" \in Locked
      BY <1>11 DEF TestFail, Step, Locked
    <2>1. s \in Site /\ job[r].kind \in SiteKinds
      BY <2>0, HolderSite
    <2>2. pc' \in [Req -> PC] /\ MutexInv' /\ JobInv' /\ NewInv' /\ CopyInv'
      BY <1>11, <1>0, <2>0, <2>1, StepKeepsControl DEF TestFail, Locked, SiteKinds, ControlInv, JobInv
    <2>3. DiskType' /\ had' \in BOOLEAN /\ ts' \in Time /\ todo' \in SUBSET File
      BY <1>0, <1>11, <2>1 DEF TestFail, DiskType, TypeOK, locals
    <2> QED BY <1>11, <2>2, <2>3 DEF TestFail, Step, ControlInv, TypeOK, DiskType
  <1>12. ASSUME ReloadOk(r) PROVE ControlInv'
    <2>0. pc[r] = "reload" /\ "reload" \in Locked
      BY <1>12 DEF ReloadOk, Step, Locked
    <2>1. s \in Site /\ job[r].kind \in SiteKinds
      BY <2>0, HolderSite
    <2>2. pc' \in [Req -> PC] /\ MutexInv' /\ JobInv' /\ NewInv' /\ CopyInv'
      BY <1>12, <1>0, <2>0, <2>1, StepKeepsControl DEF ReloadOk, Locked, SiteKinds, ControlInv, JobInv
    <2>3. DiskType' /\ had' \in BOOLEAN /\ ts' \in Time /\ todo' \in SUBSET File
      BY <1>0, <1>12, <2>1, WholeIsDir DEF ReloadOk, DiskType, TypeOK, locals
    <2> QED BY <1>12, <2>2, <2>3 DEF ReloadOk, Step, ControlInv, TypeOK, DiskType
  <1>13. ASSUME ReloadFail(r) PROVE ControlInv'
    <2>0. pc[r] = "reload" /\ "reload" \in Locked
      BY <1>13 DEF ReloadFail, Step, Locked
    <2>1. s \in Site /\ job[r].kind \in SiteKinds
      BY <2>0, HolderSite
    <2>2. pc' \in [Req -> PC] /\ MutexInv' /\ JobInv' /\ NewInv' /\ CopyInv'
      BY <1>13, <1>0, <2>0, <2>1, StepKeepsControl DEF ReloadFail, Locked, SiteKinds, ControlInv, JobInv
    <2>3. DiskType' /\ had' \in BOOLEAN /\ ts' \in Time /\ todo' \in SUBSET File
      BY <1>0, <1>13, <2>1, WholeIsDir DEF ReloadFail, DiskType, TypeOK, locals
    <2> QED BY <1>13, <2>2, <2>3 DEF ReloadFail, Step, ControlInv, TypeOK, DiskType
  <1>14. ASSUME Undo(r) PROVE ControlInv'
    <2>0. pc[r] = "undo" /\ "undo" \in Locked
      BY <1>14 DEF Undo, Step, Locked
    <2>1. s \in Site /\ job[r].kind \in SiteKinds
      BY <2>0, HolderSite
    <2>2. pc' \in [Req -> PC] /\ MutexInv' /\ JobInv' /\ NewInv' /\ CopyInv'
      BY <1>14, <1>0, <2>0, <2>1, StepKeepsControl DEF Undo, Locked, SiteKinds, ControlInv, JobInv
    <2>3. DiskType' /\ had' \in BOOLEAN /\ ts' \in Time /\ todo' \in SUBSET File
      BY <1>0, <1>14, <2>1 DEF Undo, DiskType, TypeOK, locals, Dir
    <2> QED BY <1>14, <2>2, <2>3 DEF Undo, Step, ControlInv, TypeOK, DiskType
  <1>15. ASSUME Putback(r) PROVE ControlInv'
    <2>0. pc[r] = "putback" /\ "putback" \in Locked
      BY <1>15 DEF Putback, Return, Locked
    <2>1. s \in Site /\ job[r].kind \in SiteKinds
      BY <2>0, HolderSite
    <2>2. Return(r, "putback", "err") /\ "err" \in Done
      BY <1>15 DEF Putback, Done
    <2>3. DiskType'
      BY <1>0, <1>15, <2>1 DEF Putback, Drop, DiskType, TypeOK, Dir
    <2> QED BY <2>0, <2>2, <2>3, ReturnKeepsControl DEF Return, ControlInv, TypeOK, DiskType
  <1>16. ASSUME PutbackFail(r) PROVE ControlInv'
    <2>0. pc[r] = "putback" /\ "putback" \in Locked
      BY <1>16 DEF PutbackFail, Return, Locked
    <2>1. s \in Site /\ job[r].kind \in SiteKinds
      BY <2>0, HolderSite
    <2>2. Return(r, "putback", "err") /\ "err" \in Done
      BY <1>16 DEF PutbackFail, Done
    <2>3. DiskType'
      BY <1>0, <1>16, <2>1 DEF PutbackFail, Drop, DiskType, Dir
    <2> QED BY <2>0, <2>2, <2>3, ReturnKeepsControl DEF Return, ControlInv, TypeOK, DiskType
  <1>17. ASSUME Finish(r) PROVE ControlInv'
    <2>0. pc[r] = "finish" /\ "finish" \in Locked
      BY <1>17 DEF Finish, Return, Locked
    <2>1. s \in Site /\ job[r].kind \in SiteKinds
      BY <2>0, HolderSite
    <2>2. Return(r, "finish", "ok") /\ "ok" \in Done
      BY <1>17 DEF Finish, Done
    <2>3. DiskType'
      BY <1>0, <1>17, <2>1, PrunedType DEF Finish, Drop, DiskType, TypeOK, Dir
    <2> QED BY <2>0, <2>2, <2>3, ReturnKeepsControl DEF Return, ControlInv, TypeOK, DiskType
  <1>18. ASSUME CheckOk(r) PROVE ControlInv'
    <2>0. pc[r] = "check" /\ "check" \in Locked
      BY <1>18 DEF CheckOk, Step, Locked
    <2>2. pc' \in [Req -> PC] /\ MutexInv' /\ JobInv' /\ NewInv' /\ CopyInv'
      BY <1>18, <1>0, <2>0, StepKeepsControl DEF CheckOk, Locked, SiteKinds, ControlInv, JobInv
    <2>3. DiskType' /\ had' \in BOOLEAN /\ ts' \in Time /\ todo' \in SUBSET File
      BY <1>0, <1>18, <2>0 DEF CheckOk, DiskType, TypeOK, locals
    <2> QED BY <1>18, <2>2, <2>3 DEF CheckOk, Step, ControlInv, TypeOK, DiskType
  <1>19. ASSUME CheckFail(r) PROVE ControlInv'
    <2>0. pc[r] = "check" /\ "check" \in Locked
      BY <1>19 DEF CheckFail, Return, Locked
    <2>2. Return(r, "check", "err") /\ "err" \in Done
      BY <1>19 DEF CheckFail, Done
    <2>3. DiskType'
      BY <1>0, <1>19, <2>0 DEF CheckFail, DiskType
    <2> QED BY <2>0, <2>2, <2>3, ReturnKeepsControl DEF Return, ControlInv, TypeOK, DiskType
  <1>20. ASSUME SignalOk(r) PROVE ControlInv'
    <2>0. pc[r] = "signal" /\ "signal" \in Locked
      BY <1>20 DEF SignalOk, Return, Locked
    <2>2. Return(r, "signal", "ok") /\ "ok" \in Done
      BY <1>20 DEF SignalOk, Done
    <2>3. DiskType'
      BY <1>0, <1>20, <2>0, WholeIsDir DEF SignalOk, DiskType
    <2> QED BY <2>0, <2>2, <2>3, ReturnKeepsControl DEF Return, ControlInv, TypeOK, DiskType
  <1>21. ASSUME SignalFail(r) PROVE ControlInv'
    <2>0. pc[r] = "signal" /\ "signal" \in Locked
      BY <1>21 DEF SignalFail, Return, Locked
    <2>2. Return(r, "signal", "err") /\ "err" \in Done
      BY <1>21 DEF SignalFail, Done
    <2>3. DiskType'
      BY <1>0, <1>21, <2>0, WholeIsDir DEF SignalFail, DiskType
    <2> QED BY <2>0, <2>2, <2>3, ReturnKeepsControl DEF Return, ControlInv, TypeOK, DiskType
  <1> QED BY <1>1, <1>2, <1>3, <1>4, <1>5, <1>6, <1>7, <1>8, <1>9, <1>10, <1>11, <1>12, <1>13, <1>14, <1>15, <1>16, <1>17, <1>18, <1>19, <1>20, <1>21 DEF Work

(* The start of a call keeps the control invariant. *)
LEMMA StartKeepsControl ==
    ASSUME ControlInv, NEW r \in Req, NEW j \in Jobs, Start(r, j)
    PROVE  ControlInv'
  <1> USE DEF ControlInv, TypeOK, Start, Goto, Done, Reading, Locked, locals
  <1>0. j \in Job
    BY TreesAssumption
  <1>1. TypeOK'
    BY <1>0 DEF PC
  <1>2. MutexInv'
    BY DEF MutexInv
  <1>3. JobInv'
    BY <1>0, JobFields DEF JobInv
  <1>4. NewInv' /\ CopyInv'
    BY DEF NewInv, CopyInv
  <1> QED BY <1>1, <1>2, <1>3, <1>4

(* What RestoreBackup reads from is a directory, or is missing. *)
LEMMA SourceType ==
    ASSUME ControlInv, NEW r \in Req, pc[r] \in Reading
    PROVE  Source(r) \in Dir
  BY JobFields DEF ControlInv, TypeOK, JobInv, Source, Reading, Done, SiteKinds

(* Reading a backup keeps the control invariant: it always ends with a site.conf. *)
LEMMA ReadKeepsControl ==
    ASSUME ControlInv, NEW r \in Req, Read(r)
    PROVE  ControlInv'
  <1> USE DEF ControlInv
  <1>1. ASSUME ReadSiteConf(r) PROVE ControlInv'
    <2>1. ReadFile(Source(r), Main) \in Content \cup {NoFile}
      BY <1>1, SourceType, ReadFileType, TreesAssumption DEF ReadSiteConf, Reading
    <2>2. [Blank EXCEPT ![Main] = ReadFile(Source(r), Main)] \in Tree
      BY <2>1, BlankIsTree DEF Tree
    <2>3. TypeOK'
      BY <1>1, <2>2 DEF ReadSiteConf, Goto, TypeOK, PC, Reading, locals
    <2>4. ReadFile(Source(r), Main) # NoFile
      BY <1>1, SourceType, ReadFileType, TreesAssumption DEF ReadSiteConf, Reading
    <2>5. new'[r][Main] # NoFile
      BY <1>1, <2>4, TreesAssumption DEF ReadSiteConf, TypeOK, Blank
    <2>6. MutexInv' /\ JobInv' /\ CopyInv'
      BY <1>1 DEF ReadSiteConf, Goto, TypeOK, MutexInv, JobInv, CopyInv, Reading, Done, Locked, locals
    <2>7. NewInv'
      BY <1>1, <2>5 DEF ReadSiteConf, Goto, TypeOK, NewInv
    <2> QED BY <2>3, <2>6, <2>7
  <1>2. ASSUME ReadLocations(r) PROVE ControlInv'
    <2>1. \A f \in File : ReadFile(Source(r), f) \in Content \cup {NoFile}
      BY <1>2, SourceType, ReadFileType DEF ReadLocations, Reading
    <2>2. [f \in File |-> IF f = Main THEN new[r][Main] ELSE ReadFile(Source(r), f)] \in Tree
      BY <2>1 DEF Tree, TypeOK
    <2>3. TypeOK'
      BY <1>2, <2>2 DEF ReadLocations, Goto, TypeOK, PC, locals
    <2>4. new'[r] \in Whole
      BY <1>2, <2>2, TreesAssumption DEF ReadLocations, TypeOK, NewInv, Whole
    <2>5. MutexInv' /\ JobInv' /\ CopyInv'
      BY <1>2 DEF ReadLocations, Goto, TypeOK, MutexInv, JobInv, CopyInv, Reading, Done, Locked, locals
    <2>6. NewInv'
      BY <1>2, <2>4 DEF ReadLocations, Goto, TypeOK, NewInv
    <2> QED BY <2>3, <2>5, <2>6
  <1>3. ASSUME ReadFail(r) PROVE ControlInv'
    <2>1. TypeOK'
      BY <1>3, BlankIsTree DEF ReadFail, Reply, Goto, TypeOK, PC, Done, locals
    <2>2. MutexInv' /\ JobInv' /\ NewInv' /\ CopyInv'
      BY <1>3 DEF ReadFail, Reply, Goto, TypeOK, MutexInv, JobInv, NewInv, CopyInv, Reading, Done, Locked, locals
    <2> QED BY <2>1, <2>2
  <1> QED BY <1>1, <1>2, <1>3 DEF Read

(* Taking the mutex keeps the control invariant. *)
LEMMA LockKeepsControl ==
    ASSUME ControlInv, NEW r \in Req, Lock(r)
    PROVE  ControlInv'
  <1> USE DEF ControlInv, Acquire
  <1>0. pc[r] = "wait" /\ mu = NoReq /\ job[r] \in Job
    BY DEF Lock, LockApply, LockSave, LockSaveMissing, LockRemove, LockRemoveMissing,
           LockReload, JobInv, Done
  <1>1. ASSUME LockApply(r) PROVE ControlInv'
    <2>1. new'[r] \in Whole /\ new'[r] \in Tree
      BY <1>0, <1>1, JobFields, WholeIsDir DEF LockApply, TypeOK, NewInv
    <2>2. new' \in [Req -> Tree]
      BY <1>1, <2>1 DEF LockApply, TypeOK
    <2>3. TypeOK'
      BY <1>1, <2>2 DEF LockApply, Goto, TypeOK, PC, Locked, locals
    <2>4. MutexInv' /\ JobInv' /\ CopyInv'
      BY <1>0, <1>1, ApplyAssumption
      DEF LockApply, Goto, TypeOK, MutexInv, JobInv, CopyInv, Reading, Done, Locked, SiteKinds, locals
    <2>5. NewInv'
      BY <1>1, <2>1 DEF LockApply, Goto, TypeOK, NewInv
    <2> QED BY <2>3, <2>4, <2>5
  <1>2. ASSUME LockSave(r) PROVE ControlInv'
    <2>1. job[r].site \in Site /\ job[r].file \in File /\ job[r].content \in Content
      BY <1>0, <1>2, JobFields DEF LockSave, SiteKinds
    <2>a. live[job[r].site] \in Dir
      BY <2>1, WholeIsDir DEF TypeOK
    <2>b. Edited(live[job[r].site], job[r].file, job[r].content) \in Whole
      BY <2>1, <2>a, EditedType
    <2>2. Edited(live[job[r].site], job[r].file, job[r].content) \in Tree
      BY <2>b, WholeIsDir
    <2>3. TypeOK'
      BY <1>2, <2>2 DEF LockSave, Goto, TypeOK, PC, Locked, locals
    <2>4. MutexInv' /\ JobInv' /\ CopyInv'
      BY <1>0, <1>2, ApplyAssumption
      DEF LockSave, Goto, TypeOK, MutexInv, JobInv, CopyInv, Reading, Done, Locked, SiteKinds, locals
    <2>5. NewInv'
      BY <1>2, <2>b DEF LockSave, Goto, TypeOK, NewInv
    <2> QED BY <2>3, <2>4, <2>5
  <1>3. ASSUME LockSaveMissing(r) PROVE ControlInv'
    <2>1. TypeOK'
      BY <1>3, BlankIsTree DEF LockSaveMissing, Reply, Goto, TypeOK, PC, Done, locals
    <2>2. MutexInv' /\ JobInv' /\ NewInv' /\ CopyInv'
      BY <1>0, <1>3 DEF LockSaveMissing, Reply, Goto, TypeOK, MutexInv, JobInv, NewInv, CopyInv,
                        Reading, Done, Locked, locals
    <2> QED BY <2>1, <2>2
  <1>4. ASSUME LockRemove(r) PROVE ControlInv'
    <2>1. job[r].site \in Site /\ live[job[r].site] # NoDir /\ OpenBackup(job[r].site)
      BY <1>0, <1>4, JobFields DEF LockRemove, SiteKinds
    <2>2. /\ backups' \in [Site -> [Time -> Dir]]
          /\ had' \in BOOLEAN /\ ts' \in Time /\ todo' \in SUBSET File
          /\ had' /\ backups'[job[r].site][ts'] # NoDir
      BY <2>1, OpenBackupType, OpenBackupOpens
    <2>3. TypeOK'
      <3>1. /\ mu' \in Req \cup {NoReq}
            /\ pc' \in [Req -> PC]
        BY <1>4 DEF LockRemove, Goto, TypeOK, PC, Locked
      <3>2. /\ UNCHANGED <<live, staging, aside, running, clock, up>>
            /\ UNCHANGED <<job, new>>
        BY <1>4 DEF LockRemove
      <3> QED BY <2>2, <3>1, <3>2 DEF TypeOK
    <2>4. MutexInv' /\ JobInv' /\ NewInv'
      BY <1>0, <1>4, ApplyAssumption
      DEF LockRemove, Goto, TypeOK, MutexInv, JobInv, NewInv, Reading, Done, Locked, SiteKinds
    <2>5. CopyInv'
      <3>1. \A q \in Req : pc'[q] \in {"backup", "aside"} => q = r
        BY <1>4, <2>4 DEF LockRemove, MutexInv, Locked
      <3>2. live' = live /\ job' = job
        BY <1>4 DEF LockRemove
      <3> QED BY <2>1, <2>2, <3>1, <3>2 DEF CopyInv
    <2> QED BY <2>3, <2>4, <2>5
  <1>5. ASSUME LockRemoveMissing(r) PROVE ControlInv'
    <2>1. TypeOK'
      BY <1>5, BlankIsTree DEF LockRemoveMissing, Reply, Goto, TypeOK, PC, Done, locals
    <2>2. MutexInv' /\ JobInv' /\ NewInv' /\ CopyInv'
      BY <1>0, <1>5 DEF LockRemoveMissing, Reply, Goto, TypeOK, MutexInv, JobInv, NewInv, CopyInv,
                        Reading, Done, Locked, locals
    <2> QED BY <2>1, <2>2
  <1>6. ASSUME LockReload(r) PROVE ControlInv'
    <2>1. TypeOK'
      BY <1>6 DEF LockReload, Goto, TypeOK, PC, Locked, locals
    <2>2. MutexInv' /\ JobInv' /\ NewInv' /\ CopyInv'
      BY <1>0, <1>6, ApplyAssumption
      DEF LockReload, Goto, TypeOK, MutexInv, JobInv, NewInv, CopyInv, Reading, Done, Locked, SiteKinds, locals
    <2> QED BY <2>1, <2>2
  <1> QED BY <1>1, <1>2, <1>3, <1>4, <1>5, <1>6 DEF Lock

(* The control invariant is inductive. *)
LEMMA NextKeepsControl == ControlInv /\ [Next]_vars => ControlInv'
  <1> SUFFICES ASSUME ControlInv, [Next]_vars PROVE ControlInv'
    OBVIOUS
  <1>1. CASE Tick
    <2>1. clock' \in Time
      BY <1>1, TreesAssumption DEF Tick, ControlInv, TypeOK, Time
    <2> QED BY <1>1, <2>1
            DEF Tick, ControlInv, TypeOK, MutexInv, JobInv, NewInv, CopyInv, locals
  <1>2. CASE Crash
    BY <1>2 DEF Crash, ControlInv, TypeOK, MutexInv, JobInv, NewInv, CopyInv, locals
  <1>3. CASE \E r \in Req, j \in Jobs : Start(r, j)
    BY <1>3, StartKeepsControl
  <1>4. CASE \E r \in Req : Read(r)
    BY <1>4, ReadKeepsControl
  <1>5. CASE \E r \in Req : Lock(r)
    BY <1>5, LockKeepsControl
  <1>6. CASE \E r \in Req : Work(r)
    BY <1>6, WorkKeepsControl
  <1>7. CASE UNCHANGED vars
    BY <1>7 DEF vars, ControlInv, TypeOK, MutexInv, JobInv, NewInv, CopyInv
  <1> QED BY <1>1, <1>2, <1>3, <1>4, <1>5, <1>6, <1>7 DEF Next

(* Every variable stays in its type: in particular no apply, save or restore *)
(* ever leaves a live directory without a site.conf.                         *)
THEOREM TypeCorrect == Spec => []TypeOK
  <1>1. ControlInv => TypeOK
    BY DEF ControlInv
  <1> QED BY InitControl, NextKeepsControl, <1>1, PTL DEF Spec

(* The mutex and the program counters agree, nginx.Service never has two     *)
(* pipelines inside the lock, and a backup is only copied from and into a    *)
(* directory.                                                                *)
THEOREM ControlCorrect == Spec => []ControlInv
  BY InitControl, NextKeepsControl, PTL DEF Spec

-----------------------------------------------------------------------------
(* The way back.  While the directories of a site are being exchanged the   *)
(* old one can be put back exactly where it was.                            *)

RollbackOf(r) == LET s == job[r].site IN
    /\ pc[r] \in Swapping \cup {"finish"} /\ had => aside[s][ts] # NoDir
    /\ pc[r] \in Swapping /\ job[r].kind = "remove" => had
    /\ pc[r] \in {"swap", "putback"} => live[s] = NoDir
    /\ pc[r] \in {"backup", "aside", "swap"} /\ job[r].kind # "remove" =>
          staging[s] = new[r]
    /\ pc[r] \in {"test", "reload", "undo", "finish"} =>
          live[s] = IF job[r].kind = "remove" THEN NoDir ELSE new[r]

RollbackInv == \A r \in Req : RollbackOf(r)

(* What is live once the holder has gone back. *)
Settled == IF mu # NoReq /\ pc[mu] \in Swapping
           THEN [live EXCEPT ![job[mu].site] = Previous]
           ELSE live

AcceptedInv ==
    /\ Accepted(Settled)
    /\ \A r \in Req : pc[r] = "reload" => Accepted(live)

(* The backup grows file by file, and only then is the directory moved. *)
Covers(b, d, F) == \A f \in F : b[f] = d[f]

CopyProgress ==
    \A r \in Req : pc[r] \in {"backup", "aside"} =>
        LET s == job[r].site
        IN  Covers(backups[s][ts], live[s],
                   Files(live[s]) \ (IF pc[r] = "backup" THEN todo ELSE {}))

(* Nothing is put aside but by the holder, and only by a step of this second. *)
AsideIsHeld ==
    \A s \in Site, t \in Time : aside[s][t] # NoDir =>
        \E r \in Req : /\ pc[r] \in Swapping \cup {"finish"}
                       /\ had /\ s = job[r].site /\ t = ts

BackupInv == CopyProgress /\ AsideIsHeld /\ AsideIsBackedUp

(* A step under the mutex is a step of its holder, and nobody else is inside. *)
LEMMA OnlyHolder ==
    ASSUME ControlInv, NEW r \in Req, Work(r)
    PROVE  /\ mu = r /\ pc[r] \in Locked
           /\ \A q \in Req \ {r} : pc[q] \notin Locked /\ pc'[q] = pc[q]
  <1>1. pc[r] \in Locked /\ \A q \in Req \ {r} : pc'[q] = pc[q]
    BY DEF Work, Stage, StageFail, CopyFile, CopyDone, CopyFail, Aside, AsideFail, Swap,
           SwapFail, TestOk, TestFail, ReloadOk, ReloadFail, Undo, Putback, PutbackFail,
           Finish, CheckOk, CheckFail, SignalOk, SignalFail, Step, Return, Reply, Goto,
           Locked, ControlInv, TypeOK
  <1> QED BY <1>1 DEF ControlInv, MutexInv

(* A caller outside the critical section has nothing to go back to. *)
LEMMA OutsideRollback ==
    ASSUME NEW q \in Req, pc[q] \notin Locked PROVE RollbackOf(q)
  BY DEF RollbackOf, Locked, Swapping

(* A step that returns leaves nothing to go back to. *)
LEMMA ReturnOutside ==
    ASSUME ControlInv, NEW r \in Req, NEW from \in Locked, NEW how \in Done,
           Return(r, from, how)
    PROVE  pc'[r] = how /\ pc'[r] \notin Locked /\ mu' = NoReq
  BY DEF Return, Reply, Goto, ControlInv, TypeOK, Locked, Done

(* Every step under the mutex keeps the way back to the old directory. *)
LEMMA WorkKeepsRollback ==
    ASSUME ControlInv, RollbackInv, NEW r \in Req, Work(r)
    PROVE  RollbackInv'
  <1> DEFINE s == job[r].site
  <1>0. \A q \in Req \ {r} : RollbackOf(q)'
    BY OnlyHolder, OutsideRollback DEF RollbackOf, Locked, Swapping
  <1> SUFFICES RollbackOf(r)'
    BY <1>0 DEF RollbackInv
  <1> USE DEF ControlInv, TypeOK
  <1>a. RollbackOf(r)
    BY DEF RollbackInv
  <1>b. pc[r] \notin {"check", "signal"} => s \in Site /\ job[r].kind \in SiteKinds
    BY OnlyHolder, HolderSite
  <1>c. pc'[r] \notin Locked => RollbackOf(r)'
    BY DEF RollbackOf, Locked, Swapping
  <1>1. CASE Stage(r)
    BY <1>1, <1>b DEF Stage, OpenBackup, Step, Goto, RollbackOf, Swapping, JobInv, SiteKinds
  <1>2. CASE \E f \in File : CopyFile(r, f)
    BY <1>2, <1>a DEF CopyFile, Step, Goto, RollbackOf, Swapping
  <1>3. CASE CopyDone(r)
    BY <1>3, <1>a DEF CopyDone, Step, Goto, RollbackOf, Swapping, locals
  <1>4. CASE Aside(r)
    <2>1. live[s] # NoDir /\ had /\ ts \in Time
      BY <1>4, <1>b DEF Aside, Step, CopyInv
    <2>2. aside'[s][ts] = live[s] /\ live'[s] = NoDir
      BY <1>4, <1>b, <2>1 DEF Aside, Step
    <2> QED BY <1>4, <1>a, <2>1, <2>2 DEF Aside, Step, Goto, RollbackOf, Swapping, locals
  <1>5. CASE Swap(r)
    BY <1>5, <1>a, <1>b DEF Swap, Drop, Step, Goto, RollbackOf, Swapping, JobInv, locals
  <1>6. CASE SwapFail(r)
    BY <1>6, <1>a DEF SwapFail, Step, Goto, RollbackOf, Swapping, locals
  <1>7. CASE TestOk(r) \/ TestFail(r)
    BY <1>7, <1>a DEF TestOk, TestFail, Step, Goto, RollbackOf, Swapping, locals
  <1>8. CASE ReloadOk(r) \/ ReloadFail(r)
    BY <1>8, <1>a DEF ReloadOk, ReloadFail, Step, Goto, RollbackOf, Swapping, locals
  <1>9. CASE Undo(r)
    BY <1>9, <1>a, <1>b DEF Undo, Step, Goto, RollbackOf, Swapping, locals
  <1>10. CASE CheckOk(r)
    BY <1>10 DEF CheckOk, Step, Goto, RollbackOf, Swapping
  <1>11. CASE \/ StageFail(r) \/ CopyFail(r) \/ AsideFail(r) \/ Putback(r) \/ PutbackFail(r)
               \/ Finish(r) \/ CheckFail(r) \/ SignalOk(r) \/ SignalFail(r)
    <2>1. pc'[r] \in Done
      BY <1>11 DEF StageFail, CopyFail, AsideFail, Putback, PutbackFail, Finish, CheckFail,
                   SignalOk, SignalFail, Return, Reply, Goto, Done
    <2> QED BY <1>c, <2>1 DEF Done, Locked
  <1> QED BY <1>1, <1>2, <1>3, <1>4, <1>5, <1>6, <1>7, <1>8, <1>9, <1>10, <1>11 DEF Work

(* The steps outside the critical section, and the one that enters it. *)
Other == \/ Tick \/ Crash \/ UNCHANGED vars
         \/ \E r \in Req : (\E j \in Jobs : Start(r, j)) \/ Read(r) \/ Lock(r)

(* A step is a step of the holder or one of the other steps. *)
LEMMA WorkOrOther == [Next]_vars => Other \/ \E r \in Req : Work(r)
  BY DEF Next, Other

(* The other steps do not touch what the holder of the mutex relies on. *)
LEMMA OthersKeepRollback ==
    ASSUME ControlInv, RollbackInv, Other
    PROVE  RollbackInv'
  <1> USE DEF ControlInv, TypeOK, RollbackInv, RollbackOf, Swapping, locals
  <1>1. CASE Tick \/ Crash \/ UNCHANGED vars
    BY <1>1 DEF Tick, Crash, vars
  <1>2. ASSUME NEW r \in Req, NEW j \in Jobs, Start(r, j) PROVE RollbackInv'
    BY <1>2 DEF Start, Goto, Done
  <1>3. ASSUME NEW r \in Req, Read(r) PROVE RollbackInv'
    BY <1>3 DEF Read, ReadSiteConf, ReadLocations, ReadFail, Reply, Goto, Reading
  <1>4. ASSUME NEW r \in Req, Lock(r) PROVE RollbackInv'
    <2>1. mu = NoReq /\ \A q \in Req : pc[q] \notin Locked
      BY <1>4, ApplyAssumption
      DEF Lock, LockApply, LockSave, LockSaveMissing, LockRemove, LockRemoveMissing,
          LockReload, Acquire, MutexInv
    <2>2. CASE LockApply(r) \/ LockSave(r) \/ LockReload(r)
      BY <2>1, <2>2 DEF LockApply, LockSave, LockReload, Acquire, Goto, Locked
    <2>3. CASE LockRemove(r)
      BY <2>1, <2>3 DEF LockRemove, Acquire, Goto, Locked
    <2>4. CASE LockSaveMissing(r) \/ LockRemoveMissing(r)
      BY <2>1, <2>4 DEF LockSaveMissing, LockRemoveMissing, Acquire, Reply, Goto, Locked
    <2> QED BY <1>4, <2>2, <2>3, <2>4 DEF Lock
  <1> QED BY <1>1, <1>2, <1>3, <1>4 DEF Other

(* Writing back what was there changes nothing. *)
LEMMA ExceptSame ==
    ASSUME NEW f \in [Site -> Dir], NEW s \in Site, NEW v, f[s] = v
    PROVE  [f EXCEPT ![s] = v] = f
  OBVIOUS

(* The second of two writes of a directory is the one that counts. *)
LEMMA ExceptTwice ==
    ASSUME NEW f \in [Site -> Dir], NEW s \in Site, NEW v, NEW w
    PROVE  [[f EXCEPT ![s] = v] EXCEPT ![s] = w] = [f EXCEPT ![s] = w]
  OBVIOUS

(* The directory a holder goes back to. *)
Old(r) == IF had THEN aside[job[r].site][ts] ELSE NoDir

(* A step of the holder changes what is settled only when the reload has    *)
(* succeeded; every failure leads back to the directories of before.        *)
LEMMA WorkSettled ==
    ASSUME ControlInv, RollbackInv, ~PutbackFails, NEW r \in Req, Work(r)
    PROVE  /\ ReloadOk(r) => Settled' = live
           /\ ~ReloadOk(r) => Settled' = Settled
  <1> DEFINE s == job[r].site
  <1>a. RollbackOf(r)
    BY DEF RollbackInv
  <1>b. pc[r] \notin {"check", "signal"} => s \in Site /\ job[r].kind \in SiteKinds
    BY OnlyHolder, HolderSite
  <1>c. mu = r /\ r # NoReq /\ live \in [Site -> Dir]
    BY OnlyHolder, ApplyAssumption, WholeIsDir DEF ControlInv, TypeOK
  <1>in. pc[r] \in Swapping => Settled = [live EXCEPT ![s] = Old(r)]
    BY <1>c DEF Settled, Previous, Old
  <1>out. pc[r] \notin Swapping => Settled = live
    BY <1>c DEF Settled
  <1>d. ASSUME NEW from, NEW to, Step(r, from, to)
        PROVE  /\ pc[r] = from /\ pc'[r] = to /\ mu' = r /\ job' = job
               /\ to \in Swapping => Settled' = [live' EXCEPT ![s] = Old(r)']
               /\ to \notin Swapping => Settled' = live'
    <2>1. pc[r] = from /\ pc'[r] = to /\ mu' = r /\ job' = job
      BY <1>c, <1>d DEF Step, Goto, ControlInv, TypeOK
    <2> QED BY <1>c, <2>1 DEF Settled, Previous, Old
  <1>e. mu' = NoReq => Settled' = live'
    BY DEF Settled
  <1>1. ASSUME Stage(r) PROVE Settled' = Settled
    <2> DEFINE to == IF live[s] = NoDir THEN "swap" ELSE "backup"
    <2>1. Step(r, "stage", to) /\ live' = live /\ s \in Site
          /\ had' = (live[s] # NoDir)
      BY <1>1, <1>b DEF Stage, OpenBackup, Step
    <2>2. Settled = live
      BY <1>out, <2>1 DEF Step, Swapping
    <2>3. CASE live[s] = NoDir
      <3>1. Settled' = [live EXCEPT ![s] = NoDir]
        BY <1>d, <2>1, <2>3 DEF Old, Swapping
      <3> QED BY <1>c, <2>1, <2>2, <2>3, <3>1, ExceptSame
    <2>4. CASE live[s] # NoDir
      BY <1>d, <2>1, <2>2, <2>4 DEF Swapping
    <2> QED BY <2>3, <2>4
  <1>2. ASSUME NEW f \in File, CopyFile(r, f) PROVE Settled' = Settled
    BY <1>2, <1>d, <1>out DEF CopyFile, Swapping
  <1>3. ASSUME CopyDone(r) PROVE Settled' = Settled
    BY <1>3, <1>d, <1>out DEF CopyDone, Swapping
  <1>4. ASSUME Aside(r) PROVE Settled' = Settled
    <2>1. Step(r, "aside", pc'[r]) /\ pc'[r] \in Swapping
      BY <1>4, <1>d DEF Aside, Swapping
    <2>2. s \in Site /\ had /\ ts \in Time /\ had' = had /\ ts' = ts
      BY <1>4, <1>b, <2>1 DEF Aside, locals, Step, ControlInv, CopyInv, TypeOK
    <2>3. Old(r)' = live[s]
      BY <1>4, <1>d, <2>1, <2>2 DEF Aside, Old, ControlInv, TypeOK
    <2>4. live' = [live EXCEPT ![s] = NoDir]
      BY <1>4 DEF Aside
    <2>5. Settled' = [live EXCEPT ![s] = live[s]]
      BY <1>c, <1>d, <2>1, <2>2, <2>3, <2>4, ExceptTwice
    <2> QED BY <1>c, <1>out, <2>1, <2>2, <2>5, ExceptSame DEF Step, Swapping
  <1>5. ASSUME Swap(r) PROVE Settled' = Settled
    <2>1. Step(r, "swap", "test") /\ Old(r)' = Old(r)
          /\ live' = [live EXCEPT ![s] = staging[s]]
      BY <1>5 DEF Swap, Old, locals, Step
    <2>2. pc[r] = "swap" /\ s \in Site
      BY <1>b, <1>d, <2>1
    <2> QED BY <1>c, <1>d, <1>in, <2>1, <2>2, ExceptTwice DEF Swapping
  <1>6. ASSUME SwapFail(r) \/ TestOk(r) \/ TestFail(r) \/ ReloadFail(r)
        PROVE  Settled' = Settled
    <2>1. /\ Step(r, pc[r], pc'[r]) /\ pc[r] \in Swapping /\ pc'[r] \in Swapping
          /\ Old(r)' = Old(r) /\ live' = live
      BY <1>6, <1>d DEF SwapFail, TestOk, TestFail, ReloadFail, Swapping, Old, locals, Step
    <2> QED BY <1>d, <1>in, <2>1
  <1>7. ASSUME Undo(r) PROVE Settled' = Settled
    <2>1. Step(r, "undo", "putback") /\ Old(r)' = Old(r)
          /\ live' = [live EXCEPT ![s] = NoDir]
      BY <1>7 DEF Undo, Old, locals, Step
    <2>2. pc[r] = "undo" /\ s \in Site
      BY <1>b, <1>d, <2>1
    <2> QED BY <1>c, <1>d, <1>in, <2>1, <2>2, ExceptTwice DEF Swapping
  <1>8. ASSUME Putback(r) PROVE Settled' = Settled
    <2>1. pc[r] = "putback" /\ mu' = NoReq /\ s \in Site /\ live[s] = NoDir
      BY <1>8, <1>a, <1>b DEF Putback, Return, RollbackOf
    <2>2. live' = [live EXCEPT ![s] = Old(r)]
      BY <1>8, <1>c, <2>1, ExceptSame DEF Putback, Old
    <2> QED BY <1>e, <1>in, <2>1, <2>2 DEF Swapping
  <1>9. ASSUME \/ StageFail(r) \/ CopyFail(r) \/ AsideFail(r) \/ Finish(r) \/ CheckFail(r)
               \/ SignalOk(r) \/ SignalFail(r)
        PROVE  Settled' = Settled
    BY <1>9, <1>e, <1>out
    DEF StageFail, CopyFail, AsideFail, Finish, CheckFail, SignalOk, SignalFail, Return, Swapping
  <1>10. ASSUME CheckOk(r) PROVE Settled' = Settled
    BY <1>10, <1>d, <1>out DEF CheckOk, Swapping
  <1>11. ASSUME ReloadOk(r) PROVE Settled' = live
    BY <1>11, <1>d DEF ReloadOk, Swapping
  <1> QED BY <1>1, <1>2, <1>3, <1>4, <1>5, <1>6, <1>7, <1>8, <1>9, <1>10, <1>11
          DEF Work, PutbackFail

(* The other steps do not change what is settled. *)
LEMMA OthersSettled ==
    ASSUME ControlInv, Other
    PROVE  Settled' = Settled /\ live' = live
  <1>1. CASE Tick \/ Crash \/ UNCHANGED vars
    <2>1. UNCHANGED <<live, aside, mu, pc, job, had, ts>>
      BY <1>1 DEF Tick, Crash, vars, locals
    <2> QED BY <2>1 DEF Settled, Previous
  <1> USE DEF ControlInv, TypeOK, Settled, Previous, Swapping, locals
  <1>2. ASSUME NEW r \in Req, NEW j \in Jobs, Start(r, j)
        PROVE  Settled' = Settled /\ live' = live
    BY <1>2 DEF Start, Goto, Done, MutexInv, Locked
  <1>3. ASSUME NEW r \in Req, Read(r) PROVE Settled' = Settled /\ live' = live
    <2>1. UNCHANGED <<live, aside, mu, had, ts>>
      BY <1>3 DEF Read, ReadSiteConf, ReadLocations, ReadFail
    <2>2. r # mu
      <3>1. pc[r] \notin Locked
        BY <1>3 DEF Read, ReadSiteConf, ReadLocations, ReadFail, Reading, Locked
      <3> QED BY <3>1, ApplyAssumption DEF MutexInv
    <2>3. \A q \in Req \ {r} : pc'[q] = pc[q] /\ job'[q] = job[q]
      BY <1>3 DEF Read, ReadSiteConf, ReadLocations, ReadFail, Reply, Goto
    <2> QED BY <2>1, <2>2, <2>3
  <1>4. ASSUME NEW r \in Req, Lock(r) PROVE Settled' = Settled /\ live' = live
    BY <1>4, ApplyAssumption
    DEF Lock, LockApply, LockSave, LockSaveMissing, LockRemove, LockRemoveMissing, LockReload,
        Acquire, Reply, Goto
  <1> QED BY <1>1, <1>2, <1>3, <1>4 DEF Other

-----------------------------------------------------------------------------
(* What is put back, and what stays, passes nginx -t. *)

SafeInv == ControlInv /\ RollbackInv /\ AcceptedInv

(* The safety invariant holds before the first call. *)
LEMMA InitSafe == Init => SafeInv
  <1> SUFFICES ASSUME Init PROVE SafeInv
    OBVIOUS
  <1>1. ControlInv
    BY InitControl
  <1>2. \A r \in Req : pc[r] \notin Locked
    BY DEF Init, Locked
  <1>3. RollbackInv
    BY <1>2, OutsideRollback DEF RollbackInv
  <1>4. AcceptedInv
    BY <1>2 DEF Init, AcceptedInv, Settled, Locked
  <1> QED BY <1>1, <1>3, <1>4 DEF SafeInv

(* The safety invariant is inductive if the rename that undoes a failure does not fail. *)
LEMMA NextKeepsSafe == ~PutbackFails /\ SafeInv /\ [Next]_vars => SafeInv'
  <1> SUFFICES ASSUME ~PutbackFails, SafeInv, [Next]_vars PROVE SafeInv'
    OBVIOUS
  <1> USE DEF SafeInv
  <1>1. ControlInv'
    BY NextKeepsControl
  <1>2. ASSUME NEW r \in Req, Work(r) PROVE RollbackInv' /\ AcceptedInv'
    <2>1. RollbackInv'
      BY <1>2, WorkKeepsRollback
    <2>2. Accepted(Settled')
      <3>1. CASE ReloadOk(r)
        BY <1>2, <3>1, WorkSettled DEF ReloadOk, Step, AcceptedInv
      <3>2. CASE ~ReloadOk(r)
        BY <1>2, <3>2, WorkSettled DEF AcceptedInv
      <3> QED BY <3>1, <3>2
    <2>3. ASSUME NEW q \in Req, pc'[q] = "reload" PROVE Accepted(live')
      <3>1. q = r
        BY <1>2, <2>3, OnlyHolder DEF Locked
      <3>2. TestOk(r)
        BY <1>2, <2>3, <3>1
        DEF Work, Stage, StageFail, CopyFile, CopyDone, CopyFail, Aside, AsideFail, Swap,
            SwapFail, TestFail, ReloadOk, ReloadFail, Undo, Putback, PutbackFail, Finish,
            CheckOk, CheckFail, SignalOk, SignalFail, Step, Return, Reply, Goto,
            ControlInv, TypeOK
      <3> QED BY <3>2 DEF TestOk
    <2> QED BY <2>1, <2>2, <2>3 DEF AcceptedInv
  <1>3. ASSUME Other PROVE RollbackInv' /\ AcceptedInv'
    <2>1. RollbackInv' /\ Settled' = Settled /\ live' = live
      BY <1>3, OthersKeepRollback, OthersSettled
    <2>2. ASSUME NEW q \in Req, pc'[q] = "reload" PROVE pc[q] = "reload"
      BY <1>3, <2>2
      DEF Other, Tick, Crash, Start, Read, ReadSiteConf, ReadLocations, ReadFail, Lock, LockApply,
          LockSave, LockSaveMissing, LockRemove, LockRemoveMissing, LockReload, Reply, Goto,
          vars, ControlInv, TypeOK
    <2> QED BY <2>1, <2>2 DEF AcceptedInv
  <1> QED BY <1>1, <1>2, <1>3, WorkOrOther

(* Whatever the callers do and whichever steps fail, while nobody holds the *)
(* mutex the directories under sites/ pass nginx -t: the failed apply put   *)
(* back what it had moved.  (The rename that puts back must work.)          *)
THEOREM RestValid == ASSUME ~PutbackFails PROVE Spec => []ValidAtRest
  <1>1. SafeInv => ValidAtRest
    BY DEF SafeInv, AcceptedInv, ValidAtRest, Settled
  <1>2. SafeInv /\ [Next]_vars => SafeInv'
    BY NextKeepsSafe
  <1> QED BY InitSafe, <1>1, <1>2, PTL DEF Spec

-----------------------------------------------------------------------------
(* Without lost replies nginx runs what is settled. *)

(* If a failed reload never took effect, nginx runs what lies on disk       *)
(* whenever nobody holds the mutex.                                         *)
THEOREM RestRunning ==
    ASSUME ~PutbackFails, ~LostReply PROVE Spec => []RunningIsLive
  <1> DEFINE RunInv == SafeInv /\ running = Settled
  <1>1. Init => RunInv
    <2> SUFFICES ASSUME Init PROVE RunInv
      OBVIOUS
    <2>1. SafeInv
      BY InitSafe
    <2>2. running = Settled
      BY DEF Init, Settled
    <2> QED BY <2>1, <2>2
  <1>2. RunInv /\ [Next]_vars => RunInv'
    <2> SUFFICES ASSUME RunInv, [Next]_vars PROVE RunInv'
      OBVIOUS
    <2> USE DEF SafeInv
    <2>1. SafeInv'
      BY NextKeepsSafe
    <2>2. ASSUME NEW r \in Req, Work(r) PROVE running' = Settled'
      <3>1. CASE ReloadOk(r)
        BY <2>2, <3>1, WorkSettled DEF ReloadOk
      <3>2. CASE SignalOk(r)
        <4>1. Settled = live /\ ~ReloadOk(r)
          BY <2>2, <3>2, OnlyHolder, ApplyAssumption
          DEF SignalOk, Return, ReloadOk, Step, Settled, Swapping
        <4> QED BY <2>2, <3>2, <4>1, WorkSettled DEF SignalOk
      <3>3. CASE ~ReloadOk(r) /\ ~SignalOk(r)
        <4>1. running' = running
          BY <2>2, <3>3
          DEF Work, Stage, StageFail, CopyFile, CopyDone, CopyFail, Aside, AsideFail, Swap,
              SwapFail, TestOk, TestFail, ReloadFail, Undo, Putback, PutbackFail, Finish,
              CheckOk, CheckFail, SignalFail
        <4> QED BY <2>2, <3>3, <4>1, WorkSettled
      <3> QED BY <3>1, <3>2, <3>3
    <2>3. ASSUME Other PROVE running' = Settled'
      <3>1. running' = running
        BY <2>3
        DEF Other, Tick, Crash, Start, Read, ReadSiteConf, ReadLocations, ReadFail, Lock,
            LockApply, LockSave, LockSaveMissing, LockRemove, LockRemoveMissing, LockReload,
            Acquire, vars
      <3> QED BY <2>3, <3>1, OthersSettled
    <2> QED BY <2>1, <2>2, <2>3, WorkOrOther
  <1>3. RunInv => RunningIsLive
    BY DEF RunningIsLive, Settled
  <1> QED BY <1>1, <1>2, <1>3, PTL DEF Spec

-----------------------------------------------------------------------------
(* The previous directory is in the backup before it leaves its place. *)

NothingAside == \A s \in Site, t \in Time : aside[s][t] = NoDir

(* Where nothing is put aside there is nothing to cover. *)
LEMMA NothingAsideCovered == NothingAside => AsideIsHeld /\ AsideIsBackedUp
  BY DEF NothingAside, AsideIsHeld, AsideIsBackedUp

(* A holder that is not exchanging directories has none aside, nor is there *)
(* any while nobody holds the mutex.                                        *)
LEMMA AsideElsewhere ==
    ASSUME ControlInv, BackupInv
    PROVE  /\ mu = NoReq => NothingAside
           /\ \A r \in Req : pc[r] \in Locked \ (Swapping \cup {"finish"}) => NothingAside
           /\ \A r \in Req : pc[r] \in Locked => 
                 \A s \in Site, t \in Time :
                    aside[s][t] # NoDir => had /\ s = job[r].site /\ t = ts
  BY ApplyAssumption
  DEF ControlInv, MutexInv, BackupInv, AsideIsHeld, NothingAside, Swapping, Locked

(* Every step under the mutex keeps what is put aside covered by a backup. *)
LEMMA WorkKeepsBackup ==
    ASSUME ControlInv, RollbackInv, BackupInv, ~PutbackFails, NEW r \in Req, Work(r)
    PROVE  BackupInv'
  <1> DEFINE s == job[r].site
  <1>a. RollbackOf(r) /\ CopyProgress /\ AsideIsHeld /\ AsideIsBackedUp
    BY DEF RollbackInv, BackupInv
  <1>b. pc[r] \notin {"check", "signal"} => s \in Site /\ job[r].kind \in SiteKinds
    BY OnlyHolder, HolderSite
  <1>c. TypeOK /\ pc[r] \in Locked /\ \A q \in Req \ {r} : pc'[q] \notin Locked
    BY OnlyHolder DEF ControlInv
  <1>d. pc'[r] \notin {"backup", "aside"} => CopyProgress'
    BY <1>c DEF CopyProgress, Locked
  <1>e. NothingAside' => AsideIsHeld' /\ AsideIsBackedUp'
    BY DEF NothingAside, AsideIsHeld, AsideIsBackedUp
  <1>f. pc[r] \notin Swapping \cup {"finish"} => NothingAside
    BY <1>c, AsideElsewhere
  <1> SUFFICES CopyProgress' /\ AsideIsHeld' /\ AsideIsBackedUp'
    BY DEF BackupInv
  <1>1. CASE Stage(r)
    <2>1. NothingAside'
      BY <1>1, <1>f DEF Stage, Step, Swapping, NothingAside
    <2>2. CopyProgress'
      BY <1>1, <1>b, <1>c
      DEF Stage, OpenBackup, Step, Goto, TypeOK, CopyProgress, Covers, Locked
    <2> QED BY <1>e, <2>1, <2>2
  <1>2. ASSUME NEW f \in File, CopyFile(r, f)
        PROVE  CopyProgress' /\ AsideIsHeld' /\ AsideIsBackedUp'
    <2>1. NothingAside'
      BY <1>2, <1>f DEF CopyFile, Step, Swapping, NothingAside
    <2>2. had /\ live[s] \in Tree /\ backups[s][ts] \in Tree /\ ts \in Time /\ s \in Site
      BY <1>2, <1>b, <1>c, WholeIsDir DEF CopyFile, Step, ControlInv, CopyInv, TypeOK, Dir
    <2>3. /\ backups'[s][ts] = [backups[s][ts] EXCEPT ![f] = live[s][f]]
          /\ live' = live /\ job' = job /\ ts' = ts /\ todo' = todo \ {f}
          /\ pc[r] = "backup" /\ pc'[r] = "backup"
      BY <1>2, <1>c, <2>2 DEF CopyFile, Step, Goto, TypeOK
    <2>4. \A g \in Files(live[s]) \ todo : backups[s][ts][g] = live[s][g]
      BY <1>a, <2>3 DEF CopyProgress, Covers
    <2>5. \A g \in Files(live[s]) \ (todo \ {f}) : backups'[s][ts][g] = live[s][g]
      BY <2>2, <2>3, <2>4 DEF Tree, Files
    <2>6. CopyProgress'
      BY <1>c, <2>3, <2>5 DEF CopyProgress, Covers, Locked
    <2> QED BY <1>e, <2>1, <2>6
  <1>3. CASE CopyDone(r)
    <2>1. NothingAside'
      BY <1>3, <1>f DEF CopyDone, Step, Swapping, NothingAside
    <2>2. CopyProgress'
      BY <1>3, <1>a, <1>c
      DEF CopyDone, Step, Goto, TypeOK, CopyProgress, Covers, Locked, locals
    <2> QED BY <1>e, <2>1, <2>2
  <1>4. CASE Aside(r)
    <2>1. /\ pc[r] = "aside" /\ pc'[r] \in Swapping /\ job' = job /\ ts' = ts /\ had' = had
          /\ aside' = [aside EXCEPT ![s][ts] = live[s]] /\ backups' = backups
      BY <1>4, <1>c DEF Aside, Step, Goto, TypeOK, Swapping, locals
    <2>2. had /\ live[s] # NoDir /\ backups[s][ts] # NoDir /\ s \in Site /\ ts \in Time
      BY <1>b, <1>c, <2>1 DEF ControlInv, CopyInv, TypeOK
    <2>3. \A u \in Site, t \in Time :
             aside'[u][t] # NoDir => u = s /\ t = ts /\ aside'[u][t] = live[s]
      BY <1>c, <1>f, <2>1, <2>2 DEF NothingAside, Swapping, TypeOK
    <2>4. \A f \in Files(live[s]) : backups[s][ts][f] = live[s][f]
      BY <1>a, <2>1 DEF CopyProgress, Covers
    <2>5. AsideIsHeld'
      BY <2>1, <2>2, <2>3 DEF AsideIsHeld
    <2>6. AsideIsBackedUp'
      BY <2>1, <2>2, <2>3, <2>4 DEF AsideIsBackedUp
    <2> QED BY <1>d, <2>1, <2>5, <2>6 DEF Swapping
  <1>5. CASE \/ Swap(r) \/ SwapFail(r) \/ TestOk(r) \/ TestFail(r) \/ ReloadOk(r)
             \/ ReloadFail(r) \/ Undo(r)
    <2>1. /\ pc[r] \in Swapping /\ pc'[r] \in Swapping \cup {"finish"}
          /\ UNCHANGED <<aside, backups, had, ts, job>>
      BY <1>5, <1>c
      DEF Swap, SwapFail, TestOk, TestFail, ReloadOk, ReloadFail, Undo, Step, Goto, TypeOK,
          Swapping, locals
    <2>2. AsideIsHeld'
      BY <1>c, <2>1, AsideElsewhere DEF AsideIsHeld
    <2>3. AsideIsBackedUp'
      BY <1>a, <2>1 DEF AsideIsBackedUp
    <2> QED BY <1>d, <2>1, <2>2, <2>3 DEF Swapping
  <1>6. CASE Putback(r) \/ Finish(r)
    <2>1. pc'[r] \in Done /\ s \in Site /\ ts \in Time
          /\ aside' = IF had THEN [aside EXCEPT ![s][ts] = NoDir] ELSE aside
      BY <1>6, <1>b, <1>c DEF Putback, Finish, Return, Reply, Goto, TypeOK, Done
    <2>2. NothingAside'
      BY <1>c, <2>1, AsideElsewhere DEF NothingAside, TypeOK
    <2> QED BY <1>d, <1>e, <2>1, <2>2 DEF Done
  <1>7. CASE StageFail(r) \/ CopyFail(r) \/ AsideFail(r) \/ CheckFail(r) \/ SignalOk(r)
             \/ SignalFail(r)
    <2>1. pc'[r] \in Done /\ pc[r] \notin Swapping \cup {"finish"} /\ aside' = aside
      BY <1>7, <1>c
      DEF StageFail, CopyFail, AsideFail, CheckFail, SignalOk, SignalFail, Return, Reply,
          Goto, TypeOK, Done, Swapping
    <2>2. NothingAside'
      BY <1>f, <2>1 DEF NothingAside
    <2> QED BY <1>d, <1>e, <2>1, <2>2 DEF Done
  <1>8. CASE CheckOk(r)
    <2>1. pc[r] = "check" /\ pc'[r] = "signal" /\ aside' = aside
      BY <1>8, <1>c DEF CheckOk, Step, Goto, TypeOK
    <2>2. NothingAside'
      BY <1>f, <2>1 DEF NothingAside, Swapping
    <2> QED BY <1>d, <1>e, <2>1, <2>2
  <1> QED BY <1>1, <1>2, <1>3, <1>4, <1>5, <1>6, <1>7, <1>8 DEF Work, PutbackFail

(* So do the other steps. *)
LEMMA OthersKeepBackup ==
    ASSUME ControlInv, BackupInv, Other
    PROVE  BackupInv'
  <1>1. ASSUME NEW r \in Req, Lock(r) PROVE BackupInv'
    <2>1. aside' = aside /\ mu = NoReq /\ \A q \in Req : pc[q] \notin Locked
      BY <1>1, ApplyAssumption
      DEF Lock, LockApply, LockSave, LockSaveMissing, LockRemove, LockRemoveMissing,
          LockReload, Acquire, ControlInv, MutexInv
    <2>2. AsideIsHeld' /\ AsideIsBackedUp'
      BY <2>1, AsideElsewhere DEF NothingAside, AsideIsHeld, AsideIsBackedUp
    <2>3. CopyProgress'
      <3>1. CASE LockRemove(r)
        BY <2>1, <3>1
        DEF LockRemove, Acquire, OpenBackup, Goto, ControlInv, TypeOK, CopyProgress, Covers, Locked
      <3>2. CASE ~LockRemove(r)
        BY <1>1, <2>1, <3>2
        DEF Lock, LockApply, LockSave, LockSaveMissing, LockRemoveMissing, LockReload, Acquire,
            Reply, Goto, ControlInv, TypeOK, CopyProgress, Locked
      <3> QED BY <3>1, <3>2
    <2> QED BY <2>2, <2>3 DEF BackupInv
  <1>2. ASSUME \A r \in Req : ~Lock(r) PROVE BackupInv'
    <2>1. UNCHANGED <<live, aside, backups, had, ts, todo>>
      BY <1>2
      DEF Other, Tick, Crash, Start, Read, ReadSiteConf, ReadLocations, ReadFail, vars, locals
    <2>2. \A q \in Req : pc'[q] \in Locked \/ pc[q] \in Locked =>
             pc'[q] = pc[q] /\ job'[q] = job[q]
      BY <1>2
      DEF Other, Tick, Crash, Start, Read, ReadSiteConf, ReadLocations, ReadFail, Reply, Goto,
          vars, ControlInv, TypeOK, Done, Reading, Locked
    <2>3. CopyProgress'
      BY <2>1, <2>2 DEF BackupInv, CopyProgress, Locked
    <2>4. AsideIsHeld'
      BY <2>1, <2>2 DEF BackupInv, AsideIsHeld, Swapping, Locked
    <2>5. AsideIsBackedUp'
      BY <2>1 DEF BackupInv, AsideIsBackedUp
    <2> QED BY <2>3, <2>4, <2>5 DEF BackupInv
  <1> QED BY <1>1, <1>2

(* What has been put aside is in the backup of that second, file by file,   *)
(* in every state the panel can die in.                                     *)
THEOREM AsideBackedUp == ASSUME ~PutbackFails PROVE Spec => []AsideIsBackedUp
  <1> DEFINE Inv == SafeInv /\ BackupInv
  <1>1. Init => Inv
    <2>1. Init => NothingAside /\ CopyProgress
      BY DEF Init, NothingAside, CopyProgress
    <2> QED BY <2>1, InitSafe, NothingAsideCovered DEF BackupInv
  <1>2. Inv /\ [Next]_vars => Inv'
    <2> SUFFICES ASSUME Inv, [Next]_vars PROVE Inv'
      OBVIOUS
    <2>1. SafeInv'
      BY NextKeepsSafe
    <2>2. CASE \E r \in Req : Work(r)
      BY <2>1, <2>2, WorkKeepsBackup DEF SafeInv
    <2>3. CASE Other
      BY <2>1, <2>3, OthersKeepBackup DEF SafeInv
    <2> QED BY <2>2, <2>3, WorkOrOther
  <1>3. Inv => AsideIsBackedUp
    BY DEF BackupInv
  <1> QED BY <1>1, <1>2, <1>3, PTL DEF Spec

-----------------------------------------------------------------------------
(***************************************************************************)
(* The file-level pipeline implements the promise of SiteGate, as long as  *)
(* the rename that undoes a failed apply works.                            *)
(***************************************************************************)

(* What the holder is about to make live is what its call asks for, and for *)
(* a save that is an edit of the tree nobody else can have changed since.   *)
OutcomeInv ==
    \A r \in Req : pc[r] \in Locked =>
        /\ job[r].kind = "apply" => new[r] = job[r].tree
        /\ job[r].kind = "save" /\ pc[r] # "finish" =>
              new[r] = Edited(Settled[job[r].site], job[r].file, job[r].content)

GateInv == SafeInv /\ OutcomeInv

(* Outside the mutex there is nothing to claim about the fileset. *)
LEMMA InitGateInv == Init => GateInv
  <1>1. Init => OutcomeInv
    BY DEF Init, OutcomeInv, Locked
  <1> QED BY <1>1, InitSafe DEF GateInv

(* A holder's fileset and arguments stay as they are until it returns. *)
LEMMA WorkKeepsArguments ==
    ASSUME ControlInv, NEW r \in Req, Work(r), pc'[r] \in Locked
    PROVE  job' = job /\ new' = new
  BY DEF Work, Stage, StageFail, CopyFile, CopyDone, CopyFail, Aside, AsideFail, Swap,
         SwapFail, TestOk, TestFail, ReloadOk, ReloadFail, Undo, Putback, PutbackFail,
         Finish, CheckOk, CheckFail, SignalOk, SignalFail, Step, Return, Reply, Goto,
         ControlInv, TypeOK, Locked, Done

(* No step changes what a holder's call means. *)
LEMMA NextKeepsGateInv == ~PutbackFails /\ GateInv /\ [Next]_vars => GateInv'
  <1> SUFFICES ASSUME ~PutbackFails, GateInv, [Next]_vars PROVE GateInv'
    OBVIOUS
  <1> USE DEF GateInv, SafeInv
  <1>1. SafeInv'
    BY NextKeepsSafe
  <1>2. ASSUME NEW r \in Req, Work(r) PROVE OutcomeInv'
    <2>1. \A q \in Req : pc'[q] \in Locked => q = r /\ pc[q] \in Locked /\ job' = job /\ new' = new
      BY <1>2, OnlyHolder, WorkKeepsArguments
    <2>2. CASE ReloadOk(r)
      <3>1. pc'[r] = "finish"
        BY <2>2 DEF ReloadOk, Step, Goto, ControlInv, TypeOK
      <3> QED BY <2>1, <3>1 DEF OutcomeInv
    <2>3. CASE ~ReloadOk(r)
      <3>1. Settled' = Settled
        BY <1>2, <2>3, WorkSettled
      <3>2. pc'[r] # "finish" /\ pc'[r] \in Locked => pc[r] # "finish"
        BY <1>2, <2>3
        DEF Work, Stage, StageFail, CopyFile, CopyDone, CopyFail, Aside, AsideFail, Swap,
            SwapFail, TestOk, TestFail, ReloadOk, ReloadFail, Undo, Putback, PutbackFail,
            Finish, CheckOk, CheckFail, SignalOk, SignalFail, Step, Return, Reply, Goto,
            ControlInv, TypeOK, Locked
      <3> QED BY <2>1, <3>1, <3>2 DEF OutcomeInv
    <2> QED BY <2>2, <2>3
  <1>3. ASSUME Other PROVE OutcomeInv'
    <2>1. Settled' = Settled /\ live' = live
      BY <1>3, OthersSettled
    <2>2. ASSUME NEW r \in Req, Lock(r) PROVE OutcomeInv'
      <3>1. mu = NoReq /\ Settled = live /\ \A q \in Req : pc[q] \notin Locked
        BY <2>2, ApplyAssumption
        DEF Lock, LockApply, LockSave, LockSaveMissing, LockRemove, LockRemoveMissing,
            LockReload, Acquire, ControlInv, MutexInv, Settled
      <3>2. \A q \in Req \ {r} : pc'[q] \notin Locked
        BY <2>2, <3>1
        DEF Lock, LockApply, LockSave, LockSaveMissing, LockRemove, LockRemoveMissing,
            LockReload, Acquire, Reply, Goto, ControlInv, TypeOK
      <3>3. CASE LockApply(r)
        BY <3>2, <3>3 DEF LockApply, Acquire, OutcomeInv, ControlInv, TypeOK
      <3>4. CASE LockSave(r)
        BY <2>1, <3>1, <3>2, <3>4 DEF LockSave, Acquire, OutcomeInv, ControlInv, TypeOK
      <3>5. CASE LockRemove(r) \/ LockReload(r)
        BY <3>2, <3>5 DEF LockRemove, LockReload, Acquire, OutcomeInv, ControlInv, TypeOK
      <3>6. CASE LockSaveMissing(r) \/ LockRemoveMissing(r)
        BY <3>2, <3>6
        DEF LockSaveMissing, LockRemoveMissing, Reply, Goto, OutcomeInv, ControlInv, TypeOK, Locked
      <3> QED BY <2>2, <3>3, <3>4, <3>5, <3>6 DEF Lock
    <2>3. ASSUME \A r \in Req : ~Lock(r) PROVE OutcomeInv'
      <3>1. \A q \in Req : pc'[q] \in Locked =>
               pc'[q] = pc[q] /\ job'[q] = job[q] /\ new'[q] = new[q]
        BY <1>3, <2>3
        DEF Other, Tick, Crash, Start, Read, ReadSiteConf, ReadLocations, ReadFail, Reply, Goto,
            vars, ControlInv, TypeOK, Done, Reading, Locked
      <3> QED BY <2>1, <3>1 DEF OutcomeInv
    <2> QED BY <2>2, <2>3
  <1> QED BY <1>1, <1>2, <1>3, WorkOrOther

-----------------------------------------------------------------------------
(* Steps as the callers see them *)

(* A step of r changes what is seen of r alone. *)
LEMMA OneCaller ==
    ASSUME NEW r \in Req,
           \A q \in Req \ {r} : pc'[q] = pc[q] /\ job'[q] = job[q] /\ new'[q] = new[q]
    PROVE  /\ SeenCalls' = [SeenCalls EXCEPT ![r] = SeenCall(r)']
           /\ SeenStatuses' = [SeenStatuses EXCEPT ![r] = SeenStatus(r)']
  <1>1. \A q \in Req \ {r} : SeenCall(q)' = SeenCall(q) /\ SeenStatus(q)' = SeenStatus(q)
    BY DEF SeenCall, SeenStatus
  <1>2. /\ SeenCalls' = [q \in Req |-> SeenCall(q)']
        /\ SeenStatuses' = [q \in Req |-> SeenStatus(q)']
    BY DEF SeenCalls, SeenStatuses
  <1> QED BY <1>1, <1>2 DEF SeenCalls, SeenStatuses

(* SiteGate and SiteApply read and edit trees in the same way. *)
LEMMA SameEdit ==
    ASSUME NEW d, NEW f, NEW c
    PROVE  Gate!Edited(d, f, c) = Edited(d, f, c)
  <1>1. \A g : Gate!ReadFile(d, g) = ReadFile(d, g)
    BY DEF Gate!ReadFile, ReadFile, Gate!Files, Files
  <1>2. Gate!ReadTree(d) = ReadTree(d)
    BY <1>1 DEF Gate!ReadTree, ReadTree
  <1> QED BY <1>2 DEF Gate!Edited, Edited

(* What a caller is seen to do, by the place it is at. *)
LEMMA SeenFields ==
    ASSUME ControlInv, NEW r \in Req
    PROVE  /\ pc[r] \in Done => SeenCall(r) = NoCall /\ SeenStatus(r) = pc[r]
           /\ pc[r] = "finish" => SeenCall(r) = NoCall /\ SeenStatus(r) = "ok"
           /\ pc[r] \notin Done \cup {"finish"} => SeenStatus(r) = "busy"
           /\ pc[r] \in Reading =>
                 SeenCall(r) = [kind |-> "fetch", site |-> job[r].site]
           /\ pc[r] \notin Reading \cup Done \cup {"finish"} =>
                 SeenCall(r) = IF job[r].kind = "restore"
                               THEN [kind |-> "apply", site |-> job[r].site, tree |-> new[r]]
                               ELSE job[r]
  BY DEF SeenCall, SeenStatus, ControlInv, JobInv, NoCall, Done, Reading

(* The abstract directories, while the panel is up and once it is down. *)
LEMMA SeenSettled == /\ up => Seen = Settled
                     /\ ~up => Seen = live
  BY DEF Seen, Settled
LEMMA SeenSettledNext == /\ up' => Seen' = Settled'
                         /\ ~up' => Seen' = live'
  BY DEF Seen, Settled

(* What the holder wants to see live is what it has put there, or has not   *)
(* put there yet.                                                           *)
LEMMA HolderOutcome ==
    ASSUME GateInv, NEW r \in Req, up, pc[r] \in Swapping
    PROVE  LET c == SeenCall(r) IN
           /\ c.kind \in {"apply", "save", "remove"}
           /\ c.site = job[r].site /\ c.site \in Site
           /\ Gate!Outcome(c, Seen[c.site]) = IF job[r].kind = "remove" THEN NoDir ELSE new[r]
  <1> USE DEF GateInv, SafeInv
  <1>1. job[r].kind \in SiteKinds /\ job[r].site \in Site
    BY HolderSite DEF Swapping, Locked
  <1>2. Seen = Settled /\ pc[r] \in Locked /\ pc[r] # "finish"
    BY SeenSettled DEF Swapping, Locked
  <1>3. SeenCall(r) = IF job[r].kind = "restore"
                      THEN [kind |-> "apply", site |-> job[r].site, tree |-> new[r]]
                      ELSE job[r]
    BY SeenFields DEF Swapping, Done, Reading
  <1>4. CASE job[r].kind = "restore"
    BY <1>1, <1>3, <1>4 DEF Gate!Outcome
  <1>5. CASE job[r].kind = "apply"
    BY <1>1, <1>2, <1>3, <1>5 DEF Gate!Outcome, OutcomeInv
  <1>6. CASE job[r].kind = "save"
    BY <1>1, <1>2, <1>3, <1>6, SameEdit DEF Gate!Outcome, OutcomeInv
  <1>7. CASE job[r].kind = "remove"
    BY <1>1, <1>3, <1>7 DEF Gate!Outcome
  <1> QED BY <1>1, <1>4, <1>5, <1>6, <1>7 DEF SiteKinds

(* While the new directory is in place, it is the outcome of the call. *)
LEMMA LiveIsTarget ==
    ASSUME GateInv, NEW r \in Req, up, pc[r] \in Swapping
    PROVE  LET c == SeenCall(r) IN
           /\ pc[r] \in {"swap", "putback"} => live = [Seen EXCEPT ![c.site] = NoDir]
           /\ pc[r] \in {"test", "reload", "undo"} =>
                 live = [Seen EXCEPT ![c.site] = Gate!Outcome(c, Seen[c.site])]
  <1> DEFINE s == job[r].site
  <1>1. SeenCall(r).site = s /\ s \in Site /\ live \in [Site -> Dir]
    BY HolderOutcome, WholeIsDir DEF GateInv, SafeInv, ControlInv, TypeOK
  <1>2. mu = r /\ r # NoReq
    BY ApplyAssumption DEF GateInv, SafeInv, ControlInv, MutexInv, Swapping, Locked
  <1>3. Seen = [live EXCEPT ![s] = Previous]
    BY <1>2 DEF Seen
  <1>4. \A v : [Seen EXCEPT ![s] = v] = [live EXCEPT ![s] = v]
    BY <1>1, <1>3, ExceptTwice
  <1>5. RollbackOf(r)
    BY DEF GateInv, SafeInv, RollbackInv
  <1>6. CASE pc[r] \in {"swap", "putback"}
    <2>1. live[s] = NoDir
      BY <1>5, <1>6 DEF RollbackOf
    <2>2. live = [live EXCEPT ![s] = NoDir]
      BY <1>1, <2>1, ExceptSame
    <2> QED BY <1>1, <1>4, <1>6, <2>2
  <1>7. CASE pc[r] \in {"test", "reload", "undo"}
    <2>1. live[s] = Gate!Outcome(SeenCall(r), Seen[s])
      BY <1>1, <1>5, <1>7, HolderOutcome DEF RollbackOf
    <2>2. live = [live EXCEPT ![s] = live[s]]
      BY <1>1, ExceptSame
    <2> QED BY <1>1, <1>4, <1>7, <2>1, <2>2
  <1> QED BY <1>6, <1>7 DEF Swapping

-----------------------------------------------------------------------------
(* Every step is a step of SiteGate, or one that nobody can see. *)

Stutter == UNCHANGED <<Seen, running, SeenCalls, SeenStatuses, up>>

(* A step of the critical section that changes neither what is settled nor  *)
(* what nginx runs is invisible.                                            *)
LEMMA QuietStep ==
    ASSUME GateInv, NEW r \in Req, up, NEW from, NEW to,
           Step(r, from, to),
           from \in Locked \ {"finish"}, to \in Locked \ {"finish"},
           Settled' = Settled, running' = running
    PROVE  Stutter
  <1>1. pc[r] = from /\ pc'[r] = to /\ UNCHANGED <<job, new, up>>
        /\ \A q \in Req \ {r} : pc'[q] = pc[q]
    BY DEF Step, Goto, GateInv, SafeInv, ControlInv, TypeOK
  <1>2. SeenCall(r)' = SeenCall(r) /\ SeenStatus(r)' = SeenStatus(r)
    BY <1>1 DEF SeenCall, SeenStatus, Locked, Done, Reading
  <1>3. SeenCalls' = SeenCalls /\ SeenStatuses' = SeenStatuses
    BY <1>1, <1>2, OneCaller DEF SeenCalls, SeenStatuses
  <1> QED BY <1>1, <1>3, SeenSettled, SeenSettledNext DEF Stutter

(* How a call is seen to end. *)
LEMMA EndsSeen ==
    ASSUME GateInv, NEW r \in Req, up' = up, NEW how \in Done,
           pc[r] \notin Done \cup {"finish"}, Reply(r, how)
    PROVE  Gate!Ends(r, how)
  <1>1. /\ pc'[r] = how /\ job'[r] = NoCall
        /\ \A q \in Req \ {r} : pc'[q] = pc[q] /\ job'[q] = job[q] /\ new'[q] = new[q]
    BY DEF Reply, Goto, GateInv, SafeInv, ControlInv, TypeOK
  <1>2. SeenCall(r)' = NoCall /\ SeenStatus(r)' = how
    BY <1>1 DEF SeenCall, SeenStatus, NoCall, Done, Reading
  <1>3. SeenStatus(r) = "busy" /\ SeenStatuses[r] = "busy"
    BY SeenFields DEF SeenStatuses, GateInv, SafeInv
  <1> QED BY <1>1, <1>2, <1>3, OneCaller DEF Gate!Ends, Gate!NoCall, NoCall

(* The start of a call submits it to the gate. *)
LEMMA StartSeen ==
    ASSUME GateInv, NEW r \in Req, NEW j \in Jobs, up, Start(r, j)
    PROVE  \E c \in Gate!Call : Gate!Submit(r, c)
  <1> USE DEF GateInv, SafeInv
  <1>1. /\ pc'[r] = (IF j.kind = "restore" THEN "read" ELSE "wait") /\ job'[r] = j
        /\ \A q \in Req \ {r} : pc'[q] = pc[q] /\ job'[q] = job[q] /\ new'[q] = new[q]
        /\ running' = running /\ up' = up /\ pc[r] \in Done /\ j \in Job
    BY TreesAssumption DEF Start, Goto, ControlInv, TypeOK
  <1>2. Settled' = Settled
    BY OthersSettled DEF Other
  <1>3. SeenCall(r)' \in Gate!Call
    BY <1>1, JobFields
    DEF SeenCall, Reading, Gate!Call, Gate!ApplyJob, Gate!RemoveJob, Gate!SaveJob, Gate!Fetch,
        Gate!ReloadJob, Job, ApplyJob, RemoveJob, SaveJob, RestoreJob, ReloadJob, SiteKinds,
        Gate!Whole, Whole, Gate!Tree, Tree
  <1>4. SeenStatus(r)' = "busy" /\ SeenStatuses[r] # "busy"
    BY <1>1, SeenFields DEF SeenStatus, SeenStatuses, Done
  <1> WITNESS SeenCall(r)' \in Gate!Call
  <1> QED BY <1>1, <1>2, <1>4, OneCaller, SeenSettled, SeenSettledNext DEF Gate!Submit

(* Reading a backup: invisible, or the tree of the call, or its end. *)
LEMMA ReadSeen ==
    ASSUME GateInv, NEW r \in Req, up, Read(r)
    PROVE  \/ Stutter
           \/ \E t \in Gate!Whole : Gate!Fetched(r, t)
           \/ Gate!Abort(r)
  <1> USE DEF GateInv, SafeInv
  <1>1. Settled' = Settled /\ up' = up /\ running' = running /\ pc[r] \in Reading
    BY OthersSettled DEF Other, Read, ReadSiteConf, ReadLocations, ReadFail, Reading
  <1>2. Seen' = Seen
    BY <1>1, SeenSettled, SeenSettledNext
  <1>3. CASE ReadSiteConf(r)
    <2>1. /\ pc'[r] = "readLocs" /\ job' = job
          /\ \A q \in Req \ {r} : pc'[q] = pc[q] /\ new'[q] = new[q]
      BY <1>3 DEF ReadSiteConf, Goto, ControlInv, TypeOK
    <2>2. SeenCall(r)' = SeenCall(r) /\ SeenStatus(r)' = SeenStatus(r)
      BY <1>1, <2>1 DEF SeenCall, SeenStatus, Reading, Done
    <2> QED BY <1>1, <1>2, <2>1, <2>2, OneCaller DEF Stutter, SeenCalls, SeenStatuses
  <1>4. CASE ReadLocations(r)
    <2>1. /\ pc'[r] = "wait" /\ job' = job /\ new'[r] \in Whole /\ job[r].kind = "restore"
          /\ \A q \in Req \ {r} : pc'[q] = pc[q] /\ new'[q] = new[q]
      <3>1. ControlInv'
        BY <1>4, ReadKeepsControl DEF Read
      <3>2. job'[r].kind = "restore" /\ pc'[r] = "wait"
        BY <1>1, <1>4 DEF ReadLocations, Goto, ControlInv, TypeOK, JobInv
      <3>3. new'[r] \in Whole
        BY <3>1, <3>2 DEF ControlInv, NewInv
      <3> QED BY <1>1, <1>4, <3>3 DEF ReadLocations, Goto, ControlInv, TypeOK, JobInv
    <2>2. /\ SeenCall(r) = [kind |-> "fetch", site |-> job[r].site]
          /\ SeenCall(r)' = [kind |-> "apply", site |-> job[r].site, tree |-> new'[r]]
          /\ SeenStatus(r)' = SeenStatus(r) /\ SeenStatus(r) = "busy"
      BY <1>1, <2>1 DEF SeenCall, SeenStatus, Reading, Done
    <2>3. /\ SeenCalls' = [SeenCalls EXCEPT ![r] = SeenCall(r)']
          /\ SeenStatuses' = SeenStatuses
      BY <2>1, <2>2, OneCaller DEF SeenStatuses
    <2>4. /\ SeenStatuses[r] = "busy"
          /\ SeenCalls[r].kind = "fetch" /\ SeenCalls[r].site = job[r].site
      BY <2>2 DEF SeenCalls, SeenStatuses
    <2>5. Gate!Fetched(r, new'[r])
      BY <1>1, <1>2, <2>2, <2>3, <2>4 DEF Gate!Fetched
    <2> QED BY <2>1, <2>5 DEF Gate!Whole, Whole, Gate!Tree, Tree
  <1>5. CASE ReadFail(r)
    <2>1. Gate!Ends(r, "err")
      BY <1>1, <1>5, EndsSeen DEF ReadFail, Reading, Done
    <2> QED BY <1>1, <1>2, <2>1 DEF Gate!Abort
  <1> QED BY <1>3, <1>4, <1>5 DEF Read

(* Taking the mutex is invisible, unless the call ends there. *)
LEMMA LockSeen ==
    ASSUME GateInv, NEW r \in Req, up, Lock(r)
    PROVE  Stutter \/ Gate!Abort(r) \/ Gate!NothingToRemove(r)
  <1> USE DEF GateInv, SafeInv
  <1>1. /\ Settled' = Settled /\ Settled = live /\ up' = up /\ running' = running
        /\ pc[r] = "wait"
    BY OthersSettled
    DEF Other, Lock, LockApply, LockSave, LockSaveMissing, LockRemove, LockRemoveMissing,
        LockReload, Acquire, Settled
  <1>2. Seen' = Seen /\ Seen = live
    BY <1>1, SeenSettled, SeenSettledNext
  <1>3. CASE LockApply(r) \/ LockSave(r) \/ LockRemove(r) \/ LockReload(r)
    <2>1. /\ pc'[r] \in {"stage", "backup", "check"} /\ job' = job
          /\ job[r].kind = "restore" => new'[r] = new[r]
          /\ \A q \in Req \ {r} : pc'[q] = pc[q] /\ new'[q] = new[q]
      BY <1>3
      DEF LockApply, LockSave, LockRemove, LockReload, Acquire, Goto, ControlInv, TypeOK
    <2>2. SeenCall(r)' = SeenCall(r) /\ SeenStatus(r)' = SeenStatus(r)
      BY <1>1, <2>1 DEF SeenCall, SeenStatus, Reading, Done
    <2> QED BY <1>1, <1>2, <2>1, <2>2, OneCaller DEF Stutter, SeenCalls, SeenStatuses
  <1>4. CASE LockSaveMissing(r)
    <2>1. Gate!Ends(r, "err")
      BY <1>1, <1>4, EndsSeen DEF LockSaveMissing, Done
    <2> QED BY <1>1, <1>2, <2>1 DEF Gate!Abort
  <1>5. CASE LockRemoveMissing(r)
    <2>1. Gate!Ends(r, "ok")
      BY <1>1, <1>5, EndsSeen DEF LockRemoveMissing, Done
    <2>2. job[r].kind = "remove" /\ live[job[r].site] = NoDir
      BY <1>5 DEF LockRemoveMissing, Acquire
    <2>3. SeenCalls[r] = job[r]
      BY <1>1, <2>2, SeenFields DEF SeenCalls, Reading, Done
    <2> QED BY <1>1, <1>2, <2>1, <2>2, <2>3 DEF Gate!NothingToRemove
  <1> QED BY <1>3, <1>4, <1>5 DEF Lock

(* The critical section: a call commits when its reload succeeds, a reload   *)
(* may be lost, a failure is an abort, and nothing else is seen.            *)
LEMMA WorkSeen ==
    ASSUME ~PutbackFails, GateInv, NEW r \in Req, up, Work(r)
    PROVE  \/ Stutter \/ Gate!Abort(r) \/ Gate!Commit(r) \/ Gate!LostReload(r)
           \/ Gate!Reload(r) \/ Gate!LostSignal(r)
  <1> USE DEF GateInv, SafeInv
  <1>1. pc[r] \in Locked /\ mu = r
    BY OnlyHolder
  <1>2. Seen = Settled /\ SeenCalls[r] = SeenCall(r) /\ SeenStatuses[r] = SeenStatus(r)
    BY SeenSettled DEF SeenCalls, SeenStatuses
  <1>a. ASSUME NEW from, Return(r, from, "err"), from # "finish", from \in Locked,
               running' = running, Settled' = Settled
        PROVE  Gate!Abort(r)
    <2>1. up' = up /\ pc[r] = from /\ Reply(r, "err")
      BY <1>a DEF Return
    <2>2. Gate!Ends(r, "err")
      BY <1>a, <2>1, EndsSeen DEF Done, Locked
    <2> QED BY <1>2, <1>a, <2>1, <2>2, SeenSettledNext DEF Gate!Abort
  <1>3. CASE \/ Stage(r) \/ (\E f \in File : CopyFile(r, f)) \/ CopyDone(r) \/ Aside(r)
             \/ Swap(r) \/ SwapFail(r) \/ TestOk(r) \/ TestFail(r) \/ Undo(r) \/ CheckOk(r)
    <2>1. Step(r, pc[r], pc'[r]) /\ pc[r] \in Locked \ {"finish"}
          /\ pc'[r] \in Locked \ {"finish"} /\ running' = running /\ ~ReloadOk(r)
      BY <1>3
      DEF Stage, CopyFile, CopyDone, Aside, Swap, SwapFail, TestOk, TestFail, Undo, CheckOk,
          ReloadOk, Step, Goto, ControlInv, TypeOK, Locked
    <2>2. Settled' = Settled
      BY <2>1, WorkSettled
    <2> QED BY <2>1, <2>2, QuietStep
  <1>4. CASE StageFail(r) \/ CopyFail(r) \/ AsideFail(r) \/ Putback(r) \/ CheckFail(r)
    <2>1. /\ pc[r] \in Locked \ {"finish"} /\ Return(r, pc[r], "err")
          /\ running' = running /\ ~ReloadOk(r)
      BY <1>4
      DEF StageFail, CopyFail, AsideFail, Putback, CheckFail, ReloadOk, Return, Step, Locked
    <2> QED BY <1>a, <2>1, WorkSettled
  <1>5. CASE Finish(r)
    <2>1. /\ pc[r] = "finish" /\ pc'[r] = "ok" /\ job'[r] = NoCall /\ UNCHANGED <<running, up>>
          /\ \A q \in Req \ {r} : pc'[q] = pc[q] /\ job'[q] = job[q] /\ new'[q] = new[q]
          /\ ~ReloadOk(r)
      BY <1>5 DEF Finish, ReloadOk, Step, Return, Reply, Goto, ControlInv, TypeOK
    <2>2. SeenCall(r)' = SeenCall(r) /\ SeenStatus(r)' = SeenStatus(r)
      BY <2>1 DEF SeenCall, SeenStatus, NoCall, Done, Reading
    <2>3. Seen' = Seen
      BY <1>2, <2>1, WorkSettled, SeenSettledNext
    <2> QED BY <2>1, <2>2, <2>3, OneCaller DEF Stutter, SeenCalls, SeenStatuses
  <1>6. CASE ReloadOk(r)
    <2>1. /\ pc[r] = "reload" /\ pc'[r] = "finish" /\ running' = live /\ live' = live
          /\ UNCHANGED <<job, new, up>> /\ \A q \in Req \ {r} : pc'[q] = pc[q]
      BY <1>6 DEF ReloadOk, Step, Goto, ControlInv, TypeOK
    <2>2. SeenCall(r)' = NoCall /\ SeenStatus(r)' = "ok" /\ SeenStatus(r) = "busy"
      BY <2>1 DEF SeenCall, SeenStatus, Done, Reading
    <2>3. Gate!Ends(r, "ok")
      BY <1>2, <2>1, <2>2, OneCaller DEF Gate!Ends, Gate!NoCall, NoCall
    <2>4. Seen' = live
      BY <1>6, <2>1, WorkSettled, SeenSettledNext
    <2>5. /\ SeenCall(r).kind \in {"apply", "save", "remove"}
          /\ live = Gate!Target(SeenCall(r))
      BY <2>1, HolderOutcome, LiveIsTarget DEF Gate!Target, Swapping
    <2>6. Accepted(live)
      BY <2>1 DEF AcceptedInv
    <2> QED BY <1>2, <2>1, <2>3, <2>4, <2>5, <2>6 DEF Gate!Commit, Gate!Writes
  <1>7. CASE ReloadFail(r)
    <2>1. /\ Step(r, "reload", "undo") /\ pc[r] = "reload"
          /\ (running' = running \/ (LostReply /\ running' = live)) /\ ~ReloadOk(r)
          /\ UNCHANGED <<job, new, up>> /\ pc'[r] = "undo"
          /\ \A q \in Req \ {r} : pc'[q] = pc[q]
      BY <1>7 DEF ReloadFail, ReloadOk, Step, Goto, ControlInv, TypeOK
    <2>2. Settled' = Settled
      BY <2>1, WorkSettled
    <2>3. CASE running' = running
      BY <2>1, <2>2, <2>3, QuietStep DEF Locked
    <2>4. CASE LostReply /\ running' = live
      <3>1. /\ SeenCall(r)' = SeenCall(r) /\ SeenStatus(r)' = SeenStatus(r)
            /\ SeenStatus(r) = "busy"
        BY <2>1 DEF SeenCall, SeenStatus, Done, Reading
      <3>2. /\ SeenCall(r).kind \in {"apply", "save", "remove"}
            /\ live = Gate!Target(SeenCall(r))
        BY <2>1, HolderOutcome, LiveIsTarget DEF Gate!Target, Swapping
      <3>3. Accepted(live)
        BY <2>1 DEF AcceptedInv
      <3>4. UNCHANGED <<Seen, SeenCalls, SeenStatuses, up>>
        BY <1>2, <2>1, <2>2, <3>1, OneCaller, SeenSettledNext DEF SeenCalls, SeenStatuses
      <3> QED BY <1>2, <2>4, <3>1, <3>2, <3>3, <3>4 DEF Gate!LostReload, Gate!Writes
    <2> QED BY <2>1, <2>3, <2>4
  <1>8. CASE SignalOk(r) \/ SignalFail(r)
    <2>1. pc[r] = "signal" /\ up' = up /\ live' = live /\ ~ReloadOk(r)
      BY <1>8 DEF SignalOk, SignalFail, Return, ReloadOk, Step
    <2>2. Settled = live /\ Settled' = Settled /\ Accepted(live)
      BY <1>1, <2>1, WorkSettled DEF Settled, Swapping, AcceptedInv
    <2>3. Seen = live /\ Seen' = Seen
      BY <1>2, <2>1, <2>2, SeenSettledNext
    <2>4. SeenCalls[r].kind = "reload"
      BY <1>2, <2>1, SeenFields DEF JobInv, ControlInv, Reading, Done
    <2>5. CASE SignalOk(r)
      <3>1. Gate!Ends(r, "ok")
        BY <2>1, <2>5, EndsSeen DEF SignalOk, Return, Done
      <3> QED BY <2>2, <2>3, <2>4, <2>5, <3>1 DEF Gate!Reload, SignalOk
    <2>6. CASE SignalFail(r)
      <3>1. Gate!Ends(r, "err")
        BY <2>1, <2>6, EndsSeen DEF SignalFail, Return, Done
      <3> QED BY <2>2, <2>3, <2>4, <2>6, <3>1 DEF Gate!Abort, Gate!LostSignal, SignalFail
    <2> QED BY <1>8, <2>5, <2>6
  <1> QED BY <1>3, <1>4, <1>5, <1>6, <1>7, <1>8 DEF Work, PutbackFail

(* A panel that dies leaves the old directory, the new one, or none. *)
LEMMA CrashSeen ==
    ASSUME GateInv, up, Crash
    PROVE  Gate!Crash
  <1> USE DEF GateInv, SafeInv
  <1>1. UNCHANGED <<live, pc, job, new, running>> /\ up' = FALSE
    BY DEF Crash
  <1>2. Seen' = live
    BY <1>1, SeenSettledNext
  <1>3. UNCHANGED <<SeenCalls, SeenStatuses>>
    BY <1>1 DEF SeenCalls, SeenStatuses, SeenCall, SeenStatus
  <1>4. CASE mu = NoReq \/ pc[mu] \notin Swapping
    BY <1>1, <1>2, <1>3, <1>4 DEF Seen, Gate!Crash
  <1>5. CASE mu # NoReq /\ pc[mu] \in Swapping
    <2>1. mu \in Req
      BY <1>5 DEF ControlInv, TypeOK
    <2>2. SeenStatuses[mu] = "busy" /\ SeenCalls[mu] = SeenCall(mu)
      BY <1>5, <2>1, SeenFields DEF SeenStatuses, SeenCalls, Swapping, Done
    <2>3. Gate!Writes(SeenCall(mu))
      BY <1>5, <2>1, HolderOutcome DEF Gate!Writes
    <2>4. \/ live = [Seen EXCEPT ![SeenCall(mu).site] = NoDir]
          \/ live = Gate!Target(SeenCall(mu))
      BY <1>5, <2>1, LiveIsTarget DEF Gate!Target, Swapping
    <2> QED BY <1>1, <1>2, <1>3, <2>1, <2>2, <2>3, <2>4 DEF Gate!Crash
  <1> QED BY <1>4, <1>5

(* Every step of the pipeline is a step of the gate, or one the gate does not see. *)
LEMMA NextSeen ==
    ASSUME ~PutbackFails, GateInv, [Next]_vars
    PROVE  [Gate!Next]_(Gate!vars)
  <1>1. CASE UNCHANGED vars
    BY <1>1 DEF vars, Gate!vars, Seen, Previous, SeenCalls, SeenStatuses, SeenCall, SeenStatus
  <1>2. CASE up /\ Tick
    <2>1. UNCHANGED <<live, aside, running, mu, pc, job, new, had, ts, up>>
      BY <1>2 DEF Tick, locals
    <2> QED BY <2>1 DEF Gate!vars, Seen, Previous, SeenCalls, SeenStatuses, SeenCall, SeenStatus
  <1>3. CASE up /\ Crash
    BY <1>3, CrashSeen DEF Gate!Next
  <1>4. CASE up /\ \E r \in Req : \E j \in Jobs : Start(r, j)
    BY <1>4, StartSeen DEF Gate!Next
  <1>5. CASE up /\ \E r \in Req : Read(r)
    BY <1>5, ReadSeen DEF Gate!Next, Stutter, Gate!vars
  <1>6. CASE up /\ \E r \in Req : Lock(r)
    BY <1>6, LockSeen DEF Gate!Next, Stutter, Gate!vars
  <1>7. CASE up /\ \E r \in Req : Work(r)
    BY <1>7, WorkSeen DEF Gate!Next, Stutter, Gate!vars
  <1> QED BY <1>1, <1>2, <1>3, <1>4, <1>5, <1>6, <1>7 DEF Next

(* The initial states are initial states of the gate. *)
LEMMA InitSeen == Init => Gate!Init
  <1> SUFFICES ASSUME Init PROVE Gate!Init
    OBVIOUS
  <1>1. Seen = live /\ live \in [Site -> Gate!Whole \cup {NoDir}]
    BY DEF Init, Seen, ApplyJob, Gate!Whole, Whole, Gate!Tree, Tree
  <1>2. \A r \in Req : SeenCall(r) = NoCall /\ SeenStatus(r) = "ok"
    BY DEF Init, SeenCall, SeenStatus, NoCall, Done, Reading
  <1> QED BY <1>1, <1>2 DEF Init, Gate!Init, SeenCalls, SeenStatuses, Gate!NoCall, NoCall

(* The pipeline keeps the promise: seen by its callers every apply, save,   *)
(* removal and restore happens at once, with all of its effect or none.     *)
THEOREM Refinement == ASSUME ~PutbackFails PROVE Spec => Promise
  <1>1. GateInv /\ [Next]_vars => GateInv'
    BY NextKeepsGateInv
  <1>2. GateInv /\ [Next]_vars => [Gate!Next]_(Gate!vars)
    BY NextSeen
  <1> QED BY InitGateInv, InitSeen, <1>1, <1>2, PTL DEF Spec, Promise, Gate!Spec
=============================================================================
