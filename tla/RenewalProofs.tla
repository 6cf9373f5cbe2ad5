---------------------------- MODULE RenewalProofs ---------------------------
(***************************************************************************)
(* However requests, the sweep, deaths of the panel and the passing of     *)
(* time are interleaved, for any certificates and any number of requests:  *)
(* new files that nginx has not read are owed a reload, and no row of a    *)
(* certificate of the CA promises more than the files hold.                *)
(***************************************************************************)
EXTENDS Renewal, TLAPS

(* Where p is decides what it does and what it may have changed. *)
Ctl(p) ==
    /\ pc[p] = "idle" => job[p].op = "none" /\ job[p].changed = {}
    /\ job[p].op = "none" => pc[p] = "idle"
    /\ job[p].op = "sweep" => /\ p = Sched
                              /\ pc[p] \in {"next", "issue", "save", "note", "reload"}
                              /\ job[p].cert \in acme \cup {NoCert}
                              /\ \A x \in job[p].todo : x[1] \in acme
    /\ job[p].op = "renew" => /\ pc[p] \in {"issue", "save", "note", "reload"}
                              /\ pc[p] \in {"issue", "note"} => job[p].changed = {}
    /\ job[p].op = "rename" => pc[p] = "save" /\ job[p].changed = {}
    /\ job[p].op = "delete" => pc[p] \in {"deltx", "rmfiles"} /\ job[p].changed = {}
    /\ pc[p] = "next" => job[p].row = "due"
    /\ pc[p] = "next" => job[p].op = "sweep"

(* A row that a call has loaded promises no more than one that is stored. *)
CopyTrue(p) == job[p].row = "good" /\ job[p].cert \in acme => pair[job[p].cert] # "due"

IInv == TypeOK /\ ServedOrOwed /\ NeverOverstated /\ \A p \in Proc : Ctl(p) /\ CopyTrue(p)

USE RenewalAssumption DEF Proc

LEMMA RenewalInit == Init => IInv
<1> SUFFICES ASSUME Init PROVE IInv
  OBVIOUS
<1>1. NoJob \in Job
  BY DEF NoJob, Job, Date
<1>2. TypeOK
  BY <1>1 DEF Init, TypeOK, Date
<1>3. ServedOrOwed /\ NeverOverstated
  BY DEF Init, ServedOrOwed, NeverOverstated, Date
<1>4. \A p \in Proc : Ctl(p) /\ CopyTrue(p)
  BY DEF Init, Ctl, CopyTrue, NoJob
<1> QED BY <1>2, <1>3, <1>4 DEF IInv

(* Time passes everywhere at once, so the copies of a date stay in step.     *)
LEMMA AgeKeeps ==
    ASSUME IInv, NEW c \in Cert, Age(c)
    PROVE  IInv'
<1> USE DEF IInv
<1>1. \A p \in Proc : /\ job'[p] \in Job
                      /\ job'[p].op = job[p].op /\ job'[p].cert = job[p].cert
                      /\ job'[p].changed = job[p].changed
                      /\ job'[p].row = (IF job[p].cert = c THEN "due" ELSE job[p].row)
                      /\ \A x \in job'[p].todo : \E y \in job[p].todo : x[1] = y[1]
  <2> SUFFICES ASSUME NEW p \in Proc
               PROVE  /\ job'[p] \in Job
                      /\ job'[p].op = job[p].op /\ job'[p].cert = job[p].cert
                      /\ job'[p].changed = job[p].changed
                      /\ job'[p].row = (IF job[p].cert = c THEN "due" ELSE job[p].row)
                      /\ \A x \in job'[p].todo : \E y \in job[p].todo : x[1] = y[1]
    OBVIOUS
  <2> DEFINE Aged(x) == IF x[1] = c THEN <<c, "due">> ELSE x
             todo    == {Aged(x) : x \in job[p].todo}
  <2>1. job[p] \in Job
    BY DEF TypeOK
  <2>2. job'[p] = [job[p] EXCEPT !.row = IF job[p].cert = c THEN "due" ELSE job[p].row,
                                 !.todo = todo]
    BY DEF Age
  <2>3. todo \in SUBSET (Cert \X Date)
    <3>1. \A x \in job[p].todo : x \in Cert \X Date
      BY <2>1 DEF Job
    <3>2. \A x \in Cert \X Date : Aged(x) \in Cert \X Date
      BY DEF Date
    <3> QED BY <3>1, <3>2
  <2>4. \A x \in todo : \E y \in job[p].todo : x[1] = y[1]
    BY <2>1 DEF Job
  <2> HIDE DEF todo
  <2>5. job'[p] \in Job
    BY <2>1, <2>2, <2>3 DEF Job, Date
  <2> QED BY <2>1, <2>2, <2>4, <2>5 DEF Job
<1>2. /\ rows' = [rows EXCEPT ![c] = Later(@)] /\ pair' = [pair EXCEPT ![c] = Later(@)]
      /\ UNCHANGED <<bound, stale, pc, excused, crashes, acme>>
  BY DEF Age
<1>3. DOMAIN job' = Proc /\ job' = [p \in Proc |-> job'[p]]
  BY DEF Age
<1>4. TypeOK'
  BY <1>1, <1>2, <1>3 DEF TypeOK, Later, Date
<1>5. ServedOrOwed'
  BY <1>1, <1>2 DEF ServedOrOwed
<1>6. NeverOverstated'
  BY <1>2 DEF NeverOverstated, TypeOK, Later, Date
<1>7. \A p \in Proc : Ctl(p)'
  BY <1>1, <1>2 DEF Ctl, TypeOK
<1>8. \A p \in Proc : CopyTrue(p)'
  BY <1>1, <1>2 DEF CopyTrue, TypeOK, Later
<1> QED BY <1>4, <1>5, <1>6, <1>7, <1>8

(* Every other step leaves the dates alone or sets them when the files are   *)
(* new; whoever has changed files keeps track of it until it reloads.        *)
LEMMA StepKeeps ==
    ASSUME IInv, NEW p \in Proc, Step(p)
    PROVE  IInv'
<1> USE DEF IInv
<1>0. /\ TypeOK /\ ServedOrOwed /\ NeverOverstated /\ job[p] \in Job
      /\ Ctl(p) /\ CopyTrue(p)
      /\ pc[p] # "idle" /\ pc[p] # "next" /\ pc[p] # "reload" => job[p].cert \in Cert
  BY DEF TypeOK
<1>1. NoJob \in Job /\ NoJob.op = "none" /\ NoJob.changed = {} /\ NoJob.row = "due"
      /\ NoJob.cert = NoCert /\ NoJob.todo = {}
  BY DEF NoJob, Job, Date
<1> HIDE DEF NoJob
<1>2. CASE IssueOk(p)
  <2>0. PICK d \in Dates(job[p].cert) :
          /\ pair' = [pair EXCEPT ![job[p].cert] = d]
          /\ job' = [job EXCEPT ![p].row = d, ![p].changed = @ \cup {job[p].cert}]
    BY <1>2 DEF IssueOk
  <2>d. d \in Date /\ (job[p].cert \in acme => d = "good")
    BY DEF Dates, Date
  <2>1. job'[p] = [job[p] EXCEPT !.row = d, !.changed = @ \cup {job[p].cert}]
    BY <2>0 DEF TypeOK
  <2>2. job'[p] \in Job /\ job'[p].op = job[p].op /\ job'[p].cert = job[p].cert
        /\ job'[p].todo = job[p].todo /\ job'[p].changed = job[p].changed \cup {job[p].cert}
    <3>1. pc[p] = "issue" /\ job[p].cert \in Cert
      BY <1>0, <1>2 DEF IssueOk
    <3>2. job[p].changed \cup {job[p].cert} \in SUBSET Cert
      BY <1>0, <3>1 DEF Job
    <3> QED BY <1>0, <2>1, <2>d, <3>2 DEF Job
  <2>3. \A q \in Proc \ {p} : job'[q] = job[q] /\ pc'[q] = pc[q]
    BY <1>2 DEF IssueOk, Goto, TypeOK
  <2>4. TypeOK'
    <3>1. job' \in [Proc -> Job]
      BY <2>0, <2>2 DEF TypeOK
    <3> QED BY <1>0, <1>2, <2>0, <2>d, <2>2, <2>3, <3>1 DEF IssueOk, Goto, TypeOK
  <2>5. ServedOrOwed'
    BY <1>0, <1>2, <2>2, <2>3 DEF IssueOk, ServedOrOwed
  <2>6. NeverOverstated'
    BY <1>0, <1>2, <2>0, <2>d DEF IssueOk, NeverOverstated, TypeOK
  <2>7. \A q \in Proc : Ctl(q)'
    BY <1>0, <1>2, <2>2, <2>3 DEF IssueOk, Goto, Ctl, TypeOK
  <2>8. \A q \in Proc : CopyTrue(q)'
    BY <1>0, <1>2, <2>0, <2>d, <2>2, <2>3 DEF IssueOk, CopyTrue, TypeOK
  <2> QED BY <2>4, <2>5, <2>6, <2>7, <2>8
<1>3. CASE IssueFail(p)
  <2>1. /\ UNCHANGED <<rows, pair, bound, stale, excused, crashes, acme>>
        /\ \/ Goto(p, "note") /\ UNCHANGED job
           \/ Leave(p) /\ job[p].changed = {}
        /\ pc[p] = "issue"
    BY <1>0, <1>3 DEF IssueFail, Ctl, Job
  <2> QED BY <1>0, <1>1, <2>1 DEF Goto, Leave, TypeOK, ServedOrOwed, NeverOverstated, Ctl, CopyTrue
<1>4. ASSUME pc[p] = "save" \/ pc[p] = "note", UNCHANGED <<pair, bound, stale, crashes, acme>>,
             rows' = [rows EXCEPT ![job[p].cert] = job[p].row] \/ rows' = rows,
             \/ Goon(p) /\ excused' = excused /\ job[p].op = "sweep"
             \/ Leave(p) /\ excused' = excused /\ job[p].changed = {}
             \/ Leave(p) /\ Excuse(job[p].changed)
             \/ Goto(p, "reload") /\ job' = job /\ excused' = excused /\ job[p].op = "renew"
      PROVE  IInv'
  <2>1. \A q \in Proc \ {p} : job'[q] = job[q] /\ pc'[q] = pc[q]
    BY <1>4 DEF Goon, Goto, Leave, TypeOK
  <2>2. job'[p] \in Job /\ job' \in [Proc -> Job]
    BY <1>0, <1>1, <1>4 DEF Goon, Leave, TypeOK, Job, Date
  <2>3. job[p].row \in Date /\ job[p].changed \in SUBSET Cert /\ job[p].cert \in Cert
    BY <1>0, <1>4 DEF Job
  <2>4. TypeOK'
    BY <1>4, <2>2, <2>3 DEF Goon, Goto, Leave, Excuse, TypeOK
  <2>5. ServedOrOwed'
    BY <1>0, <1>1, <1>4, <2>1, <2>3 DEF Goon, Leave, Excuse, TypeOK, ServedOrOwed, Job
  <2>6. NeverOverstated'
    BY <1>0, <1>4, <2>3 DEF NeverOverstated, TypeOK, CopyTrue
  <2>7. \A q \in Proc : Ctl(q)' /\ CopyTrue(q)'
    BY <1>0, <1>1, <1>4, <2>1, <2>3 DEF Goon, Goto, Leave, TypeOK, Ctl, CopyTrue, Job
  <2> QED BY <2>4, <2>5, <2>6, <2>7
<1>5. CASE Save(p)
  BY <1>0, <1>4, <1>5 DEF Save, Put, AfterSave, Ctl, Job
<1>6. CASE SaveFail(p)
  BY <1>0, <1>4, <1>6 DEF SaveFail, AfterSave, Ctl, Job
<1>7. CASE Note(p)
  BY <1>0, <1>4, <1>7 DEF Note, Put, AfterNote, Ctl, Job
<1>8. CASE NoteFail(p)
  BY <1>0, <1>4, <1>8 DEF NoteFail, AfterNote, Ctl, Job
<1>9. CASE ReloadOk(p)
  BY <1>0, <1>1, <1>9 DEF ReloadOk, Synced, Goto, Leave, TypeOK, ServedOrOwed, NeverOverstated,
     Ctl, CopyTrue
<1>10. CASE ReloadFail(p)
  BY <1>0, <1>1, <1>10 DEF ReloadFail, Excuse, Goto, Leave, TypeOK, ServedOrOwed,
     NeverOverstated, Ctl, CopyTrue, Job
<1>11. CASE DeleteTx(p)
  BY <1>0, <1>1, <1>11 DEF DeleteTx, Goto, Leave, TypeOK, ServedOrOwed, NeverOverstated,
     Ctl, CopyTrue, Job
<1>12. CASE RemoveFiles(p)
  BY <1>0, <1>1, <1>12 DEF RemoveFiles, Goto, Leave, TypeOK, ServedOrOwed, NeverOverstated,
     Ctl, CopyTrue, Job
<1> QED
  BY <1>2, <1>3, <1>5, <1>6, <1>7, <1>8, <1>9, <1>10, <1>11, <1>12 DEF Step

(* A request, or a sweep, starts from what is stored.                        *)
LEMMA StartKeeps ==
    ASSUME IInv,
           \/ \E r \in Req, c \in Cert : Renew(r, c) \/ Rename(r, c) \/ Delete(r, c)
           \/ Sweep
    PROVE  IInv'
<1> USE DEF IInv
<1>1. NoJob \in Job /\ NoJob.op = "none" /\ NoJob.changed = {} /\ NoJob.row = "due"
      /\ NoJob.cert = NoCert /\ NoJob.todo = {}
  BY DEF NoJob, Job, Date
<1> HIDE DEF NoJob
<1>2. ASSUME NEW r \in Req, NEW c \in Cert, NEW op \in {"renew", "rename", "delete"}, NEW row,
             NEW l \in {"issue", "save", "deltx"}, Request(r, op, c, row, l),
             row = rows[c] \/ row = "due",
             op = "renew" => l = "issue", op = "rename" => l = "save", op = "delete" => l = "deltx"
      PROVE  IInv'
  <2>1. row \in Date
    BY <1>2 DEF Request, Exists, TypeOK, Date
  <2>2. job'[r] = [NoJob EXCEPT !.op = op, !.cert = c, !.row = row] /\ r \in Proc
    BY <1>2 DEF Request, TypeOK
  <2>3. job'[r] \in Job /\ job'[r].op = op /\ job'[r].cert = c /\ job'[r].row = row
        /\ job'[r].changed = {} /\ job'[r].todo = {}
    BY <1>1, <2>1, <2>2 DEF Job
  <2>4. \A q \in Proc \ {r} : job'[q] = job[q] /\ pc'[q] = pc[q]
    BY <1>2 DEF Request, Goto, TypeOK
  <2>5. pc'[r] = l /\ pc[r] = "idle" /\ UNCHANGED <<rows, pair, bound, stale, excused, crashes, acme>>
    BY <1>2, <2>2 DEF Request, Goto, TypeOK
  <2>6. job' \in [Proc -> Job] /\ DOMAIN pc' = Proc /\ pc' = [pc EXCEPT ![r] = l]
    BY <1>2, <2>2, <2>3 DEF Request, Goto, TypeOK
  <2>7. TypeOK'
    <3>1. \A q \in Proc : pc'[q] \in {"idle", "next", "issue", "save", "note", "reload",
                                       "deltx", "rmfiles"}
      BY <2>4, <2>5 DEF TypeOK
    <3>2. \A q \in Proc : pc'[q] \notin {"idle", "next", "reload"} => job'[q].cert \in Cert
      BY <2>3, <2>4 DEF TypeOK
    <3>3. pc' \in [Proc -> {"idle", "next", "issue", "save", "note", "reload", "deltx", "rmfiles"}]
      BY <2>6, <3>1 DEF TypeOK
    <3> QED BY <2>5, <2>6, <3>2, <3>3 DEF TypeOK
  <2>8. ServedOrOwed' /\ NeverOverstated'
    BY <2>2, <2>4, <2>5 DEF ServedOrOwed, NeverOverstated, Ctl
  <2>9. \A q \in Proc : Ctl(q)' /\ CopyTrue(q)'
    BY <1>2, <2>3, <2>4, <2>5 DEF Ctl, CopyTrue, NeverOverstated
  <2> QED BY <2>7, <2>8, <2>9
<1>3. CASE \E r \in Req, c \in Cert : Renew(r, c) \/ Rename(r, c) \/ Delete(r, c)
  BY <1>1, <1>2, <1>3 DEF Renew, Rename, Delete
<1>4. CASE Sweep
  <2> DEFINE todo == {<<c, rows[c]>> : c \in {d \in acme : Exists(d)}}
  <2>1. todo \in SUBSET (Cert \X Date) /\ \A x \in todo : x[1] \in acme
    <3>1. \A d \in acme : Exists(d) => d \in Cert /\ rows[d] \in Date
      BY DEF TypeOK, Exists
    <3>2. \A d \in acme : Exists(d) => <<d, rows[d]>> \in Cert \X Date
      BY <3>1
    <3> QED BY <3>2
  <2>2. job' = [job EXCEPT ![Sched] = [NoJob EXCEPT !.op = "sweep", !.todo = todo]]
    BY <1>4 DEF Sweep
  <2> HIDE DEF todo
  <2>3. job'[Sched] \in Job /\ job'[Sched].op = "sweep" /\ job'[Sched].todo = todo
        /\ job'[Sched].changed = {} /\ job'[Sched].row = "due" /\ job'[Sched].cert = NoCert
    BY <1>1, <2>1, <2>2 DEF TypeOK, Job
  <2>4. \A q \in Proc \ {Sched} : job'[q] = job[q] /\ pc'[q] = pc[q]
    BY <1>4, <2>2 DEF Sweep, Goto, TypeOK
  <2>5. job' \in [Proc -> Job]
    BY <2>2, <2>3 DEF TypeOK
  <2>6. TypeOK'
    BY <1>4, <2>3, <2>4, <2>5 DEF Sweep, Goto, TypeOK
  <2>7. ServedOrOwed' /\ NeverOverstated'
    BY <1>4, <2>4 DEF Sweep, ServedOrOwed, NeverOverstated, Ctl
  <2>8. \A q \in Proc : Ctl(q)' /\ CopyTrue(q)'
    BY <1>4, <2>1, <2>3, <2>4 DEF Sweep, Goto, Ctl, CopyTrue, TypeOK
  <2> QED BY <2>6, <2>7, <2>8
<1> QED BY <1>3, <1>4

(* The sweep looks at one row after the other.                               *)
LEMMA SweepKeeps ==
    ASSUME IInv, Take \/ SweepEnd
    PROVE  IInv'
<1> USE DEF IInv
<1>1. NoJob \in Job /\ NoJob.op = "none" /\ NoJob.changed = {} /\ NoJob.row = "due"
      /\ NoJob.cert = NoCert /\ NoJob.todo = {}
  BY DEF NoJob, Job, Date
<1> HIDE DEF NoJob
<1>2. /\ job[Sched] \in Job /\ Ctl(Sched) /\ Sched \in Proc
      /\ \A q \in Proc \ {Sched} : job'[q] = job[q] /\ pc'[q] = pc[q]
      /\ UNCHANGED <<rows, pair, bound, stale, excused, crashes, acme>>
  BY DEF TypeOK, Take, SweepEnd, Goto, Leave
<1>3. CASE Take
  <2>1. PICK x \in job[Sched].todo :
          \/ /\ Goto(Sched, "issue")
             /\ job' = [job EXCEPT ![Sched].todo = @ \ {x}, ![Sched].cert = x[1]]
          \/ /\ UNCHANGED pc
             /\ job' = [job EXCEPT ![Sched].todo = @ \ {x}]
    BY <1>3 DEF Take
  <2>2. x[1] \in acme
    BY <1>2, <1>3 DEF Take, Ctl
  <2>3. /\ job'[Sched] \in Job /\ job'[Sched].op = job[Sched].op
        /\ job'[Sched].row = job[Sched].row /\ job'[Sched].changed = job[Sched].changed
        /\ job'[Sched].todo \subseteq job[Sched].todo
        /\ \/ job'[Sched].cert = x[1] /\ pc'[Sched] = "issue"
           \/ job'[Sched].cert = job[Sched].cert /\ pc' = pc
    BY <1>2, <2>1, <2>2 DEF TypeOK, Job, Goto
  <2>4. job' \in [Proc -> Job]
    BY <2>1, <2>3 DEF TypeOK
  <2>5. TypeOK'
    BY <1>2, <1>3, <2>1, <2>2, <2>3, <2>4 DEF TypeOK, Take, Goto
  <2>6. ServedOrOwed' /\ NeverOverstated'
    BY <1>2, <2>3 DEF ServedOrOwed, NeverOverstated
  <2>7. \A q \in Proc : Ctl(q)' /\ CopyTrue(q)'
    BY <1>2, <1>3, <2>2, <2>3 DEF Take, Ctl, CopyTrue
  <2> QED BY <2>5, <2>6, <2>7
<1>4. CASE SweepEnd
  BY <1>1, <1>2, <1>4 DEF SweepEnd, Goto, Leave, TypeOK, ServedOrOwed, NeverOverstated, Ctl, CopyTrue
<1> QED BY <1>3, <1>4

(* A bind reloads nginx for everybody; a death excuses those it stops.       *)
LEMMA OthersKeep ==
    ASSUME IInv, Crash \/ \E c \in Cert : Bind(c) \/ Unbind(c)
    PROVE  IInv'
<1> USE DEF IInv
<1>1. CASE \E c \in Cert : Bind(c) \/ Unbind(c)
  BY <1>1 DEF Bind, Unbind, Synced, TypeOK, ServedOrOwed, NeverOverstated, Ctl, CopyTrue
<1>2. CASE Crash
  <2>1. NoJob \in Job /\ NoJob.op = "none" /\ NoJob.changed = {} /\ NoJob.row = "due"
        /\ NoJob.cert = NoCert
    BY DEF NoJob, Job, Date
  <2> HIDE DEF NoJob
  <2>2. TypeOK'
    BY <1>2, <2>1 DEF Crash, Excuse, TypeOK
  <2>3. ServedOrOwed' /\ NeverOverstated'
    BY <1>2 DEF Crash, Excuse, ServedOrOwed, NeverOverstated
  <2>4. \A q \in Proc : Ctl(q)' /\ CopyTrue(q)'
    BY <1>2, <2>1 DEF Crash, Ctl, CopyTrue
  <2> QED BY <2>2, <2>3, <2>4
<1> QED BY <1>1, <1>2

LEMMA RenewalStep == IInv /\ [Next]_vars => IInv'
<1> SUFFICES ASSUME IInv, [Next]_vars PROVE IInv'
  OBVIOUS
<1>1. CASE UNCHANGED vars
  BY <1>1 DEF vars, IInv, TypeOK, ServedOrOwed, NeverOverstated, Ctl, CopyTrue
<1>2. CASE Next
  BY <1>2, AgeKeeps, StepKeeps, StartKeeps, SweepKeeps, OthersKeep DEF Next
<1> QED BY <1>1, <1>2

(* Types; a call that writes knows which certificate it writes.              *)
THEOREM RenewalTypes == Spec => []TypeOK
<1>1. IInv => TypeOK
  BY DEF IInv
<1> QED BY <1>1, RenewalInit, RenewalStep, PTL DEF Spec

(* New files reach nginx, or are owed to it, or their call has failed or     *)
(* died; nothing that overlaps takes them off the account.                   *)
THEOREM ReloadIsOwed == Spec => []ServedOrOwed
<1>1. IInv => ServedOrOwed
  BY DEF IInv
<1> QED BY <1>1, RenewalInit, RenewalStep, PTL DEF Spec

(* No row of a certificate of the CA promises a later date than its files    *)
(* have, so the sweep, which goes by these rows, misses none of them.        *)
THEOREM RowsAreTrue == Spec => []NeverOverstated
<1>1. IInv => NeverOverstated
  BY DEF IInv
<1> QED BY <1>1, RenewalInit, RenewalStep, PTL DEF Spec
=============================================================================
