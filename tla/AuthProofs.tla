----------------------------- MODULE AuthProofs -----------------------------
(***************************************************************************)
(* What authentication promises: the accounts with their sessions, then    *)
(* the limiter of failed attempts that stands before them.                 *)
(*                                                                         *)
(* For any users, any number of overlapping requests and any bounds: types *)
(* are kept, a row that demands a second factor has one, and there is      *)
(* never a second system admin nor, once there is one, none that can log   *)
(* in.  And as long as no request saves an account that another is about:  *)
(* accepted sessions are current, disabled accounts have none, epochs do   *)
(* not fall, a second factor is not replaced, a deletion is final.         *)
(*                                                                         *)
(* For every Max, Window and Lock with Lock <= Window: the counter and the *)
(* lock stay within their bounds, a lock that has been set runs its time,  *)
(* and fewer than twice Max failures of any Window go by without one.      *)
(***************************************************************************)
EXTENDS Accounts, Limiter, FiniteSetTheorems, TLAPS

-----------------------------------------------------------------------------
(* The copies of rows *)

(* What a handler makes of a row it has loaded is a row again: it keeps its  *)
(* SystemAdmin mark, only DisableUser disables it, and if it demands a       *)
(* second factor it has one.                                                 *)
LEMMA WantedRow ==
    ASSUME NEW op, NEW row \in Row, HasSecret(row), NEW w \in Wanted(op, row)
    PROVE  /\ w \in Row
           /\ HasSecret(w)
           /\ w.sys = row.sys
           /\ op # "disable" /\ ~row.disabled => ~w.disabled
<1> USE AccountsAssumption DEF Row, HasSecret
<1>1. CASE op = "enroll" /\ ~row.on
  <2>1. PICK k \in Secret : w = [row EXCEPT !.totp = k]
    BY <1>1 DEF Wanted
  <2> QED BY <2>1, <1>1
<1>2. CASE op = "activate" /\ Activatable(row)
  <2>1. w = [row EXCEPT !.on = TRUE]
    BY <1>2 DEF Wanted
  <2> QED BY <2>1, <1>2 DEF Activatable
<1>3. CASE op \in {"changepw", "setpw"}
  <2>1. PICK p \in Password : w = [row EXCEPT !.pw = p]
    BY <1>3 DEF Wanted
  <2> QED BY <2>1
<1>4. CASE op = "rebind"
  <2>1. PICK k \in Secret : w = [row EXCEPT !.pending = k]
    BY <1>4 DEF Wanted
  <2> QED BY <2>1
<1>5. CASE op = "confirm" /\ row.pending # NoSecret
  <2>1. w = [row EXCEPT !.totp = row.pending, !.pending = NoSecret, !.on = TRUE]
    BY <1>5 DEF Wanted
  <2> QED BY <2>1, <1>5
<1>6. CASE op \in {"resettotp", "cli"}
  <2>1. w = [row EXCEPT !.totp = NoSecret, !.on = FALSE]
    BY <1>6 DEF Wanted
  <2> QED BY <2>1
<1>7. CASE op = "disable"
  <2>1. w = [row EXCEPT !.disabled = TRUE]
    BY <1>7 DEF Wanted
  <2> QED BY <2>1, <1>7
<1>8. CASE op = "enable"
  <2>1. w = [row EXCEPT !.disabled = FALSE]
    BY <1>8 DEF Wanted
  <2> QED BY <2>1
<1> QED
  BY <1>1, <1>2, <1>3, <1>4, <1>5, <1>6, <1>7, <1>8 DEF Wanted

(* The same, after the epoch has been raised where the change revokes.       *)
LEMMA ChangedRow ==
    ASSUME NEW op, NEW row \in Row, HasSecret(row), NEW c \in Changed(op, row),
           c.epoch <= MaxEpoch
    PROVE  /\ c \in Row
           /\ HasSecret(c)
           /\ c.sys = row.sys
           /\ op # "disable" /\ ~row.disabled => ~c.disabled
<1>1. CASE op \in Revoking
  <2>1. PICK w \in Wanted(op, row) : c = [w EXCEPT !.epoch = @ + 1]
    BY <1>1 DEF Changed
  <2>2. /\ w \in Row /\ HasSecret(w) /\ w.sys = row.sys
        /\ op # "disable" /\ ~row.disabled => ~w.disabled
    BY WantedRow
  <2>3. c.epoch = w.epoch + 1 /\ w.epoch \in Nat
    BY <2>1, <2>2, AccountsAssumption DEF Row, Epoch
  <2>4. c.epoch \in Epoch
    BY <2>3, AccountsAssumption DEF Epoch
  <2> QED BY <2>1, <2>2, <2>4, AccountsAssumption DEF Row, HasSecret
<1>2. CASE op \notin Revoking
  <2>1. c \in Wanted(op, row)
    BY <1>2 DEF Changed
  <2> QED BY <2>1, WantedRow
<1> QED BY <1>1, <1>2

-----------------------------------------------------------------------------
(* Types *)

(* A request that is under way knows who asks, and has loaded a sound row.   *)
JobOK(r) ==
    pc[r] # "idle" =>
        /\ job[r] \in Job
        /\ job[r].op # "cli" => job[r].tok \in Token
        /\ HasSecret(job[r].row)
        /\ pc[r] = "load" => job[r].row = NoUser
        /\ pc[r] = "store" /\ job[r].op # "delete" => job[r].row \in Row

Types == TypeOK /\ \A r \in Req : JobOK(r)

(* Nothing exists at the first start. *)
LEMMA TypesInit == Init => Types
  BY DEF Init, Types, TypeOK, JobOK, HasSecret

(* A new token is a token. *)
LEMMA IssueType ==
    ASSUME tokens \in SUBSET Token, NEW t \in Token, Issue(t)
    PROVE  tokens' \in SUBSET Token
  BY DEF Issue

(* Every step keeps the types. *)
LEMMA TypesStep == Types /\ [Next]_vars => Types'
<1> SUFFICES ASSUME Types, [Next]_vars PROVE Types'
  OBVIOUS
<1> USE AccountsAssumption
<1>0. TypeOK /\ \A r \in Req : JobOK(r)
  BY DEF Types
<1>1. ASSUME NEW u \in User, Login(u) PROVE Types'
  <2>1. TokenOf(u, users[u], IF users[u].on THEN "totp" ELSE "enroll", users[u].pw, NoSecret) \in Token
    BY <1>0, <1>1 DEF Login, TypeOK, Row, Token, TokenOf, Exists
  <2>2. tokens' \in SUBSET Token
    BY <2>1, <1>0, <1>1, IssueType DEF Login, TypeOK
  <2> QED BY <1>0, <1>1, <2>2 DEF Login, Types, TypeOK, JobOK, HasSecret
<1>2. ASSUME NEW u \in User, NEW p \in Password, Setup(u, p) PROVE Types'
  <2>1. NewRow(TRUE, TRUE, p) \in Row /\ ~NewRow(TRUE, TRUE, p).on
    BY DEF NewRow, Row, Epoch
  <2>2. users' = [users EXCEPT ![u] = NewRow(TRUE, TRUE, p)] /\ users'[u] = NewRow(TRUE, TRUE, p)
    BY <1>0, <1>2 DEF Setup, TypeOK
  <2>3. TokenOf(u, users'[u], "enroll", p, NoSecret) \in Token
    BY <2>1, <2>2 DEF TokenOf, Token, Row
  <2>4. tokens' \in SUBSET Token
    BY <2>3, <1>0, <1>2, IssueType DEF Setup, TypeOK
  <2> QED BY <1>0, <1>2, <2>1, <2>2, <2>4 DEF Setup, Types, TypeOK, JobOK, HasSecret
<1>3. ASSUME NEW t \in tokens, Expire(t) PROVE Types'
  BY <1>0, <1>3 DEF Expire, Types, TypeOK, JobOK, HasSecret
<1>4. ASSUME NEW r \in Req, NEW t \in tokens, NEW u \in User,
             NEW op \in SelfOps \cup AdminOps \cup SysOps, Admit(r, t, op, u)
      PROVE  Types'
  <2>1. op # "cli"
    BY DEF SelfOps, StageOps, AdminOps, SysOps
  <2>2. [op |-> op, tok |-> t, user |-> u, row |-> NoUser] \in Job
    BY <1>0 DEF Job, TypeOK
  <2> QED BY <1>0, <1>4, <2>1, <2>2 DEF Admit, Types, TypeOK, JobOK, HasSecret
<1>5. ASSUME NEW r \in Req, NEW u \in User, Cli(r, u) PROVE Types'
  <2>1. [op |-> "cli", tok |-> NoTok, user |-> u, row |-> NoUser] \in Job
    BY DEF Job
  <2> QED BY <1>0, <1>5, <2>1 DEF Cli, Types, TypeOK, JobOK, HasSecret
<1>6. ASSUME NEW r \in Req, NEW u \in User, NEW admin \in BOOLEAN, NEW p \in Password,
             CreateUser(r, u, admin, p)
      PROVE  Types'
  <2>1. NewRow(FALSE, admin, p) \in Row /\ ~NewRow(FALSE, admin, p).on
    BY DEF NewRow, Row, Epoch
  <2> QED BY <1>0, <1>6, <2>1 DEF CreateUser, Finish, Types, TypeOK, JobOK, HasSecret
<1>7. ASSUME NEW r \in Req, Load(r) PROVE Types'
  <2>1. job[r] \in Job /\ (job[r].op # "cli" => job[r].tok \in Token)
    BY <1>0, <1>7 DEF Load, JobOK
  <2>2. users[Target(r)] \in Row /\ HasSecret(users[Target(r)])
    BY <1>0, <1>7, <2>1 DEF Load, Allows, Exists, Target, Job, TypeOK
  <2>3. PICK row \in Changed(job[r].op, users[Target(r)]) :
          row.epoch <= MaxEpoch /\ job' = [job EXCEPT ![r].row = row]
    BY <1>7 DEF Load
  <2>4. row \in Row /\ HasSecret(row)
    BY <2>2, <2>3, ChangedRow
  <2>5. /\ [job[r] EXCEPT !.row = row] \in Job
        /\ [job[r] EXCEPT !.row = row].op = job[r].op
        /\ [job[r] EXCEPT !.row = row].tok = job[r].tok
        /\ [job[r] EXCEPT !.row = row].row = row
    BY <2>1, <2>4 DEF Job
  <2>6. job' = [job EXCEPT ![r] = [job[r] EXCEPT !.row = row]]
    BY <2>3
  <2> QED BY <1>0, <1>7, <2>1, <2>4, <2>5, <2>6 DEF Load, Types, TypeOK, JobOK, HasSecret
<1>8. ASSUME NEW r \in Req, LoadDelete(r) PROVE Types'
  BY <1>0, <1>8 DEF LoadDelete, Types, TypeOK, JobOK, HasSecret
<1>9. ASSUME NEW r \in Req, Verify(r) PROVE Types'
  <2>1. job[r] \in Job /\ job[r].tok \in Token
    BY <1>0, <1>9 DEF Verify, JobOK
  <2>2. users[Target(r)] \in Row
    BY <1>0, <1>9, <2>1 DEF Verify, Exists, Target, Job, TypeOK
  <2>3. TokenOf(Target(r), users[Target(r)], "full", job[r].tok.pw, users[Target(r)].totp) \in Token
    BY <2>1, <2>2 DEF TokenOf, Token, Row, Target, Job
  <2>4. tokens' \in SUBSET Token
    BY <2>3, <1>0, <1>9, IssueType DEF Verify, TypeOK
  <2> QED BY <1>0, <1>9, <2>4 DEF Verify, Finish, Types, TypeOK, JobOK, HasSecret
<1>10. ASSUME NEW r \in Req, Refuse(r) PROVE Types'
  BY <1>0, <1>10 DEF Refuse, Finish, Types, TypeOK, JobOK, HasSecret
<1>11. ASSUME NEW r \in Req, Store(r) PROVE Types'
  <2>1. /\ job[r] \in Job /\ HasSecret(job[r].row)
        /\ job[r].op # "cli" => job[r].tok \in Token
    BY <1>0, <1>11 DEF Store, JobOK
  <2>2. Target(r) \in User /\ job[r].row \in Row \cup {NoUser}
    BY <2>1 DEF Target, Job
  <2>3. tokens' \in SUBSET Token
    <3>1. CASE job[r].op \notin {"activate", "changepw"}
      BY <3>1, <1>0, <1>11 DEF Store, Reissue, TypeOK
    <3>2. CASE job[r].op = "activate"
      <4>1. job[r].row \in Row /\ job[r].tok \in Token
        BY <3>2, <2>1, <1>0, <1>11 DEF Store, JobOK
      <4>2. TokenOf(Target(r), job[r].row, "full", job[r].tok.pw, job[r].row.totp) \in Token
        BY <4>1, <2>2 DEF TokenOf, Token, Row
      <4>3. Issue(TokenOf(Target(r), job[r].row, "full", job[r].tok.pw, job[r].row.totp))
        BY <3>2, <1>11 DEF Store, Reissue
      <4> QED BY <4>2, <4>3, <1>0, IssueType DEF TypeOK
    <3>3. CASE job[r].op = "changepw"
      <4>1. job[r].row \in Row /\ job[r].tok \in Token
        BY <3>3, <2>1, <1>0, <1>11 DEF Store, JobOK
      <4>2. TokenOf(Target(r), job[r].row, "full", job[r].row.pw, job[r].tok.totp) \in Token
        BY <4>1, <2>2 DEF TokenOf, Token, Row
      <4>3. Issue(TokenOf(Target(r), job[r].row, "full", job[r].row.pw, job[r].tok.totp))
        BY <3>3, <1>11 DEF Store, Reissue
      <4> QED BY <4>2, <4>3, <1>0, IssueType DEF TypeOK
    <3> QED BY <3>1, <3>2, <3>3
  <2> QED BY <1>0, <1>11, <2>1, <2>2, <2>3 DEF Store, Finish, Types, TypeOK, JobOK, HasSecret
<1>12. CASE UNCHANGED vars
  BY <1>0, <1>12 DEF vars, Types, TypeOK, JobOK, HasSecret
<1> QED
  BY <1>1, <1>2, <1>3, <1>4, <1>5, <1>6, <1>7, <1>8, <1>9, <1>10, <1>11, <1>12 DEF Next

(* Every reachable state is well typed, and a row that demands a second     *)
(* factor has one.                                                          *)
THEOREM AccountsTypes == Spec => []TypeOK
<1>1. Types => TypeOK
  BY DEF Types
<1> QED
  BY <1>1, TypesInit, TypesStep, PTL DEF Spec

-----------------------------------------------------------------------------
(* The system admin *)

(* A row that is about to be saved says of its user's SystemAdmin mark what  *)
(* the database says, even if other requests have saved in between; and one  *)
(* that is about to be deleted is not the system admin's.                    *)
StoreOK(r) ==
    pc[r] = "store" =>
        /\ Target(r) \in used
        /\ job[r].row = NoUser => Target(r) \notin SysAdmins
        /\ job[r].row # NoUser => /\ job[r].row.sys <=> Target(r) \in SysAdmins
                                  /\ job[r].row.sys => ~job[r].row.disabled

SysInv ==
    /\ Types
    /\ \A u \in User : Exists(u) => u \in used
    /\ OneSystemAdmin
    /\ \A u \in SysAdmins : ~users[u].disabled
    /\ \A r \in Req : StoreOK(r)

(* Nobody is there at the first start. *)
LEMMA SysInit == Init => SysInv
<1> SUFFICES ASSUME Init PROVE SysInv
  OBVIOUS
<1>1. \A u \in User : ~Exists(u)
  BY DEF Init, Exists
<1> QED BY <1>1, TypesInit DEF Init, SysInv, OneSystemAdmin, SysAdmins, StoreOK

(* A step that leaves rows and jobs alone keeps the invariant. *)
LEMMA SysQuiet ==
    ASSUME SysInv, Types', UNCHANGED <<users, used>>,
           \A r \in Req : pc'[r] = "store" => pc[r] = "store" /\ job'[r] = job[r]
    PROVE  SysInv'
<1>1. SysAdmins' = SysAdmins
  BY DEF SysAdmins, Exists
<1>2. \A r \in Req : StoreOK(r)'
  BY <1>1 DEF SysInv, StoreOK, Target
<1> QED BY <1>1, <1>2 DEF SysInv, OneSystemAdmin, Exists

(* Every step keeps the invariant. *)
LEMMA SysStep == SysInv /\ [Next]_vars => SysInv'
<1> SUFFICES ASSUME SysInv, [Next]_vars PROVE SysInv'
  OBVIOUS
<1> USE AccountsAssumption
<1>0. Types' /\ TypeOK /\ \A r \in Req : JobOK(r) /\ StoreOK(r)
  BY TypesStep DEF SysInv, Types
<1>1. ASSUME NEW u \in User, Login(u) PROVE SysInv'
  BY <1>0, <1>1, SysQuiet DEF Login
<1>2. ASSUME NEW u \in User, NEW p \in Password, Setup(u, p) PROVE SysInv'
  <2>1. used = {}
    BY <1>2 DEF Setup, SysInv, OneSystemAdmin, SysAdmins
  <2>2. NewRow(TRUE, TRUE, p) \in Row
    BY DEF NewRow, Row, Epoch
  <2>3. \A v \in User : users'[v] = IF v = u THEN NewRow(TRUE, TRUE, p) ELSE NoUser
    <3>1. users' = [users EXCEPT ![u] = NewRow(TRUE, TRUE, p)]
      BY <1>2 DEF Setup
    <3>2. users \in [User -> Row \cup {NoUser}]
      BY <1>0 DEF TypeOK
    <3>3. \A v \in User : users[v] = NoUser
      BY <1>2 DEF Setup, Exists
    <3> HIDE AccountsAssumption
    <3> QED BY <3>1, <3>2, <3>3
  <2>4. SysAdmins' = {u} /\ ~users'[u].disabled
    <3>1. users'[u].sys /\ ~users'[u].disabled
      BY <2>3 DEF NewRow
    <3>2. users'[u] # NoUser
      BY <2>2, <2>3
    <3>3. \A v \in User : v # u => users'[v] = NoUser
      BY <2>3
    <3> QED BY <3>1, <3>2, <3>3 DEF SysAdmins, Exists
  <2>5. \A r \in Req : pc'[r] # "store"
    BY <2>1, <1>0, <1>2 DEF Setup, StoreOK
  <2>6. \A v \in User : Exists(v)' => v \in used'
    BY <2>3, <1>2 DEF Setup, Exists
  <2> QED BY <1>0, <2>4, <2>5, <2>6 DEF SysInv, OneSystemAdmin, StoreOK
<1>3. ASSUME NEW t \in tokens, Expire(t) PROVE SysInv'
  BY <1>0, <1>3, SysQuiet DEF Expire
<1>4. ASSUME NEW r \in Req, NEW t \in tokens, NEW u \in User,
             NEW op \in SelfOps \cup AdminOps \cup SysOps, Admit(r, t, op, u)
      PROVE  SysInv'
  BY <1>0, <1>4, SysQuiet DEF Admit, TypeOK
<1>5. ASSUME NEW r \in Req, NEW u \in User, Cli(r, u) PROVE SysInv'
  BY <1>0, <1>5, SysQuiet DEF Cli, TypeOK
<1>6. ASSUME NEW r \in Req, NEW u \in User, NEW admin \in BOOLEAN, NEW p \in Password,
             CreateUser(r, u, admin, p)
      PROVE  SysInv'
  <2>1. NewRow(FALSE, admin, p) \in Row
    BY DEF NewRow, Row, Epoch
  <2>2. /\ users' = [users EXCEPT ![u] = NewRow(FALSE, admin, p)]
        /\ used' = used \cup {u} /\ u \notin used /\ ~Exists(u)
    BY <1>6 DEF CreateUser, SysInv
  <2>3. \A v \in User : v # u => users'[v] = users[v]
    BY <2>2, <1>0 DEF TypeOK
  <2>4. users'[u] = NewRow(FALSE, admin, p) /\ ~users'[u].sys
    BY <2>2, <1>0 DEF TypeOK, NewRow
  <2>5. SysAdmins' = SysAdmins
    BY <2>2, <2>3, <2>4 DEF SysAdmins, Exists
  <2>6. \A v \in SysAdmins : users'[v] = users[v]
    BY <2>2, <2>3 DEF SysAdmins
  <2>7. \A q \in Req : StoreOK(q)'
    BY <1>0, <1>6, <2>2, <2>5 DEF CreateUser, Finish, StoreOK, Target, TypeOK
  <2>8. used # {}
    BY <1>6, <1>0 DEF CreateUser, SysInv, Exists, Asker, JobOK, Job, Token
  <2> QED BY <1>0, <2>2, <2>3, <2>5, <2>6, <2>7, <2>8 DEF SysInv, OneSystemAdmin, Exists
<1>7. ASSUME NEW r \in Req, Load(r) PROVE SysInv'
  <2>1. job[r] \in Job
    BY <1>0, <1>7 DEF Load, JobOK
  <2>2. /\ Target(r) \in User /\ Exists(Target(r))
        /\ users[Target(r)] \in Row /\ HasSecret(users[Target(r)])
    BY <1>0, <1>7, <2>1 DEF Load, Allows, Exists, Target, Job, TypeOK
  <2>3. PICK row \in Changed(job[r].op, users[Target(r)]) :
          row.epoch <= MaxEpoch /\ job' = [job EXCEPT ![r].row = row]
    BY <1>7 DEF Load
  <2>4. /\ row \in Row
        /\ row.sys = users[Target(r)].sys
        /\ job[r].op # "disable" /\ ~users[Target(r)].disabled => ~row.disabled
    BY <2>2, <2>3, ChangedRow
  <2>5. row.sys <=> Target(r) \in SysAdmins
    BY <2>2, <2>4 DEF SysAdmins, Row
  <2>6. row.sys => ~row.disabled
    <3>1. job[r].op = "disable" => ~users[Target(r)].sys
      BY <1>7 DEF Load, Allows, Permitted, Spared
    <3> QED BY <3>1, <2>4, <2>5 DEF SysInv
  <2>7. /\ job'[r].row = row /\ job'[r].user = job[r].user
        /\ \A q \in Req : q # r => job'[q] = job[q] /\ pc'[q] = pc[q]
    BY <2>1, <2>3, <1>0, <1>7 DEF Load, TypeOK, Job
  <2>8. SysAdmins' = SysAdmins /\ users' = users /\ used' = used
    BY <1>7 DEF Load, SysAdmins, Exists
  <2>9. StoreOK(r)'
    BY <2>2, <2>4, <2>5, <2>6, <2>7, <2>8 DEF StoreOK, Target, SysInv
  <2>10. \A q \in Req : q # r => StoreOK(q)'
    BY <1>0, <2>7, <2>8 DEF StoreOK, Target
  <2> QED BY <1>0, <2>8, <2>9, <2>10 DEF SysInv, OneSystemAdmin, Exists
<1>8. ASSUME NEW r \in Req, LoadDelete(r) PROVE SysInv'
  <2>1. job[r] \in Job /\ job[r].row = NoUser
    BY <1>0, <1>8 DEF LoadDelete, JobOK
  <2>2. Target(r) \in User /\ Exists(Target(r)) /\ ~users[Target(r)].sys
    BY <2>1, <1>8 DEF LoadDelete, Allows, Permitted, Spared, Target, Job
  <2>3. SysAdmins' = SysAdmins /\ users' = users /\ used' = used /\ job' = job
    BY <1>8 DEF LoadDelete, SysAdmins, Exists
  <2>4. StoreOK(r)'
    BY <2>1, <2>2, <2>3 DEF StoreOK, Target, SysInv, SysAdmins
  <2>5. \A q \in Req : q # r => StoreOK(q)'
    BY <1>0, <1>8, <2>3 DEF LoadDelete, StoreOK, Target, TypeOK
  <2> QED BY <1>0, <2>3, <2>4, <2>5 DEF SysInv, OneSystemAdmin, Exists
<1>9. ASSUME NEW r \in Req, Verify(r) PROVE SysInv'
  BY <1>0, <1>9, SysQuiet DEF Verify, Finish, TypeOK
<1>10. ASSUME NEW r \in Req, Refuse(r) PROVE SysInv'
  BY <1>0, <1>10, SysQuiet DEF Refuse, Finish, TypeOK
<1>11. ASSUME NEW r \in Req, Store(r) PROVE SysInv'
  <2>1. job[r] \in Job /\ StoreOK(r) /\ pc[r] = "store"
    BY <1>0, <1>11 DEF Store, JobOK
  <2>2. /\ Target(r) \in User /\ Target(r) \in used
        /\ job[r].row = NoUser => Target(r) \notin SysAdmins
        /\ job[r].row # NoUser => /\ job[r].row.sys <=> Target(r) \in SysAdmins
                                  /\ job[r].row.sys => ~job[r].row.disabled
    BY <2>1 DEF StoreOK, Target, Job
  <2>3. /\ users' = [users EXCEPT ![Target(r)] = job[r].row]
        /\ users'[Target(r)] = job[r].row
        /\ \A v \in User : v # Target(r) => users'[v] = users[v]
        /\ used' = used
    BY <2>2, <1>0, <1>11 DEF Store, TypeOK
  <2>4. SysAdmins' = SysAdmins
    BY <2>2, <2>3 DEF SysAdmins, Exists
  <2>5. \A v \in SysAdmins : ~users'[v].disabled
    BY <2>2, <2>3 DEF SysInv, SysAdmins, Exists
  <2>6. \A q \in Req : StoreOK(q)'
    BY <1>0, <1>11, <2>3, <2>4 DEF Store, Finish, StoreOK, Target, TypeOK
  <2>7. \A v \in User : Exists(v)' => v \in used'
    BY <2>2, <2>3 DEF SysInv, Exists
  <2> QED BY <1>0, <2>3, <2>4, <2>5, <2>6, <2>7 DEF SysInv, OneSystemAdmin
<1>12. CASE UNCHANGED vars
  BY <1>0, <1>12, SysQuiet DEF vars
<1> QED
  BY <1>1, <1>2, <1>3, <1>4, <1>5, <1>6, <1>7, <1>8, <1>9, <1>10, <1>11, <1>12 DEF Next

(* However many requests overlap, and whatever stale copies they save, there *)
(* is never a second system admin, and from the setup on there is one that   *)
(* is not disabled.                                                          *)
THEOREM SystemAdminIsOne == Spec => []OneSystemAdmin
<1>1. SysInv => OneSystemAdmin
  BY DEF SysInv
<1> QED
  BY <1>1, SysInit, SysStep, PTL DEF Spec

-----------------------------------------------------------------------------
(* Sessions, as long as no two requests under way are about one account *)

(* What changes of a row without its epoch: neither the password nor, once   *)
(* enrolled, the second factor, and the account is not disabled.             *)
Kept(row, w) ==
    /\ w.pw = row.pw
    /\ w.disabled => row.disabled
    /\ row.on => w.on /\ w.totp = row.totp

(* A handler wants a row of the same epoch; one that revokes nothing keeps   *)
(* what sessions have proved.                                                *)
LEMMA WantedKeeps ==
    ASSUME NEW op, NEW row \in Row, NEW w \in Wanted(op, row)
    PROVE  /\ w.epoch = row.epoch
           /\ op \notin Revoking => Kept(row, w)
           /\ op = "activate" => w.on
           /\ op = "changepw" => w.disabled = row.disabled /\ w.on = row.on /\ w.totp = row.totp
<1> USE DEF Row, Kept
<1>1. CASE op = "enroll" /\ ~row.on
  <2>1. PICK k \in Secret : w = [row EXCEPT !.totp = k]
    BY <1>1 DEF Wanted
  <2> QED BY <2>1, <1>1
<1>2. CASE op = "activate" /\ Activatable(row)
  <2>1. w = [row EXCEPT !.on = TRUE]
    BY <1>2 DEF Wanted
  <2> QED BY <2>1, <1>2
<1>3. CASE op \in {"changepw", "setpw"}
  <2>1. PICK p \in Password : w = [row EXCEPT !.pw = p]
    BY <1>3 DEF Wanted
  <2> QED BY <2>1, <1>3 DEF Revoking
<1>4. CASE op = "rebind"
  <2>1. PICK k \in Secret : w = [row EXCEPT !.pending = k]
    BY <1>4 DEF Wanted
  <2> QED BY <2>1, <1>4
<1>5. CASE op = "confirm" /\ row.pending # NoSecret
  <2>1. w = [row EXCEPT !.totp = row.pending, !.pending = NoSecret, !.on = TRUE]
    BY <1>5 DEF Wanted
  <2> QED BY <2>1, <1>5 DEF Revoking
<1>6. CASE op \in {"resettotp", "cli"}
  <2>1. w = [row EXCEPT !.totp = NoSecret, !.on = FALSE]
    BY <1>6 DEF Wanted
  <2> QED BY <2>1, <1>6 DEF Revoking
<1>7. CASE op = "disable"
  <2>1. w = [row EXCEPT !.disabled = TRUE]
    BY <1>7 DEF Wanted
  <2> QED BY <2>1, <1>7 DEF Revoking
<1>8. CASE op = "enable"
  <2>1. w = [row EXCEPT !.disabled = FALSE]
    BY <1>8 DEF Wanted
  <2> QED BY <2>1, <1>8
<1> QED
  BY <1>1, <1>2, <1>3, <1>4, <1>5, <1>6, <1>7, <1>8 DEF Wanted

(* So a changed row either has the next epoch or keeps what sessions have    *)
(* proved.                                                                   *)
LEMMA ChangedKeeps ==
    ASSUME NEW op, NEW row \in Row, HasSecret(row), NEW c \in Changed(op, row)
    PROVE  /\ c.epoch = row.epoch + 1 \/ (c.epoch = row.epoch /\ Kept(row, c))
           /\ op = "activate" => c.on /\ c.epoch = row.epoch
           /\ op = "changepw" => /\ c.disabled = row.disabled
                                 /\ c.on = row.on /\ c.totp = row.totp
                                 /\ c.epoch = row.epoch + 1
<1>1. CASE op \in Revoking
  <2>1. PICK w \in Wanted(op, row) : c = [w EXCEPT !.epoch = @ + 1]
    BY <1>1 DEF Changed
  <2>2. w \in Row /\ w.epoch = row.epoch
    BY WantedRow, WantedKeeps
  <2>3. c.epoch = row.epoch + 1 /\ c.disabled = w.disabled /\ c.on = w.on /\ c.totp = w.totp
    BY <2>1, <2>2 DEF Row
  <2> QED BY <2>3, <1>1, WantedKeeps DEF Revoking
<1>2. CASE op \notin Revoking
  <2>1. c \in Wanted(op, row)
    BY <1>2 DEF Changed
  <2> QED BY <2>1, <1>2, WantedKeeps DEF Revoking
<1> QED BY <1>1, <1>2

(* What an accepted session has proved, and that it is not disabled. *)
Fits(t) ==
    LET row == users[t.user] IN
    /\ t.pw = row.pw
    /\ ~row.disabled
    /\ t.stage = "full" => row.on /\ t.totp = row.totp

(* Every session is of an epoch its user has reached. *)
Known(t) ==
    /\ t.user \in used
    /\ Exists(t.user) => t.epoch <= users[t.user].epoch
    /\ Current(t) => Fits(t)

(* A request about one's own account has been admitted with a session that   *)
(* is still accepted, whether or not the browser still has it.               *)
Asking(r) ==
    pc[r] # "idle" /\ job[r].op \in SelfOps =>
        /\ job[r].tok.user = Target(r)
        /\ job[r].tok.stage = StageOf(job[r].op)
        /\ Current(job[r].tok) /\ Fits(job[r].tok)

(* The row about to be saved is a change of the one the database has. *)
Saving(r) ==
    pc[r] = "store" =>
        /\ job[r].op \notin {"create", "verify"}
        /\ Exists(Target(r)) /\ Target(r) \in User
        /\ job[r].op = "delete" => job[r].row = NoUser
        /\ job[r].op # "delete" => job[r].row \in Changed(job[r].op, users[Target(r)])

SessionInv ==
    /\ \A u \in User : Exists(u) => u \in used
    /\ \A t \in tokens : Known(t)
    /\ \A r \in Req : Asking(r) /\ Saving(r)

(* Nobody has a session at the first start. *)
LEMMA SessionInit == Init => SessionInv
  BY DEF Init, SessionInv, Exists, Asking, Saving

(* A session is accepted of the epoch of its row only. *)
LEMMA CurrentFits ==
    ASSUME NEW t \in Token, t.user \in used, Exists(t.user),
           t.epoch = users[t.user].epoch, users[t.user] \in Row, Fits(t)
    PROVE  Known(t)
  BY AccountsAssumption DEF Known, Row, Epoch

(* Whoever leaves rows and requests alone and adds only sessions that fit    *)
(* keeps the invariant.                                                      *)
LEMMA SessionQuiet ==
    ASSUME SessionInv, UNCHANGED <<users, used>>,
           \A t \in tokens' : t \in tokens \/ Known(t)',
           \A r \in Req : pc'[r] # "idle" => pc'[r] = pc[r] /\ job'[r] = job[r]
    PROVE  SessionInv'
<1>1. \A t \in tokens : Known(t)'
  BY DEF SessionInv, Known, Current, Exists, Fits
<1>2. \A r \in Req : Asking(r)' /\ Saving(r)'
  BY DEF SessionInv, Asking, Saving, Current, Exists, Fits, Target
<1>3. \A u \in User : Exists(u)' => u \in used'
  BY DEF SessionInv, Exists
<1> QED BY <1>1, <1>2, <1>3 DEF SessionInv

(* A new row of an id that was never given out disturbs nobody. *)
LEMMA SessionNew ==
    ASSUME SessionInv, Types, NEW u \in User, NEW row \in Row, u \notin used,
           users' = [users EXCEPT ![u] = row], used' = used \cup {u},
           \A t \in tokens' : t \in tokens \/ Known(t)',
           \A r \in Req : pc'[r] # "idle" => pc'[r] = pc[r] /\ job'[r] = job[r]
    PROVE  SessionInv'
<1>0. /\ users'[u] = row /\ ~Exists(u)
      /\ \A v \in User : v # u => users'[v] = users[v]
      /\ tokens \subseteq Token
  BY DEF Types, TypeOK, SessionInv
<1>1. ASSUME NEW t \in tokens PROVE Known(t)'
  <2>1. t.user # u /\ t.user \in User
    BY <1>0 DEF SessionInv, Known, Token
  <2>2. users'[t.user] = users[t.user]
    BY <1>0, <2>1
  <2> QED BY <2>2 DEF SessionInv, Known, Current, Exists, Fits
<1>2. ASSUME NEW r \in Req, pc'[r] # "idle" PROVE Asking(r)' /\ Saving(r)'
  <2>1. pc'[r] = pc[r] /\ job'[r] = job[r] /\ Target(r)' = Target(r)
    BY <1>2 DEF Target
  <2>2. job[r].op \in SelfOps =>
          job[r].tok.user = Target(r) /\ Exists(Target(r)) /\ Target(r) \in User
    BY <1>2, <2>1 DEF SessionInv, Asking, Current, Types, JobOK, Job, Target
  <2>3. pc[r] = "store" => Exists(Target(r)) /\ Target(r) \in User
    BY <1>2 DEF SessionInv, Saving
  <2>4. Exists(Target(r)) /\ Target(r) \in User => users'[Target(r)] = users[Target(r)]
    BY <1>0
  <2>5. Asking(r)'
    BY <2>1, <2>2, <2>4 DEF SessionInv, Asking, Current, Exists, Fits
  <2>6. Saving(r)'
    BY <2>1, <2>3, <2>4 DEF SessionInv, Saving, Exists
  <2> QED BY <2>5, <2>6
<1>3. \A v \in User : Exists(v)' => v \in used'
  BY <1>0 DEF SessionInv, Exists
<1>4. \A r \in Req : pc'[r] = "idle" => Asking(r)' /\ Saving(r)'
  BY DEF Asking, Saving
<1> QED BY <1>1, <1>2, <1>3, <1>4 DEF SessionInv

(* What no lock in the code sees to: of two requests under way about one     *)
(* account neither is to save it.  (A creation is about no account; the      *)
(* verification of a code saves none.)                                       *)
Apart ==
    \A p, q \in Req :
        /\ p # q /\ pc[p] # "idle" /\ pc[q] # "idle"
        /\ job[p].op \notin {"create", "verify"} /\ job[q].op # "create"
        => Target(p) # Target(q)

(* Only some operations change a row that they have loaded. *)
LEMMA ChangingOps ==
    ASSUME NEW op, NEW row, NEW c \in Changed(op, row)
    PROVE  op \notin {"create", "verify", "delete"}
  BY DEF Changed, Wanted, Revoking

(* A saved change leaves no session accepted that does not fit the new row. *)
LEMMA KnownAfterChange ==
    ASSUME NEW t \in Token, Known(t), Exists(t.user),
           users[t.user] \in Row, users'[t.user] \in Row, used' = used,
           \/ users'[t.user].epoch = users[t.user].epoch + 1
           \/ /\ users'[t.user].epoch = users[t.user].epoch
              /\ Kept(users[t.user], users'[t.user])
    PROVE  Known(t)'
<1>1. /\ t.epoch \in Nat /\ users[t.user].epoch \in Nat
      /\ t.epoch <= users[t.user].epoch /\ t.user \in used'
  BY AccountsAssumption DEF Known, Token, Row, Epoch
<1>2. CASE users'[t.user].epoch = users[t.user].epoch + 1
  <2>1. t.epoch <= users'[t.user].epoch /\ t.epoch # users'[t.user].epoch
    BY <1>1, <1>2
  <2> QED BY <1>1, <2>1 DEF Known, Current
<1>3. CASE /\ users'[t.user].epoch = users[t.user].epoch
           /\ Kept(users[t.user], users'[t.user])
  <2>1. Current(t)' => Current(t)
    BY <1>3 DEF Current, Exists
  <2>2. Fits(t) => Fits(t)'
    BY <1>3 DEF Fits, Kept
  <2> QED BY <1>1, <1>3, <2>1, <2>2 DEF Known
<1> QED BY <1>2, <1>3

(* Every step keeps the invariant, if the requests are apart. *)
LEMMA SessionStep == Types /\ SessionInv /\ Apart /\ [Next]_vars => SessionInv'
<1> SUFFICES ASSUME Types, SessionInv, Apart, [Next]_vars PROVE SessionInv'
  OBVIOUS
<1> USE AccountsAssumption
<1>0. /\ Types' /\ TypeOK /\ tokens \subseteq Token
      /\ \A r \in Req : JobOK(r) /\ Asking(r) /\ Saving(r)
  BY TypesStep DEF SessionInv, Types, TypeOK
<1>1. ASSUME NEW u \in User, Login(u) PROVE SessionInv'
  <2>0. PICK t : t = TokenOf(u, users[u], IF users[u].on THEN "totp" ELSE "enroll",
                             users[u].pw, NoSecret)
    OBVIOUS
  <2>1. UNCHANGED <<users, used, pc, job>> /\ tokens' = tokens \cup {t}
    BY <1>1, <2>0 DEF Login, Issue
  <2>2. /\ Exists(u) /\ ~users[u].disabled /\ u \in used /\ users[u] \in Row
    BY <1>0, <1>1 DEF Login, SessionInv, Exists, TypeOK
  <2>3. t.user = u /\ t.epoch = users[u].epoch /\ t.pw = users[u].pw /\ t.stage # "full"
    BY <2>0 DEF TokenOf
  <2>4. users[u].epoch <= users[u].epoch
    BY <2>2 DEF Row, Epoch
  <2>5. Known(t)'
    BY <2>1, <2>2, <2>3, <2>4 DEF Known, Current, Exists, Fits
  <2> QED BY <2>1, <2>5, SessionQuiet
<1>2. ASSUME NEW u \in User, NEW p \in Password, Setup(u, p) PROVE SessionInv'
  <2> DEFINE row == NewRow(TRUE, TRUE, p)
             t == TokenOf(u, row, "enroll", p, NoSecret)
  <2>1. /\ users' = [users EXCEPT ![u] = row] /\ used' = used \cup {u} /\ u \notin used
        /\ tokens' = tokens \cup {TokenOf(u, users'[u], "enroll", p, NoSecret)}
        /\ UNCHANGED <<pc, job>>
    BY <1>2 DEF Setup, Issue
  <2>2. row \in Row /\ row.pw = p /\ ~row.disabled /\ row.epoch <= row.epoch
    BY DEF NewRow, Row, Epoch
  <2>3. t.user = u /\ t.epoch = row.epoch /\ t.pw = p /\ t.stage # "full"
    BY DEF TokenOf
  <2> HIDE DEF row
  <2>4. users'[u] = row /\ tokens' = tokens \cup {t}
    BY <2>1, <1>0 DEF TypeOK
  <2> HIDE DEF t
  <2>5. Known(t)'
    BY <2>1, <2>2, <2>3, <2>4 DEF Known, Current, Exists, Fits
  <2> QED BY <2>1, <2>2, <2>4, <2>5, SessionNew
<1>3. ASSUME NEW t \in tokens, Expire(t) PROVE SessionInv'
  BY <1>3, SessionQuiet DEF Expire
<1>4. ASSUME NEW r \in Req, NEW t \in tokens, NEW u \in User,
             NEW op \in SelfOps \cup AdminOps \cup SysOps, Admit(r, t, op, u)
      PROVE  SessionInv'
  <2>1. /\ UNCHANGED <<users, used, tokens>>
        /\ pc'[r] = "load" /\ job'[r].op = op /\ job'[r].tok = t /\ job'[r].user = u
        /\ \A q \in Req : q # r => pc'[q] = pc[q] /\ job'[q] = job[q]
    BY <1>0, <1>4 DEF Admit, TypeOK
  <2>2. Current(t) /\ t.stage = StageOf(op) /\ (op \in SelfOps => u = t.user) /\ Known(t)
    BY <1>4 DEF Admit, Passes, SessionInv
  <2>3. Current(t)' /\ Fits(t)'
    BY <2>1, <2>2 DEF Known, Current, Exists, Fits
  <2>4. Asking(r)' /\ Saving(r)'
    BY <2>1, <2>2, <2>3 DEF Asking, Saving, Target
  <2>5. \A q \in Req : q # r => Asking(q)' /\ Saving(q)'
    BY <1>0, <2>1 DEF Asking, Saving, Target, Current, Exists, Fits
  <2>6. \A s \in tokens : Known(s)'
    BY <2>1 DEF SessionInv, Known, Current, Exists, Fits
  <2> QED BY <2>1, <2>4, <2>5, <2>6 DEF SessionInv, Exists
<1>5. ASSUME NEW r \in Req, NEW u \in User, Cli(r, u) PROVE SessionInv'
  <2>1. /\ UNCHANGED <<users, used, tokens>>
        /\ pc'[r] = "load" /\ job'[r].op = "cli"
        /\ \A q \in Req : q # r => pc'[q] = pc[q] /\ job'[q] = job[q]
    BY <1>0, <1>5 DEF Cli, TypeOK
  <2>2. Asking(r)' /\ Saving(r)'
    BY <2>1 DEF Asking, Saving, SelfOps, StageOps
  <2>3. \A q \in Req : q # r => Asking(q)' /\ Saving(q)'
    BY <1>0, <2>1 DEF Asking, Saving, Target, Current, Exists, Fits
  <2>4. \A s \in tokens : Known(s)'
    BY <2>1 DEF SessionInv, Known, Current, Exists, Fits
  <2> QED BY <2>1, <2>2, <2>3, <2>4 DEF SessionInv, Exists
<1>6. ASSUME NEW r \in Req, NEW u \in User, NEW admin \in BOOLEAN, NEW p \in Password,
             CreateUser(r, u, admin, p)
      PROVE  SessionInv'
  <2>1. NewRow(FALSE, admin, p) \in Row
    BY DEF NewRow, Row, Epoch
  <2>2. \A q \in Req : pc'[q] # "idle" => pc'[q] = pc[q] /\ job'[q] = job[q]
    BY <1>0, <1>6 DEF CreateUser, Finish, TypeOK
  <2> QED BY <1>6, <2>1, <2>2, SessionNew DEF CreateUser
<1>7. ASSUME NEW r \in Req, Load(r) PROVE SessionInv'
  <2>1. job[r] \in Job
    BY <1>0, <1>7 DEF Load, JobOK
  <2>2. PICK row \in Changed(job[r].op, users[Target(r)]) : job' = [job EXCEPT ![r].row = row]
    BY <1>7 DEF Load
  <2>3. /\ UNCHANGED <<users, used, tokens>>
        /\ pc'[r] = "store" /\ pc[r] = "load"
        /\ job'[r].op = job[r].op /\ job'[r].tok = job[r].tok /\ job'[r].user = job[r].user
        /\ job'[r].row = row
        /\ \A q \in Req : q # r => pc'[q] = pc[q] /\ job'[q] = job[q]
    BY <1>0, <1>7, <2>1, <2>2 DEF Load, TypeOK, Job
  <2>4. Exists(Target(r)) /\ Target(r) \in User
    BY <1>7, <2>1 DEF Load, Allows, Target, Job
  <2>5. job[r].op \notin {"create", "verify", "delete"}
    BY <2>2, ChangingOps
  <2>6. Saving(r)'
    BY <2>2, <2>3, <2>4, <2>5 DEF Saving, Target, Exists
  <2>7. Asking(r)'
    BY <1>0, <2>3 DEF Asking, Target, Current, Exists, Fits
  <2>8. \A q \in Req : q # r => Asking(q)' /\ Saving(q)'
    BY <1>0, <2>3 DEF Asking, Saving, Target, Current, Exists, Fits
  <2>9. \A s \in tokens : Known(s)'
    BY <2>3 DEF SessionInv, Known, Current, Exists, Fits
  <2> QED BY <2>3, <2>6, <2>7, <2>8, <2>9 DEF SessionInv, Exists
<1>8. ASSUME NEW r \in Req, LoadDelete(r) PROVE SessionInv'
  <2>1. job[r] \in Job /\ job[r].row = NoUser
    BY <1>0, <1>8 DEF LoadDelete, JobOK
  <2>2. /\ UNCHANGED <<users, used, tokens, job>> /\ job[r].op = "delete" /\ pc[r] = "load"
        /\ \A q \in Req : q # r => pc'[q] = pc[q]
    BY <1>0, <1>8 DEF LoadDelete, TypeOK
  <2>3. Exists(Target(r)) /\ Target(r) \in User
    BY <1>8, <2>1 DEF LoadDelete, Allows, Target, Job
  <2>4. Asking(r)' /\ Saving(r)'
    BY <2>1, <2>2, <2>3 DEF Asking, Saving, Target, Exists, SelfOps, StageOps
  <2>5. \A q \in Req : q # r => Asking(q)' /\ Saving(q)'
    BY <1>0, <2>2 DEF Asking, Saving, Target, Current, Exists, Fits
  <2>6. \A s \in tokens : Known(s)'
    BY <2>2 DEF SessionInv, Known, Current, Exists, Fits
  <2> QED BY <2>2, <2>4, <2>5, <2>6 DEF SessionInv, Exists
<1>9. ASSUME NEW r \in Req, Verify(r) PROVE SessionInv'
  <2>0. PICK t : t = TokenOf(Target(r), users[Target(r)], "full", job[r].tok.pw,
                             users[Target(r)].totp)
    OBVIOUS
  <2>1. /\ UNCHANGED <<users, used>> /\ tokens' = tokens \cup {t}
        /\ \A q \in Req : pc'[q] # "idle" => pc'[q] = pc[q] /\ job'[q] = job[q]
        /\ Exists(Target(r)) /\ users[Target(r)].on
    BY <1>0, <1>9, <2>0 DEF Verify, Finish, Issue, TypeOK
  <2>2. job[r].tok.user = Target(r) /\ Fits(job[r].tok)
    BY <1>0, <1>9 DEF Verify, Asking, SelfOps, StageOps
  <2>3. Target(r) \in User /\ Target(r) \in used /\ users[Target(r)] \in Row
    BY <1>0, <1>9, <2>1 DEF Verify, JobOK, Job, Target, SessionInv, TypeOK, Exists
  <2>4. /\ t.user = Target(r) /\ t.epoch = users[Target(r)].epoch /\ t.pw = job[r].tok.pw
        /\ t.totp = users[Target(r)].totp
    BY <2>0 DEF TokenOf
  <2>5. users[Target(r)].epoch <= users[Target(r)].epoch
    BY <2>3 DEF Row, Epoch
  <2>6. Known(t)'
    BY <2>1, <2>2, <2>3, <2>4, <2>5 DEF Known, Current, Exists, Fits
  <2> QED BY <2>1, <2>6, SessionQuiet
<1>10. ASSUME NEW r \in Req, Refuse(r) PROVE SessionInv'
  BY <1>0, <1>10, SessionQuiet DEF Refuse, Finish, TypeOK
<1>11. ASSUME NEW r \in Req, Store(r) PROVE SessionInv'
  <2> DEFINE u == Target(r)
             row == users[u]
             new == job[r].row
             op == job[r].op
  <2>1. /\ pc[r] = "store" /\ op \notin {"create", "verify"} /\ Exists(u) /\ u \in User
        /\ op = "delete" => new = NoUser
        /\ op # "delete" => new \in Changed(op, row)
        /\ row \in Row /\ HasSecret(row) /\ job[r] \in Job /\ u \in used
    BY <1>0, <1>11 DEF Store, Saving, JobOK, SessionInv, TypeOK, Exists
  <2>2. /\ users'[u] = new /\ used' = used
        /\ \A v \in User : v # u => users'[v] = users[v]
        /\ \A q \in Req : q # r => pc'[q] = pc[q] /\ job'[q] = job[q]
        /\ pc'[r] = "idle"
    BY <1>0, <1>11, <2>1 DEF Store, Finish, TypeOK
  <2>3. op # "delete" => new \in Row
    BY <1>0, <2>1 DEF JobOK
  <2>4. op # "delete" => \/ new.epoch = row.epoch + 1
                         \/ new.epoch = row.epoch /\ Kept(row, new)
    BY <2>1, ChangedKeeps
  <2>5. ASSUME NEW t \in tokens PROVE Known(t)'
    <3>1. t \in Token /\ Known(t) /\ t.user \in User
      BY <1>0 DEF SessionInv, Token
    <3>2. CASE t.user # u
      BY <2>2, <3>1, <3>2 DEF Known, Current, Exists, Fits
    <3>3. CASE t.user = u /\ op = "delete"
      BY <2>1, <2>2, <3>1, <3>3 DEF Known, Current, Exists
    <3>4. CASE t.user = u /\ op # "delete"
      BY <2>1, <2>2, <2>3, <2>4, <3>1, <3>4, KnownAfterChange
    <3> QED BY <3>2, <3>3, <3>4
  <2>6. ASSUME NEW q \in Req PROVE Asking(q)' /\ Saving(q)'
    <3>1. CASE q = r
      BY <2>2, <3>1 DEF Asking, Saving
    <3>2. CASE q # r /\ pc[q] # "idle" /\ job[q].op # "create"
      <4>1. Target(q) # u
        BY <2>1, <3>2 DEF Apart
      <4>2. Target(q) \in User
        BY <1>0, <3>2 DEF JobOK, Job, Target
      <4>3. users'[Target(q)] = users[Target(q)] /\ Target(q)' = Target(q)
        BY <2>2, <4>1, <4>2, <3>2 DEF Target
      <4> QED BY <1>0, <2>2, <3>2, <4>3 DEF Asking, Saving, Current, Exists, Fits
    <3>3. CASE q # r /\ (pc[q] = "idle" \/ job[q].op = "create")
      BY <1>0, <2>2, <3>3 DEF Asking, Saving, SelfOps, StageOps
    <3> QED BY <3>1, <3>2, <3>3
  <2>7. ASSUME NEW t \in tokens', t \notin tokens PROVE Known(t)'
    <3>1. CASE op = "activate"
      <4>1. tokens' = tokens \cup {TokenOf(u, new, "full", job[r].tok.pw, new.totp)}
        BY <1>11, <3>1 DEF Store, Reissue, Issue
      <4>2. /\ t.user = u /\ t.epoch = new.epoch /\ t.pw = job[r].tok.pw /\ t.totp = new.totp
        BY <4>1, <2>7 DEF TokenOf
      <4>3. new.on /\ new.epoch = row.epoch /\ Kept(row, new)
        <5>1. new.on /\ new.epoch = row.epoch
          BY <2>1, <3>1, ChangedKeeps
        <5>2. row.epoch # row.epoch + 1
          BY <2>1 DEF Row, Epoch
        <5> QED BY <2>4, <3>1, <5>1, <5>2
      <4>4. job[r].tok.user = u /\ Fits(job[r].tok)
        BY <1>0, <2>1, <3>1 DEF Asking, SelfOps, StageOps
      <4>5. t.pw = new.pw /\ ~new.disabled
        BY <4>2, <4>3, <4>4 DEF Fits, Kept
      <4>6. t.epoch <= new.epoch
        BY <4>2, <2>3, <3>1 DEF Row, Epoch
      <4> QED BY <2>1, <2>2, <4>2, <4>3, <4>5, <4>6 DEF Known, Fits
    <3>2. CASE op = "changepw"
      <4>1. tokens' = tokens \cup {TokenOf(u, new, "full", new.pw, job[r].tok.totp)}
        BY <1>11, <3>2 DEF Store, Reissue, Issue
      <4>2. /\ t.user = u /\ t.epoch = new.epoch /\ t.pw = new.pw /\ t.totp = job[r].tok.totp
        BY <4>1, <2>7 DEF TokenOf
      <4>3. new.disabled = row.disabled /\ new.on = row.on /\ new.totp = row.totp
        BY <2>1, <3>2, ChangedKeeps
      <4>4. /\ job[r].tok.user = u /\ Fits(job[r].tok) /\ job[r].tok.stage = "full"
        BY <1>0, <2>1, <3>2 DEF Asking, SelfOps, StageOps, StageOf
      <4>5. ~new.disabled /\ new.on /\ t.totp = new.totp
        BY <4>2, <4>3, <4>4 DEF Fits
      <4>6. t.epoch <= new.epoch
        BY <4>2, <2>3, <3>2 DEF Row, Epoch
      <4> QED BY <2>1, <2>2, <4>2, <4>5, <4>6 DEF Known, Fits
    <3>3. CASE op \notin {"activate", "changepw"}
      BY <1>11, <2>7, <3>3 DEF Store, Reissue
    <3> QED BY <3>1, <3>2, <3>3
  <2>8. \A v \in User : Exists(v)' => v \in used'
    BY <2>1, <2>2 DEF SessionInv, Exists
  <2> QED BY <2>5, <2>6, <2>7, <2>8 DEF SessionInv
<1>12. CASE UNCHANGED vars
  BY <1>12, SessionQuiet DEF vars
<1> QED
  BY <1>1, <1>2, <1>3, <1>4, <1>5, <1>6, <1>7, <1>8, <1>9, <1>10, <1>11, <1>12 DEF Next

(* The invariant holds as long as the requests are apart. *)
LEMMA SessionsAlways == Spec /\ []Apart => [](Types /\ SessionInv /\ Apart)
  BY TypesInit, TypesStep, SessionInit, SessionStep, PTL DEF Spec

(* While no two requests save one account, a session that is accepted has    *)
(* proved the password and the second factor that the row has now: every     *)
(* way out of that, the epoch taken back by a stale copy, needs two.         *)
THEOREM AcceptedSessionsAreCurrent == Spec /\ []Apart => []SessionsAreCurrent
<1>1. SessionInv => SessionsAreCurrent
  BY DEF SessionInv, Known, Fits, SessionsAreCurrent
<1> QED BY <1>1, SessionsAlways, PTL

(* And no session of a disabled account is accepted, not even a half-way one. *)
THEOREM DisabledAccountsAreOut == Spec /\ []Apart => []DisabledIsOut
<1>1. SessionInv => DisabledIsOut
  BY DEF SessionInv, Known, Fits, DisabledIsOut
<1> QED BY <1>1, SessionsAlways, PTL

(* What a step does to an account: nothing, or its handler's change. *)
LEMMA AccountStep ==
    ASSUME Types, SessionInv, [Next]_vars, NEW u \in User
    PROVE  \/ users'[u] = users[u]
           \/ u \notin used
           \/ /\ Exists(u) /\ users[u] \in Row
              /\ \/ users'[u] = NoUser
                 \/ users'[u].epoch = users[u].epoch + 1
                 \/ users'[u].epoch = users[u].epoch /\ Kept(users[u], users'[u])
<1>0. TypeOK /\ \A r \in Req : JobOK(r) /\ Saving(r)
  BY DEF Types, SessionInv
<1>1. ASSUME NEW v \in User, NEW p \in Password, Setup(v, p)
      PROVE  users'[u] = users[u] \/ u \notin used
  BY <1>0, <1>1 DEF Setup, TypeOK
<1>2. ASSUME NEW r \in Req, NEW v \in User, NEW admin \in BOOLEAN, NEW p \in Password,
             CreateUser(r, v, admin, p)
      PROVE  users'[u] = users[u] \/ u \notin used
  BY <1>0, <1>2 DEF CreateUser, TypeOK
<1>3. ASSUME NEW r \in Req, Store(r)
      PROVE  \/ users'[u] = users[u]
             \/ /\ Exists(u) /\ users[u] \in Row
                /\ \/ users'[u] = NoUser
                   \/ users'[u].epoch = users[u].epoch + 1
                   \/ users'[u].epoch = users[u].epoch /\ Kept(users[u], users'[u])
  <2>1. CASE u # Target(r)
    BY <1>0, <1>3, <2>1 DEF Store, TypeOK
  <2>2. CASE u = Target(r)
    <3>1. /\ pc[r] = "store" /\ Exists(u) /\ users'[u] = job[r].row
          /\ job[r].op = "delete" => job[r].row = NoUser
          /\ job[r].op # "delete" => job[r].row \in Changed(job[r].op, users[u])
      BY <1>0, <1>3, <2>2 DEF Store, Saving, TypeOK
    <3>2. users[u] \in Row /\ HasSecret(users[u])
      BY <1>0, <3>1 DEF TypeOK, Exists
    <3> QED BY <3>1, <3>2, ChangedKeeps
  <2> QED BY <2>1, <2>2
<1>4. CASE UNCHANGED users
  BY <1>4
<1>5. \/ UNCHANGED users
      \/ \E v \in User, p \in Password : Setup(v, p)
      \/ \E r \in Req, v \in User : \E admin \in BOOLEAN, p \in Password : CreateUser(r, v, admin, p)
      \/ \E r \in Req : Store(r)
  BY DEF Next, vars, Login, Expire, Admit, Cli, Load, LoadDelete, Verify, Refuse
<1> QED BY <1>1, <1>2, <1>3, <1>4, <1>5

(* While the requests are apart, revoked sessions stay revoked, *)
THEOREM EpochsNeverFall == Spec /\ []Apart => EpochNeverFalls
<1>1. Types /\ SessionInv /\ [Next]_vars =>
        [\A u \in User : Exists(u) /\ users'[u] # NoUser =>
            users'[u].epoch >= users[u].epoch]_vars
  <2> SUFFICES ASSUME Types, SessionInv, [Next]_vars, NEW u \in User,
                      Exists(u), users'[u] # NoUser
               PROVE  users'[u].epoch >= users[u].epoch
    OBVIOUS
  <2>1. users[u] \in Row /\ u \in used
    BY DEF Types, TypeOK, Exists, SessionInv
  <2>2. users[u].epoch \in Nat
    BY <2>1, AccountsAssumption DEF Row, Epoch
  <2> QED BY <2>1, <2>2, AccountStep
<1> QED BY <1>1, SessionsAlways, PTL DEF Spec, EpochNeverFalls

(* an enrolled second factor is replaced only with its sessions revoked, *)
THEOREM SecondFactorIsKept == Spec /\ []Apart => EnrolledIsNotRekeyed
<1>1. Types /\ SessionInv /\ [Next]_vars =>
        [\A u \in User : Exists(u) /\ users'[u] # NoUser /\ users[u].on =>
            users'[u].totp = users[u].totp \/ users'[u].epoch > users[u].epoch]_vars
  <2> SUFFICES ASSUME Types, SessionInv, [Next]_vars, NEW u \in User,
                      Exists(u), users'[u] # NoUser, users[u].on
               PROVE  users'[u].totp = users[u].totp \/ users'[u].epoch > users[u].epoch
    OBVIOUS
  <2>1. users[u] \in Row /\ u \in used
    BY DEF Types, TypeOK, Exists, SessionInv
  <2>2. users[u].epoch \in Nat
    BY <2>1, AccountsAssumption DEF Row, Epoch
  <2> QED BY <2>1, <2>2, AccountStep DEF Kept
<1> QED BY <1>1, SessionsAlways, PTL DEF Spec, EnrolledIsNotRekeyed

(* and a deleted account does not come back. *)
THEOREM DeletedStaysGone == Spec /\ []Apart => DeletedIsGone
<1>1. Types /\ SessionInv /\ [Next]_vars =>
        [\A u \in used : users[u] = NoUser => users'[u] = NoUser]_vars
  BY AccountStep DEF Exists, Types, TypeOK
<1> QED BY <1>1, SessionsAlways, PTL DEF Spec, DeletedIsGone

-----------------------------------------------------------------------------
(* The limiter of failed attempts *)

(* The entry a failure adds to is well formed, whether it is the old one or *)
(* a new one.                                                               *)
LEMMA CurrentType ==
    ASSUME EntryOK
    PROVE  /\ CurrentEntry \in Entry
           /\ CurrentEntry.count < Max
           /\ CurrentEntry.start <= clock
           /\ CurrentEntry.until <= CurrentEntry.start + Lock
<1> USE LimiterAssumption DEF EntryOK, CurrentEntry, Entry, Time
<1>1. CASE entry = NoEntry \/ clock - entry.start > Window
  BY <1>1
<1>2. CASE ~(entry = NoEntry \/ clock - entry.start > Window)
  BY <1>2
<1> QED BY <1>1, <1>2

(* Counting one more failure keeps an entry well formed: a lock restarts the *)
(* counter and the window.                                                   *)
LEMMA CountedType ==
    ASSUME EntryOK, NEW e \in Entry,
           e.count < Max, e.start <= clock, e.until <= e.start + Lock
    PROVE  /\ Counted(e) \in Entry
           /\ Counted(e).count < Max
           /\ Counted(e).start <= clock
           /\ Counted(e).until <= Counted(e).start + Lock
<1> USE LimiterAssumption DEF EntryOK, Counted, Entry, Time
<1>1. CASE e.count + 1 >= Max
  BY <1>1
<1>2. CASE ~(e.count + 1 >= Max)
  BY <1>2
<1> QED BY <1>1, <1>2

(* The limiter starts without an entry. *)
LEMMA TypeInit == LimiterInit => EntryOK
  BY LimiterAssumption DEF LimiterInit, EntryOK, Time

(* Every step keeps the types and the bounds of the entry. *)
LEMMA TypeStep == EntryOK /\ [LimiterNext]_limiterVars => EntryOK'
<1> SUFFICES ASSUME EntryOK, [LimiterNext]_limiterVars PROVE EntryOK'
  OBVIOUS
<1>1. CASE Tick
  BY <1>1, LimiterAssumption DEF Tick, EntryOK, Entry, Time
<1>2. ASSUME NEW r \in Tries, Allowed(r) PROVE EntryOK'
  BY <1>2 DEF Allowed, EntryOK
<1>3. ASSUME NEW r \in Tries, Fail(r) PROVE EntryOK'
  <2>1. /\ entry' = Counted(CurrentEntry) /\ clock' = clock
        /\ trying' = trying \ {r}
    BY <1>3 DEF Fail
  <2>2. /\ entry' \in Entry
        /\ entry'.count < Max
        /\ entry'.start <= clock
        /\ entry'.until <= entry'.start + Lock
    BY <2>1, CurrentType, CountedType
  <2> QED BY <2>1, <2>2 DEF EntryOK
<1>4. ASSUME NEW r \in Tries, Reset(r) PROVE EntryOK'
  BY <1>4 DEF Reset, EntryOK
<1>5. CASE UNCHANGED limiterVars
  BY <1>5 DEF limiterVars, EntryOK
<1> QED BY <1>1, <1>2, <1>3, <1>4, <1>5 DEF LimiterNext

(* Types, and the bounds of the counter and of the lock, in every reachable *)
(* state of the limiter.                                                     *)
THEOREM LimiterTypes == LimiterSpec => []EntryOK
  BY TypeInit, TypeStep, PTL DEF LimiterSpec

(* While the key is locked its window has not passed, so a late failure adds *)
(* to the entry that holds the lock, and can only set the lock again, later. *)
LEMMA LateFailure ==
    ASSUME EntryOK, Locked, NEW r \in Tries, Fail(r)
    PROVE  entry'.until >= entry.until
<1>1. entry \in Entry /\ entry # NoEntry /\ clock \in Time
  BY DEF EntryOK, Locked
<1>2. clock < entry.until /\ entry.until <= entry.start + Lock /\ entry.start <= clock
  BY DEF EntryOK, Locked
<1>3. ~(clock - entry.start > Window)
  BY <1>1, <1>2, LimiterAssumption DEF Entry, Time
<1>4. CurrentEntry = entry
  BY <1>1, <1>3 DEF CurrentEntry
<1>5. entry' = Counted(entry)
  BY <1>4 DEF Fail
<1>6. CASE entry.count + 1 >= Max
  BY <1>1, <1>2, <1>5, <1>6, LimiterAssumption DEF Counted, Entry, Time
<1>7. CASE ~(entry.count + 1 >= Max)
  BY <1>1, <1>5, <1>7, LimiterAssumption DEF Counted, Entry, Time
<1> QED BY <1>6, <1>7

(* A lock that has been set runs its time, unless an attempt that was allowed *)
(* before it succeeds.                                                        *)
THEOREM LockRunsItsTime == LimiterSpec => LockHolds
<1>1. EntryOK /\ [LimiterNext]_limiterVars => [Locked /\ entry' # NoEntry => entry'.until >= entry.until]_limiterVars
  <2> SUFFICES ASSUME EntryOK, [LimiterNext]_limiterVars, Locked, entry' # NoEntry
               PROVE  entry'.until >= entry.until
    OBVIOUS
  <2>0. entry.until >= entry.until
    BY LimiterAssumption DEF EntryOK, Locked, Entry, Time
  <2>1. CASE Tick
    BY <2>0, <2>1 DEF Tick
  <2>2. ASSUME NEW r \in Tries, Allowed(r) PROVE entry'.until >= entry.until
    BY <2>0, <2>2 DEF Allowed
  <2>3. ASSUME NEW r \in Tries, Fail(r) PROVE entry'.until >= entry.until
    BY <2>3, LateFailure
  <2>4. ASSUME NEW r \in Tries, Reset(r) PROVE entry'.until >= entry.until
    BY <2>4 DEF Reset
  <2>5. CASE UNCHANGED limiterVars
    BY <2>0, <2>5 DEF limiterVars
  <2> QED BY <2>1, <2>2, <2>3, <2>4, <2>5 DEF LimiterNext
<1>2. QED
  BY <1>1, LimiterTypes, PTL DEF LimiterSpec, LockHolds

-----------------------------------------------------------------------------
(* Bursts *)

(* The failures of the entry's window are the last entry.count of recent;    *)
(* those before are not later than its start, and all but fewer than Max of  *)
(* them, the failures of the window before, are more than Window older.      *)
Straddles ==
    /\ recent \in Seq(Time)
    /\ \A i \in DOMAIN recent : recent[i] <= clock
    /\ entry = NoEntry => recent = <<>>
    /\ entry # NoEntry =>
        /\ entry.count <= Len(recent)
        /\ \A i \in 1..(Len(recent) - entry.count) : recent[i] <= entry.start
        /\ \E p \in 0..(Max - 1) :
              \A i \in 1..(Len(recent) - entry.count - p) : recent[i] + Window < entry.start

(* Nothing has failed at the start. *)
LEMMA StraddlesInit == LimiterInit => Straddles
  BY DEF LimiterInit, Straddles

(* The failure of this moment is the latest. *)
LEMMA LastRecent ==
    ASSUME clock \in Time, recent \in Seq(Time), \A i \in DOMAIN recent : recent[i] <= clock,
           recent' = Append(recent, clock), clock' = clock
    PROVE  \A i \in DOMAIN recent' : recent'[i] <= clock'
  BY LimiterAssumption DEF Time

(* A failure that neither locks nor opens a window is one more of its own.   *)
LEMMA StraddlesSame ==
    ASSUME EntryOK, Straddles, entry # NoEntry,
           entry' = [entry EXCEPT !.count = @ + 1], recent' = Append(recent, clock), clock' = clock
    PROVE  Straddles'
<1> USE LimiterAssumption
<1>1. /\ entry \in Entry /\ clock \in Time /\ recent \in Seq(Time)
      /\ entry.count \in Nat /\ entry.start \in Nat
  BY DEF EntryOK, Straddles, Entry, Time
<1>0. \A i \in DOMAIN recent' : recent'[i] <= clock'
  <2>1. clock \in Time /\ recent \in Seq(Time) /\ \A i \in DOMAIN recent : recent[i] <= clock
    BY DEF EntryOK, Straddles
  <2> QED BY <2>1, LastRecent
<1>2. entry'.count = entry.count + 1 /\ entry'.start = entry.start /\ entry' # NoEntry
  <2>1. entry \in [count : Nat, start : Nat, until : Nat]
    BY <1>1 DEF Entry, Time
  <2>2. entry' \in [count : Nat, start : Nat, until : Nat]
    BY <2>1
  <2> QED BY <2>1, <2>2
<1>3. /\ recent' \in Seq(Time) /\ Len(recent') = Len(recent) + 1 /\ Len(recent) \in Nat
      /\ \A i \in 1..Len(recent) : recent'[i] = recent[i]
  BY <1>1
<1>4. Len(recent') - entry'.count = Len(recent) - entry.count
  BY ONLY <1>1, <1>2, <1>3
<1>5. \A i \in 1..(Len(recent) - entry.count) : i \in 1..Len(recent)
  BY <1>1, <1>3
<1>6. PICK p \in 0..(Max - 1) :
        \A i \in 1..(Len(recent) - entry.count - p) : recent[i] + Window < entry.start
  BY DEF Straddles
<1>7. \A i \in 1..(Len(recent) - entry.count - p) : i \in 1..Len(recent)
  BY <1>1, <1>3
<1>8. \A i \in 1..(Len(recent') - entry'.count) : recent'[i] <= entry'.start
  BY <1>2, <1>3, <1>4, <1>5 DEF Straddles
<1>9. \A i \in 1..(Len(recent') - entry'.count - p) : recent'[i] + Window < entry'.start
  BY <1>2, <1>3, <1>4, <1>6, <1>7
<1>10. entry'.count <= Len(recent')
  BY <1>1, <1>2, <1>3 DEF Straddles
<1> QED BY <1>2, <1>3, <1>8, <1>9, <1>10, <1>0 DEF Straddles

(* The failure that opens a window is alone in it: what the last window has  *)
(* counted becomes the window before, and what was before that is too old.   *)
LEMMA StraddlesNew ==
    ASSUME EntryOK, Straddles, entry # NoEntry, clock - entry.start > Window,
           entry' # NoEntry, entry'.count = 1, entry'.start = clock,
           recent' = Append(recent, clock), clock' = clock
    PROVE  Straddles'
<1> USE LimiterAssumption
<1>1. /\ clock \in Time /\ clock \in Nat /\ recent \in Seq(Time) /\ Window \in Nat
      /\ entry.count \in Nat /\ entry.start \in Nat /\ entry.count \in 0..(Max - 1)
  BY DEF EntryOK, Straddles, Entry, Time
<1>2. /\ recent' \in Seq(Time) /\ Len(recent') = Len(recent) + 1 /\ Len(recent) \in Nat
      /\ DOMAIN recent = 1..Len(recent)
      /\ \A i \in 1..Len(recent) : recent'[i] = recent[i] /\ recent[i] \in Nat
  BY <1>1 DEF Time
<1>3. \A i \in DOMAIN recent' : recent'[i] <= clock'
  BY <1>1, LastRecent DEF Straddles
<1>4. \A i \in 1..(Len(recent') - entry'.count) : recent'[i] <= entry'.start
  BY <1>2 DEF Straddles
<1>5. ASSUME NEW i \in 1..(Len(recent') - entry'.count - entry.count)
      PROVE  recent'[i] + Window < entry'.start
  <2>1. i \in 1..(Len(recent) - entry.count) /\ i \in 1..Len(recent)
    BY <1>1, <1>2
  <2>2. recent[i] <= entry.start
    BY <2>1 DEF Straddles
  <2> QED BY <1>1, <1>2, <2>1, <2>2
<1>6. entry'.count <= Len(recent')
  BY <1>2
<1> QED BY <1>1, <1>2, <1>3, <1>4, <1>5, <1>6 DEF Straddles

(* Every step keeps what bursts go by. *)
LEMMA StraddlesStep == EntryOK /\ Straddles /\ [LimiterNext]_limiterVars => Straddles'
<1> SUFFICES ASSUME EntryOK, Straddles, [LimiterNext]_limiterVars PROVE Straddles'
  OBVIOUS
<1>1. CASE Tick
  <2>1. \A i \in DOMAIN recent : recent[i] <= clock + 1
    BY LimiterAssumption DEF EntryOK, Straddles, Time
  <2> QED BY <1>1, <2>1 DEF Tick, Straddles
<1>2. ASSUME NEW r \in Tries, Allowed(r) PROVE Straddles'
  BY <1>2 DEF Allowed, Straddles
<1>3. ASSUME NEW r \in Tries, Fail(r) PROVE Straddles'
  <2> USE LimiterAssumption
  <2>1. /\ entry' = Counted(CurrentEntry) /\ clock' = clock /\ clock \in Time
        /\ recent' = IF entry'.count = 0 THEN <<>> ELSE Append(recent, clock)
    BY <1>3 DEF Fail, EntryOK
  <2>2. CurrentEntry \in Entry /\ entry' \in Entry /\ entry' # NoEntry
    <3>1. CurrentEntry \in Entry /\ entry' \in Entry
      BY <2>1, CurrentType, CountedType
    <3> QED BY <3>1 DEF Entry, Time
  <2>3. CurrentEntry.count \in Nat /\ entry'.count \in Nat
    BY <2>2 DEF Entry
  <2>4. CASE CurrentEntry.count + 1 >= Max
    <3>1. entry'.count = 0 /\ recent' = <<>>
      BY <2>1, <2>4 DEF Counted
    <3>2. \E p \in 0..(Max - 1) : \A i \in 1..(Len(recent') - entry'.count - p) : FALSE
      BY <3>1
    <3> QED BY <2>2, <3>1, <3>2 DEF Straddles
  <2>5. CASE ~(CurrentEntry.count + 1 >= Max)
    <3>1. entry' = [CurrentEntry EXCEPT !.count = @ + 1]
      BY <2>1, <2>5 DEF Counted
    <3>2. entry'.count = CurrentEntry.count + 1 /\ entry'.start = CurrentEntry.start
      BY <2>2, <3>1 DEF Entry
    <3>3. recent' = Append(recent, clock)
      BY <2>1, <2>3, <3>2
    <3>4. CASE entry # NoEntry /\ ~(clock - entry.start > Window)
      <4>1. CurrentEntry = entry
        BY <3>4 DEF CurrentEntry
      <4> QED BY <2>1, <3>1, <3>3, <3>4, <4>1, StraddlesSame
    <3>5. CASE entry # NoEntry /\ clock - entry.start > Window
      <4>1. CurrentEntry.count = 0 /\ CurrentEntry.start = clock
        BY <3>5 DEF CurrentEntry
      <4>2. entry'.count = 1 /\ entry'.start = clock
        BY <3>2, <4>1
      <4> QED BY <2>1, <2>2, <3>3, <3>5, <4>2, StraddlesNew
    <3>6. CASE entry = NoEntry
      <4>1. CurrentEntry.count = 0 /\ CurrentEntry.start = clock /\ recent = <<>>
        BY <3>6 DEF CurrentEntry, Straddles
      <4>2. entry'.count = 1 /\ recent' = <<clock>>
        BY <3>2, <3>3, <4>1
      <4>3. \E p \in 0..(Max - 1) : \A i \in 1..(Len(recent') - entry'.count - p) : FALSE
        <5>1. 0 \in 0..(Max - 1) /\ Len(recent') = 1
          BY <4>2
        <5> QED BY <4>2, <5>1
      <4>4. clock <= clock
        BY <2>1 DEF Time
      <4> QED BY <2>1, <2>2, <4>2, <4>3, <4>4 DEF Straddles
    <3> QED BY <3>4, <3>5, <3>6
  <2> QED BY <2>4, <2>5
<1>4. ASSUME NEW r \in Tries, Reset(r) PROVE Straddles'
  BY <1>4 DEF Reset, Straddles
<1>5. CASE UNCHANGED limiterVars
  BY <1>5 DEF limiterVars, Straddles
<1> QED BY <1>1, <1>2, <1>3, <1>4, <1>5 DEF LimiterNext

(* What lies within the last Window is of the entry's window or of the one   *)
(* before: fewer than Max each.                                              *)
LEMMA BurstOfTwo == EntryOK /\ Straddles => BurstIsBounded
<1> SUFFICES ASSUME EntryOK, Straddles PROVE BurstIsBounded
  OBVIOUS
<1> USE LimiterAssumption
<1> DEFINE n == Len(recent)
           late == {i \in DOMAIN recent : clock - recent[i] <= Window}
<1>1. n \in Nat /\ DOMAIN recent = 1..n /\ clock \in Nat /\ \A i \in 1..n : recent[i] \in Nat
  BY DEF Straddles, EntryOK, Time
<1>2. CASE entry = NoEntry
  <2>1. late = {}
    BY <1>2 DEF Straddles
  <2>2. Burst = 0
    BY <2>1, FS_EmptySet DEF Burst
  <2> QED BY <2>2 DEF BurstIsBounded
<1>3. CASE entry # NoEntry
  <2> DEFINE c == entry.count
  <2>1. c \in Nat /\ c < Max /\ c <= n /\ entry.start \in Nat /\ entry.start <= clock
    BY <1>3 DEF EntryOK, Straddles, Entry, Time
  <2>2. PICK p \in 0..(Max - 1) : \A i \in 1..(n - c - p) : recent[i] + Window < entry.start
    BY <1>3 DEF Straddles
  <2> HIDE DEF n, c
  <2> DEFINE m == n - c - p + 1
  <2>3. \A i \in 1..n : clock - recent[i] <= Window => i \in m..n
    BY <1>1, <2>1, <2>2
  <2>4. late \in SUBSET (m..n)
    BY <1>1, <2>3
  <2>5. IsFiniteSet(m..n) /\ Cardinality(m..n) = IF m > n THEN 0 ELSE n - m + 1
    <3>1. m \in Int /\ n \in Int
      BY <1>1, <2>1
    <3> HIDE DEF m
    <3> QED BY <3>1, FS_Interval
  <2>6. Cardinality(late) <= Cardinality(m..n) /\ Cardinality(late) \in Nat
    <3> HIDE DEF late, m
    <3> QED BY <2>4, <2>5, FS_Subset, FS_CardinalityType
  <2>7. Cardinality(m..n) <= 2 * (Max - 1)
    BY <1>1, <2>1, <2>5
  <2>8. Cardinality(late) <= 2 * (Max - 1)
    <3> HIDE DEF late
    <3>1. Cardinality(m..n) \in Nat
      BY <1>1, <2>1, <2>5
    <3> QED BY <2>6, <2>7, <3>1
  <2> QED BY <2>8 DEF BurstIsBounded, Burst
<1> QED BY <1>2, <1>3

(* Fewer than twice Max failures of any Window go by without a lock or a     *)
(* success, for every Max, Window and Lock.                                  *)
THEOREM BurstsAreBounded == LimiterSpec => []BurstIsBounded
<1>1. LimiterInit => EntryOK /\ Straddles
  BY TypeInit, StraddlesInit
<1>2. EntryOK /\ Straddles /\ [LimiterNext]_limiterVars => (EntryOK /\ Straddles)'
  BY TypeStep, StraddlesStep
<1> QED BY <1>1, <1>2, BurstOfTwo, PTL DEF LimiterSpec
=============================================================================
