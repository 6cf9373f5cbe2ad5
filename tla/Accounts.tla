------------------------------ MODULE Accounts ------------------------------
(***************************************************************************)
(* Accounts and sessions: auth_handler.go, users_handler.go and the        *)
(* middleware in front of them.  A session is a signed token that carries  *)
(* the user's TokenEpoch; raising the epoch of the row revokes it.  A      *)
(* request is admitted by the middleware, loads the row it is about,       *)
(* changes its copy and saves it: three database calls, between which      *)
(* other requests run.  Who presents a password or a code presents the     *)
(* right one.                                                              *)
(***************************************************************************)
EXTENDS Naturals, FiniteSets

CONSTANTS
    User,         \* ids, never reused
    Req,          \* requests in flight at the same time
    Password, Secret,
    NoUser, NoSecret, NoTok,
    Ops,          \* the operations of this instance
    MaxEpoch,     \* bound on TokenEpoch
    MaxTokens     \* bound on the tokens that exist at the same time

VARIABLES
    users,    \* users[u]: the row of u
    used,     \* ids already given out
    tokens,   \* the tokens that have been issued and have not expired
    pc,       \* pc[r]: the next step of request r
    job       \* job[r]: who asks, for what, about whom, and the copy of the row

vars == <<users, used, tokens, pc, job>>

Epoch == 0..MaxEpoch

(* sys: SystemAdmin; admin: Role = admin; on: TOTPEnabled. *)
Row == [sys : BOOLEAN, admin : BOOLEAN, disabled : BOOLEAN, pw : Password,
        totp : Secret \cup {NoSecret}, pending : Secret \cup {NoSecret},
        on : BOOLEAN, epoch : Epoch]

(* pw and totp are history: what the session has proved to know. *)
Token == [user : User, stage : {"enroll", "totp", "full"}, epoch : Epoch,
          pw : Password, totp : Secret \cup {NoSecret}]

ASSUME AccountsAssumption ==
    /\ NoSecret \notin Secret
    /\ NoUser \notin Row
    /\ NoTok \notin Token
    /\ MaxEpoch \in Nat
    /\ MaxTokens \in Nat

NewRow(sys, admin, p) ==
    [sys |-> sys, admin |-> admin, disabled |-> FALSE, pw |-> p, totp |-> NoSecret,
     pending |-> NoSecret, on |-> FALSE, epoch |-> 0]

TokenOf(u, row, stage, p, k) ==
    [user |-> u, stage |-> stage, epoch |-> row.epoch, pw |-> p, totp |-> k]

Exists(u) == users[u] # NoUser
Admins    == {u \in User : Exists(u) /\ users[u].admin}

NoJob == [op |-> "none"]

Init ==
    /\ users = [u \in User |-> NoUser]
    /\ used = {}
    /\ tokens = {}
    /\ pc = [r \in Req |-> "idle"]
    /\ job = [r \in Req |-> NoJob]

Issue(t) == tokens' = tokens \cup {t} /\ Cardinality(tokens') <= MaxTokens

-----------------------------------------------------------------------------
(* Requests that need no session *)

(* One transaction counts the users and creates the first. *)
\* Mutant: the count is not checked again in the transaction (Setup).
SetupUnchecked(u, p) ==
    /\ u \notin used
    /\ used' = used \cup {u}
    /\ users' = [users EXCEPT ![u] = NewRow(TRUE, TRUE, p)]
    /\ Issue(TokenOf(u, users'[u], "enroll", p, NoSecret))
    /\ UNCHANGED <<pc, job>>
Setup(u, p) ==
    /\ u \notin used
    /\ \A v \in User : ~Exists(v)
    /\ used' = used \cup {u}
    /\ users' = [users EXCEPT ![u] = NewRow(TRUE, TRUE, p)]
    /\ Issue(TokenOf(u, users'[u], "enroll", p, NoSecret))
    /\ UNCHANGED <<pc, job>>

Login(u) ==
    /\ Exists(u)
    /\ ~users[u].disabled
    /\ Issue(TokenOf(u, users[u], IF users[u].on THEN "totp" ELSE "enroll",
                     users[u].pw, NoSecret))
    /\ UNCHANGED <<users, used, pc, job>>

(* A token expires, or its cookie is cleared. *)
Expire(t) ==
    /\ tokens' = tokens \ {t}
    /\ UNCHANGED <<users, used, pc, job>>

-----------------------------------------------------------------------------
(* Requests with a session *)

StageOps == {"enroll", "activate", "verify"}
SelfOps  == StageOps \cup {"changepw", "rebind", "confirm"}
SysOps   == {"disable", "enable"}
AdminOps == {"create", "setpw", "resettotp", "delete"}

Current(t) == Exists(t.user) /\ users[t.user].epoch = t.epoch

(* RequireStage, RequireAuth, RequireAdmin, RequireSystemAdmin *)
StageOf(op) == CASE op \in {"enroll", "activate"} -> "enroll"
                 [] op = "verify" -> "totp"
                 [] OTHER -> "full"

Passes(t, op) ==
    /\ Current(t)
    /\ t.stage = StageOf(op)
    /\ LET row == users[t.user] IN
         /\ t.stage = "enroll" => ~row.on
         /\ t.stage = "totp" => row.on
         /\ t.stage = "full" => ~row.disabled
         /\ op \in AdminOps => row.admin
         /\ op \in SysOps => row.sys

Admit(r, t, op, u) ==
    /\ pc[r] = "idle"
    /\ op \in Ops
    /\ Passes(t, op)
    /\ op \in SelfOps => u = t.user
    /\ pc' = [pc EXCEPT ![r] = "load"]
    /\ job' = [job EXCEPT ![r] = [op |-> op, tok |-> t, user |-> u, row |-> NoUser]]
    /\ UNCHANGED <<users, used, tokens>>

(* panel reset-totp, run beside the panel with the database file in hand. *)
Cli(r, u) ==
    /\ pc[r] = "idle"
    /\ "cli" \in Ops
    /\ pc' = [pc EXCEPT ![r] = "load"]
    /\ job' = [job EXCEPT ![r] = [op |-> "cli", tok |-> NoTok, user |-> u, row |-> NoUser]]
    /\ UNCHANGED <<users, used, tokens>>

CanManage(a, u) ==
    /\ a # u
    /\ users[a].sys \/ (~users[u].admin /\ ~users[u].sys)

(* The system admin is not deleted and not disabled, not even by itself. *)
Spared(a, u) == a = u \/ users[u].sys

(* What the handler checks about the two rows it has loaded. *)
Permitted(op, a, u) ==
    CASE op \in {"setpw", "resettotp"} -> Exists(a) /\ CanManage(a, u)
      [] op = "delete"  -> /\ Exists(a) /\ CanManage(a, u) /\ ~Spared(a, u)
                           /\ users[u].admin => Cardinality(Admins) > 1
      [] op = "disable" -> ~Spared(a, u) /\ ~users[u].disabled
      [] op = "enable"  -> users[u].disabled
      [] OTHER          -> TRUE

(* The changes that revoke the sessions of the user: TokenEpoch++. *)
\* Mutants: an admin's new password, a user's own rebinding and the disabling
\* leave the sessions alone (Revoking).
RevokingOwn    == {"changepw", "confirm", "resettotp", "cli", "disable"}
RevokingResets == {"changepw", "setpw", "resettotp", "cli"}
Revoking       == {"changepw", "setpw", "confirm", "resettotp", "cli", "disable"}

\* Mutant: no code is asked for a secret that was never enrolled (Activatable).
ActivatableBlank(row) == ~row.on
Activatable(row)      == ~row.on /\ row.totp # NoSecret

(* The rows a handler may want in place of the one it has loaded. *)
Wanted(op, row) ==
    CASE op = "enroll" /\ ~row.on -> {[row EXCEPT !.totp = k] : k \in Secret}
      [] op = "activate" /\ Activatable(row) -> {[row EXCEPT !.on = TRUE]}
      [] op \in {"changepw", "setpw"} -> {[row EXCEPT !.pw = p] : p \in Password}
      [] op = "rebind" -> {[row EXCEPT !.pending = k] : k \in Secret}
      [] op = "confirm" /\ row.pending # NoSecret ->
            {[row EXCEPT !.totp = row.pending, !.pending = NoSecret, !.on = TRUE]}
      [] op \in {"resettotp", "cli"} -> {[row EXCEPT !.totp = NoSecret, !.on = FALSE]}
      [] op = "disable" -> {[row EXCEPT !.disabled = TRUE]}
      [] op = "enable"  -> {[row EXCEPT !.disabled = FALSE]}
      [] OTHER -> {}

Changed(op, row) ==
    IF op \in Revoking THEN {[w EXCEPT !.epoch = @ + 1] : w \in Wanted(op, row)}
    ELSE Wanted(op, row)

-----------------------------------------------------------------------------
(* The handlers *)

Finish(r) == /\ pc' = [pc EXCEPT ![r] = "idle"]
             /\ job' = [job EXCEPT ![r] = NoJob]

Asker(r)  == job[r].tok.user
Target(r) == job[r].user

Allows(r) == /\ Exists(Target(r))
             /\ job[r].op # "cli" => Permitted(job[r].op, Asker(r), Target(r))

Load(r) ==
    /\ pc[r] = "load"
    /\ Allows(r)
    /\ \E row \in Changed(job[r].op, users[Target(r)]) :
         /\ row.epoch <= MaxEpoch
         /\ job' = [job EXCEPT ![r].row = row]
    /\ pc' = [pc EXCEPT ![r] = "store"]
    /\ UNCHANGED <<users, used, tokens>>

LoadDelete(r) ==
    /\ pc[r] = "load"
    /\ job[r].op = "delete"
    /\ Allows(r)
    /\ pc' = [pc EXCEPT ![r] = "store"]
    /\ UNCHANGED <<users, used, tokens, job>>

(* TOTPVerify saves nothing: it answers with a full session. *)
Verify(r) ==
    LET row == users[Target(r)] IN
    /\ pc[r] = "load"
    /\ job[r].op = "verify"
    /\ Exists(Target(r))
    /\ row.on
    /\ Issue(TokenOf(Target(r), row, "full", job[r].tok.pw, row.totp))
    /\ Finish(r)
    /\ UNCHANGED <<users, used>>

CreateUser(r, u, admin, p) ==
    /\ pc[r] = "load"
    /\ job[r].op = "create"
    /\ Exists(Asker(r))
    /\ admin => users[Asker(r)].sys
    /\ u \notin used
    /\ used' = used \cup {u}
    /\ users' = [users EXCEPT ![u] = NewRow(FALSE, admin, p)]
    /\ Finish(r)
    /\ UNCHANGED tokens

(* An error return, before or at the save. *)
Refuse(r) ==
    /\ pc[r] \in {"load", "store"}
    /\ Finish(r)
    /\ UNCHANGED <<users, used, tokens>>

(* issueFull, after the save: TOTPActivate and ChangeOwnPassword. *)
Reissue(r) ==
    LET row == job[r].row IN
    CASE job[r].op = "activate" ->
            Issue(TokenOf(Target(r), row, "full", job[r].tok.pw, row.totp))
      [] job[r].op = "changepw" ->
            Issue(TokenOf(Target(r), row, "full", row.pw, job[r].tok.totp))
      [] OTHER -> UNCHANGED tokens

(* gorm's Save writes every column of the copy, and inserts the row again if *)
(* it is gone.  A deletion has no copy.                                      *)
Store(r) ==
    /\ pc[r] = "store"
    /\ users' = [users EXCEPT ![Target(r)] = job[r].row]
    /\ Reissue(r)
    /\ Finish(r)
    /\ UNCHANGED used

Next ==
    \/ \E u \in User : Login(u) \/ \E p \in Password : Setup(u, p)
    \/ \E t \in tokens : Expire(t)
    \/ \E r \in Req :
        \/ \E t \in tokens, u \in User :
             \E op \in SelfOps \cup AdminOps \cup SysOps : Admit(r, t, op, u)
        \/ \E u \in User : Cli(r, u) \/
             \E admin \in BOOLEAN, p \in Password : CreateUser(r, u, admin, p)
        \/ Load(r) \/ LoadDelete(r) \/ Verify(r) \/ Refuse(r) \/ Store(r)

Spec == Init /\ [][Next]_vars

-----------------------------------------------------------------------------
(* Properties *)

Job == [op : SelfOps \cup AdminOps \cup SysOps \cup {"cli"}, tok : Token \cup {NoTok},
        user : User, row : Row \cup {NoUser}]

(* Types; and a row, also the copy of a row, that demands a second factor    *)
(* has one.                                                                  *)
HasSecret(row) == row # NoUser /\ row.on => row.totp # NoSecret

TypeOK ==
    /\ users \in [User -> Row \cup {NoUser}]
    /\ \A u \in User : HasSecret(users[u])
    /\ used \in SUBSET User
    /\ tokens \in SUBSET Token
    /\ pc \in [Req -> {"idle", "load", "store"}]
    /\ job \in [Req -> Job \cup {NoJob}]

SysAdmins == {u \in User : Exists(u) /\ users[u].sys}

(* "SystemAdmin is the single super-admin created at setup ... Only one      *)
(* exists": there is never a second, and once there is one it can always log *)
(* in, whatever requests overlap.                                            *)
OneSystemAdmin ==
    /\ \A u, v \in SysAdmins : u = v
    /\ used # {} => \E u \in SysAdmins : ~users[u].disabled

(* TokenEpoch is "bumped on password change/reset/disable to revoke          *)
(* sessions": a session that is still accepted has proved the password and,  *)
(* if it is a full one, the second factor that the row has now.              *)
SessionsAreCurrent ==
    \A t \in tokens : Current(t) =>
        /\ t.pw = users[t.user].pw
        /\ t.stage = "full" => t.totp = users[t.user].totp

(* A disabled account has no accepted session, not even a half-way one.      *)
DisabledIsOut ==
    \A t \in tokens : Current(t) => ~users[t.user].disabled

(* Revoked sessions stay revoked: TokenEpoch does not fall.                  *)
EpochNeverFalls ==
    [][\A u \in User : Exists(u) /\ users'[u] # NoUser =>
        users'[u].epoch >= users[u].epoch]_vars

(* "an already-enrolled user must never re-key TOTP via this path": the      *)
(* second factor of an enrolled user changes only with its sessions revoked. *)
EnrolledIsNotRekeyed ==
    [][\A u \in User : Exists(u) /\ users'[u] # NoUser /\ users[u].on =>
        users'[u].totp = users[u].totp \/ users'[u].epoch > users[u].epoch]_vars

(* "DeleteUser removes a user": it does not come back.                       *)
DeletedIsGone ==
    [][\A u \in used : users[u] = NoUser => users'[u] = NoUser]_vars
=============================================================================
