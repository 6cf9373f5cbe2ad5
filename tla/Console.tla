------------------------------ MODULE Console ------------------------------
(***************************************************************************)
(* The signed-in state of the single-page application: the cached answer   *)
(* of /auth/me, the route guards that act on it, the pages that log in,    *)
(* set up, enroll, verify, log out and re-bind, and the requests they have *)
(* in flight.  Behind them, as far as the pages can tell it apart, the     *)
(* session the server would grant.                                         *)
(*                                                                         *)
(* The browser attaches the cookie when a request leaves and stores the    *)
(* cookie of an answer when the answer arrives; in between the request     *)
(* carries a token of its own.  Several requests are in flight at once,    *)
(* and /auth/me is always one more.                                        *)
(***************************************************************************)
EXTENDS Naturals, Sequences, FiniteSets, SequencesExt

CONSTANTS
    Faults,     \* what may happen besides: a subset of FaultKinds
    MaxWire,    \* bound: requests in flight when the user starts another
    MaxActs     \* bound: what the user, other tabs and the server's admin do

FaultKinds == {"late",      \* requests and answers overtake each other
               "lost",      \* the connection breaks: a request fails
               "otherTab",  \* another tab logs in or out, or binds an authenticator
               "otherSetup",\* another client creates the first account
               "repeat",    \* Enter pressed again, where the page lets it
               "hasty"}     \* the user acts before /auth/me has answered

ASSUME FaultsAssumption == Faults \subseteq FaultKinds
ASSUME BoundsAssumption == MaxWire \in Nat \ {0} /\ MaxActs \in Nat

(* Routes.  "sites" stands for every page that loads data. *)
Public    == {"setup", "login", "enroll", "verify"}
Protected == {"sites", "users", "me"}
Route     == Public \cup Protected

(* A revoked full token is "dead"; a revoked token of a login stage "spent". *)
Token == {"none", "enroll", "totp", "full", "dead", "spent"}

Kind   == {"me", "login", "setup", "enroll", "activate", "verify", "logout", "load",
           "init", "confirm", "passwd"}
Answer == {"waiting", "lost", "ok", "enrollNext", "totpNext", "setup", "anon", "user",
           "401", "needsTotp", "needsSetup", "refused"}
Failed == {"lost", "401", "needsTotp", "needsSetup", "refused"}
Typed  == {"right", "wrong"}

(* The secret a page shows: the one the server has stored, one this tab has  *)
(* asked to replace, or one another client has.                              *)
OnScreen == {"none", "current", "old", "replaced"}

(* A request in flight: the page that sent it, the cookie it carries, what   *)
(* was typed into it, its answer and the cookie of the answer, the secret it *)
(* was typed from or brings, and whether its page still listens.             *)
Exchange == [kind: Kind, page: Route \cup {"blank"}, tok: Token, typed: Typed, ans: Answer,
             set: Token \cup {"keep"}, qr: OnScreen, live: BOOLEAN]

VARIABLES
    inited,     \* server: an account exists
    enrolled,   \* server: it has an authenticator
    admin,      \* server: its role is admin
    pending,    \* server: a new authenticator waits for its first code
    cookie,     \* browser: the session cookie, shared by its tabs
    me,         \* cached data of ["me"]; "none" until the first answer
    route,      \* address shown by the browser
    shown,      \* page mounted, "blank" while a guard waits or redirects
    qr,         \* secret on screen, and whether it is the stored one
    dialog,     \* the re-bind dialog of the account page is open
    wire,       \* requests in flight, in the order they were sent
    acts,       \* actions left to the user and the environment
    last,       \* history: "in" or "out", if this tab has last logged in or out
    seen        \* history: the faults that have happened

server == <<inited, enrolled, admin, pending>>
page   == <<route, shown, qr, dialog>>
vars   == <<inited, enrolled, admin, pending, cookie, me, route, shown, qr, dialog,
            wire, acts, last, seen>>

TypeOK ==
    /\ inited \in BOOLEAN /\ enrolled \in BOOLEAN /\ admin \in BOOLEAN /\ pending \in BOOLEAN
    /\ cookie \in Token
    /\ me \in {"none", "setup", "anon", "user"}
    /\ route \in Route
    /\ shown \in Route \cup {"blank"}
    /\ qr \in OnScreen
    /\ dialog \in BOOLEAN
    /\ wire \in Seq(Exchange)
    /\ acts \in 0..MaxActs
    /\ last \in {"none", "in", "out"} /\ seen \subseteq Faults

(***************************************************************************)
(* Requests.                                                               *)
(***************************************************************************)
Request(k, typed, tok) ==
    [kind |-> k, page |-> shown, tok |-> tok, typed |-> typed, ans |-> "waiting",
     set |-> "keep", qr |-> "none", live |-> TRUE]

Sent(w, k, typed) == Append(w, Request(k, typed, cookie))

InFlight(k) == \E i \in DOMAIN wire : wire[i].kind = k /\ wire[i].live

(* The answers in flight of a page that is gone find no component.  The     *)
(* request for ["me"] belongs to the provider, which never goes.            *)
Orphaned(w) == [i \in DOMAIN w |-> [w[i] EXCEPT !.live = @ /\ w[i].kind = "me"]]

(* The request of the provider, which is on no page of its own. *)
Ask(c) == [Request("me", "right", c) EXCEPT !.page = "login"]

(* The request for ["me"] under way is cancelled; there is never a second.  *)
Cancelled(w) ==
    LET asks == {i \in DOMAIN w : w[i].kind = "me"}
    IN  IF asks = {} THEN w ELSE RemoveAt(w, CHOOSE i \in asks : TRUE)

(* A query asked again: the request under way is cancelled, unless it is    *)
(* the first one, without data to show meanwhile; that one is waited for.   *)
Asked(w, c) ==
    IF me = "none" /\ InFlight("me") THEN w
    ELSE Append(Cancelled(w), Ask(c))

FirstAsk(c) == << Ask(c) >>

(***************************************************************************)
(* The server.  Revoke is the bump of the account's token epoch.           *)
(***************************************************************************)
Dead(t) == CASE t = "full" -> "dead"
             [] t \in {"enroll", "totp"} -> "spent"
             [] OTHER -> t

Killed(w) == [i \in DOMAIN w |-> [w[i] EXCEPT !.tok = Dead(@), !.set = IF @ = "keep" THEN @ ELSE Dead(@)]]

(* RequireAuth: a token of a login stage is told to finish it. *)
Gate(t) == CASE t = "full" -> "ok"
             [] t \in {"enroll", "totp", "spent"} -> "needsTotp"
             [] OTHER -> "401"

MeAnswer(t) == IF ~inited THEN "setup" ELSE IF t = "full" THEN "user" ELSE "anon"

(* What the server answers request r; a code is right if it was read off   *)
(* the secret that is stored.                                              *)
Reply(r) ==
    CASE r.kind = "me"     -> MeAnswer(r.tok)
      [] r.kind = "login"  ->
           IF ~inited THEN "needsSetup"
           ELSE IF r.typed = "wrong" THEN "401"
           ELSE IF enrolled THEN "totpNext" ELSE "enrollNext"
      [] r.kind = "setup"    -> IF inited \/ r.typed = "wrong" THEN "refused" ELSE "ok"
      [] r.kind = "enroll"   -> IF r.tok # "enroll" THEN "401" ELSE IF enrolled THEN "refused" ELSE "ok"
      [] r.kind = "activate" -> IF r.tok # "enroll" THEN "401"
                                ELSE IF enrolled \/ r.typed = "wrong" \/ r.qr # "current"
                                     THEN "refused" ELSE "ok"
      [] r.kind = "verify"   -> IF r.tok # "totp" \/ r.typed = "wrong" THEN "401" ELSE "ok"
      [] r.kind \in {"logout", "load"} ->
           IF r.kind = "load" /\ r.page = "users" /\ r.tok = "full" /\ ~admin
           THEN "refused" ELSE Gate(r.tok)
      [] r.kind \in {"init", "passwd"} ->
           IF Gate(r.tok) = "ok" /\ r.typed = "wrong" THEN "refused" ELSE Gate(r.tok)
      [] r.kind = "confirm"  ->
           IF Gate(r.tok) # "ok" THEN Gate(r.tok)
           ELSE IF ~pending \/ r.typed = "wrong" \/ r.qr # "current" THEN "refused" ELSE "ok"

(* The cookies its answer may carry: a load may renew a session soon to expire. *)
Cookies(r, a) ==
    CASE a = "enrollNext" \/ (r.kind = "setup" /\ a = "ok") -> {"enroll"}
      [] a = "totpNext" -> {"totp"}
      [] r.kind \in {"activate", "verify", "passwd"} /\ a = "ok" -> {"full"}
      [] r.kind = "logout" /\ a = "ok" -> {"none"}
      [] r.kind = "load" /\ a = "ok" -> {"keep", "full"}
      [] OTHER -> {"keep"}

Aged(q)     == IF q = "current" THEN "old" ELSE q
Superseded(q) == IF q = "current" THEN "replaced" ELSE q

(* A new secret makes every earlier one old, on screen and in flight. *)
Rekeyed(w)  == [i \in DOMAIN w |-> [w[i] EXCEPT !.qr = Aged(@)]]
Outdated(w) == [i \in DOMAIN w |-> [w[i] EXCEPT !.qr = Superseded(@)]]

(* Bound: one kind of fault in a behaviour. *)
Happens(faults) ==
    /\ faults \subseteq Faults /\ Cardinality(seen \cup faults) <= 1
    /\ seen' = seen \cup faults

(* The request the network, or the server, turns to: the oldest, or one that*)
(* overtakes queries.  Bound: what a button has sent is not overtaken.      *)
Turn(i) ==
    /\ i \in DOMAIN wire /\ \A j \in 1..(i - 1) : wire[j].kind \in {"me", "load", "enroll"}
    /\ Happens(IF i = 1 THEN {} ELSE {"late"})

(* One request is answered: what it changes at the server is done at once. *)
Serve(i) ==
    LET r == wire[i]
        a == Reply(r)
        done == a \notin Failed
        bumps == r.kind \in {"confirm", "passwd"} /\ done
        rekeys == r.kind \in {"enroll", "init"} /\ done
        others == IF bumps THEN Killed(wire) ELSE IF rekeys THEN Rekeyed(wire) ELSE wire
    IN  /\ Turn(i)
        /\ r.ans = "waiting"
        /\ \E c \in Cookies(r, a) :
               wire' = [others EXCEPT ![i].ans = a, ![i].set = c,
                                      ![i].qr = IF rekeys THEN "current" ELSE @]
        /\ inited' = (inited \/ (r.kind = "setup" /\ done))
        /\ enrolled' = (enrolled \/ (r.kind = "activate" /\ done))
        /\ pending' = IF r.kind = "init" /\ done THEN TRUE
                      ELSE IF r.kind = "confirm" /\ done THEN FALSE ELSE pending
        /\ qr' = IF rekeys THEN Aged(qr) ELSE qr
        /\ cookie' = IF bumps THEN Dead(cookie) ELSE cookie
        /\ UNCHANGED <<admin, me, route, shown, dialog, acts, last>>

Act == acts > 0 /\ acts' = acts - 1

(* The connection breaks before or after the server has seen the request. *)
Lose(i) ==
    /\ i \in DOMAIN wire /\ wire[i].ans # "lost" /\ Happens({"lost"}) /\ Act
    /\ wire' = [wire EXCEPT ![i].ans = "lost", ![i].set = "keep"]
    /\ UNCHANGED <<server, cookie, me, page, last>>

(***************************************************************************)
(* Answers.  The interceptor's events run before the caller's handler.     *)
(***************************************************************************)
Others(i) == RemoveAt(wire, i)
Stored(r) == IF r.set = "keep" THEN cookie ELSE r.set

\* Mutant: the cache is given the state, not the data (MeArrives).
MeArrivesAsState(i) ==
    /\ wire[i].kind = "me" /\ wire[i].ans \in {"setup", "anon", "user"}
    /\ me' = IF wire[i].ans = "anon" THEN "unauthenticated" ELSE wire[i].ans
    /\ wire' = Others(i)
    /\ UNCHANGED <<cookie, page>>

(* queryFn resolves: the data replaces whatever the cache holds meanwhile. *)
MeArrives(i) ==
    /\ wire[i].kind = "me" /\ wire[i].ans \in {"setup", "anon", "user"}
    /\ me' = wire[i].ans
    /\ wire' = Others(i)
    /\ UNCHANGED <<cookie, page>>

\* Mutant: the event navigates but leaves the cached user (Unauthorized).
UnauthorizedStays(i) ==
    /\ wire[i].ans = "401"
    /\ route' = "login"
    /\ wire' = Others(i)
    /\ UNCHANGED <<cookie, me, shown, qr, dialog>>

(* Errors: "unauthorized" empties the cached user and goes to /login, the   *)
(* other two only navigate; the caller's catch shows the message.           *)
Unauthorized(i) ==
    /\ wire[i].ans = "401"
    /\ me' = "anon" /\ route' = "login"
    /\ wire' = Others(i)
    /\ UNCHANGED <<cookie, shown, qr, dialog>>

NeedsTotp(i) ==
    /\ wire[i].ans = "needsTotp" /\ wire[i].kind # "logout"
    /\ route' = "login"
    /\ wire' = Others(i)
    /\ UNCHANGED <<cookie, me, shown, qr, dialog>>

NeedsSetup(i) ==
    /\ wire[i].ans = "needsSetup"
    /\ route' = "setup"
    /\ wire' = Others(i)
    /\ UNCHANGED <<cookie, me, shown, qr, dialog>>

Refused(i) ==
    /\ wire[i].ans \in {"refused", "lost"} /\ wire[i].kind # "logout"
    /\ wire' = Others(i)
    /\ UNCHANGED <<cookie, me, route, shown, qr, dialog>>

(* Login: on to the second factor. *)
LoginNext(i) ==
    /\ wire[i].ans \in {"enrollNext", "totpNext"}
    /\ cookie' = Stored(wire[i])
    /\ route' = IF wire[i].ans = "enrollNext" THEN "enroll" ELSE "verify"
    /\ wire' = Others(i)
    /\ UNCHANGED <<me, shown, qr, dialog>>

(* Setup: to the enrollment, with the cached state as it was. *)
SetupDone(i) ==
    /\ wire[i].kind = "setup" /\ wire[i].ans = "ok"
    /\ cookie' = Stored(wire[i])
    /\ route' = "enroll"
    /\ wire' = Others(i)
    /\ UNCHANGED <<me, shown, qr, dialog>>

\* Mutant: it only navigates (SignedIn).
SignedInUnasked(i) ==
    /\ wire[i].kind \in {"activate", "verify"} /\ wire[i].ans = "ok"
    /\ cookie' = Stored(wire[i])
    /\ route' = "sites"
    /\ wire' = Others(i)
    /\ UNCHANGED <<me, shown, qr, dialog>>

(* The second factor, first or later: refresh, and go to the sites at once. *)
SignedIn(i) ==
    /\ wire[i].kind \in {"activate", "verify"} /\ wire[i].ans = "ok"
    /\ cookie' = Stored(wire[i])
    /\ route' = "sites"
    /\ wire' = Asked(Others(i), Stored(wire[i]))
    /\ UNCHANGED <<me, shown, qr, dialog>>

\* Mutant: the first secret stays (SecretArrives).
SecretStays(i) ==
    /\ wire[i].kind \in {"enroll", "init"} /\ wire[i].ans = "ok"
    /\ qr' = IF wire[i].live /\ qr = "none" THEN wire[i].qr ELSE qr
    /\ wire' = Others(i)
    /\ UNCHANGED <<cookie, me, route, shown, dialog>>

(* The secret to enroll, or to re-bind, is put on screen; closing the       *)
(* dialog does not recall the request.                                      *)
SecretArrives(i) ==
    /\ wire[i].kind \in {"enroll", "init"} /\ wire[i].ans = "ok"
    /\ qr' = IF wire[i].live THEN wire[i].qr ELSE qr
    /\ wire' = Others(i)
    /\ UNCHANGED <<cookie, me, route, shown, dialog>>

(* Data of a page, or a changed password: only the cookie concerns us. *)
PageAnswer(i) ==
    /\ wire[i].kind \in {"load", "passwd"} /\ wire[i].ans = "ok"
    /\ cookie' = Stored(wire[i])
    /\ wire' = Others(i)
    /\ UNCHANGED <<me, route, shown, qr, dialog>>

(* Re-bound: the dialog closes and the page logs out. *)
Rebound(i) ==
    /\ wire[i].kind = "confirm" /\ wire[i].ans = "ok"
    /\ wire' = Sent(Others(i), "logout", "right")
    /\ IF wire[i].live THEN dialog' = FALSE /\ qr' = "none" ELSE UNCHANGED <<dialog, qr>>
    /\ UNCHANGED <<cookie, me, route, shown>>

\* Mutant: the server forgets the session, the page keeps the user (LoggedOut).
LoggedOutStays(i) ==
    /\ wire[i].kind = "logout" /\ wire[i].ans \in {"ok", "needsTotp", "lost"}
    /\ cookie' = Stored(wire[i])
    /\ route' = "login"
    /\ wire' = Others(i)
    /\ UNCHANGED <<me, shown, qr, dialog>>

(* Logout: whatever was answered, the cached user goes. *)
LoggedOut(i) ==
    /\ wire[i].kind = "logout" /\ wire[i].ans \in {"ok", "needsTotp", "lost"}
    /\ cookie' = Stored(wire[i])
    /\ me' = "anon" /\ route' = "login"
    /\ wire' = Others(i)
    /\ UNCHANGED <<shown, qr, dialog>>

Deliver(i) ==
    /\ Turn(i)
    /\ \/ MeArrives(i) \/ Unauthorized(i) \/ NeedsTotp(i) \/ NeedsSetup(i) \/ Refused(i)
       \/ LoginNext(i) \/ SetupDone(i) \/ SignedIn(i) \/ SecretArrives(i)
       \/ PageAnswer(i) \/ Rebound(i) \/ LoggedOut(i)
    /\ last' = CASE wire[i].ans \in {"401", "needsTotp"} -> "none"
                 [] wire[i].kind \in {"activate", "verify"} /\ wire[i].ans = "ok" -> "in"
                 [] wire[i].kind = "logout" /\ wire[i].ans \in {"ok", "lost"} -> "out"
                 [] OTHER -> last
    /\ UNCHANGED <<server, acts>>

(***************************************************************************)
(* Rendering: the guards of the routes.                                    *)
(***************************************************************************)
(* AuthState: loading only until the first request for ["me"] has ended. *)
State == CASE me = "none"  -> IF InFlight("me") THEN "loading" ELSE "unauthenticated"
           [] me = "setup" -> "needsSetup"
           [] me = "user"  -> "authenticated"
           [] OTHER        -> "unauthenticated"

RequireAuth(r) == CASE State = "loading"         -> "wait"
                    [] State = "needsSetup"      -> "setup"
                    [] State = "unauthenticated" -> "login"
                    [] OTHER                     -> r

RequireAdmin(r) == IF me = "user" /\ admin THEN r ELSE "sites"

RequireAnon(r) == CASE State = "loading"                           -> "wait"
                    [] State = "authenticated"                     -> "sites"
                    [] r = "login" /\ State = "needsSetup"         -> "setup"
                    [] r = "setup" /\ State = "unauthenticated"    -> "login"
                    [] OTHER                                       -> r

(* Where route r leads: to itself, to another route, or to a spinner. *)
Leads(r) == CASE r \in {"setup", "login"}   -> RequireAnon(r)
              [] r \in {"enroll", "verify"} -> r
              [] r = "users" -> IF RequireAuth(r) = r THEN RequireAdmin(r) ELSE RequireAuth(r)
              [] OTHER       -> RequireAuth(r)

(* A mounted page loads its data, or asks for a secret to enroll; a load of *)
(* the same page under way is shared.                                       *)
Mounted(w, r) ==
    CASE r = "enroll" -> Append(w, [Request("enroll", "right", cookie) EXCEPT !.page = r])
      [] r \in {"sites", "users"} ->
           IF \E i \in DOMAIN w : w[i].kind = "load" /\ w[i].page = r THEN w
           ELSE Append(w, [Request("load", "right", cookie) EXCEPT !.page = r])
      [] OTHER -> w

(* A guard that waits or redirects takes the page away. *)
Rendered == (Leads(route) = route /\ shown = route) \/ (Leads(route) = "wait" /\ shown = "blank")

Redirect ==
    /\ Leads(route) # route /\ ~Rendered
    /\ route' = IF Leads(route) = "wait" THEN route ELSE Leads(route)
    /\ shown' = "blank" /\ qr' = "none" /\ dialog' = FALSE
    /\ wire' = Orphaned(wire)
    /\ UNCHANGED <<server, cookie, me, acts, last, seen>>

Mount ==
    /\ Leads(route) = route /\ shown # route
    /\ shown' = route /\ qr' = "none" /\ dialog' = FALSE
    /\ wire' = Mounted(Orphaned(wire), route)
    /\ UNCHANGED <<server, cookie, me, route, acts, last, seen>>

(***************************************************************************)
(* The user.                                                               *)
(***************************************************************************)
(* The user acts once React has rendered the last change.  A button is      *)
(* disabled while its request k is in flight; Enter is not.                 *)
Acts(k) ==
    /\ Rendered /\ Act
    /\ Happens((IF InFlight("me") THEN {"hasty"} ELSE {}) \cup (IF InFlight(k) THEN {"repeat"} ELSE {}))

Room == Len(wire) < MaxWire

(* The forms.  The buttons of the first three are disabled while they are   *)
(* submitting; in a field for a code, Enter submits whatever is under way.  *)
LoginForm    == shown = "login" /\ ~InFlight("login")
SetupForm    == shown = "setup" /\ ~InFlight("setup")
PasswordForm == shown = "me" /\ ~dialog /\ ~InFlight("passwd")
EnrollForm   == shown = "enroll"
VerifyForm   == shown = "verify"
RebindForm   == dialog

SubmitForm(k, typed) ==
    /\ \/ k = "login" /\ LoginForm
       \/ k = "setup" /\ SetupForm
    /\ Room /\ Acts(k)
    /\ wire' = Sent(wire, k, typed)
    /\ UNCHANGED <<server, cookie, me, page, last>>

(* A code, of the secret on screen or of the authenticator. *)
SubmitCode(k, typed) ==
    /\ \/ k = "activate" /\ EnrollForm
       \/ k = "verify" /\ VerifyForm
       \/ k = "confirm" /\ RebindForm /\ qr # "none"
    /\ k = "verify" \/ typed = "wrong" \/ qr # "none"
    /\ Room /\ Acts(k)
    /\ wire' = Append(wire, [Request(k, typed, cookie) EXCEPT !.qr = qr])
    /\ UNCHANGED <<server, cookie, me, page, last>>

(* Account page: a new password; the password that starts a re-binding. *)
SubmitPassword(k, typed) ==
    /\ \/ k = "passwd" /\ PasswordForm
       \/ k = "init" /\ RebindForm /\ qr = "none"
    /\ Room /\ Acts(k)
    /\ wire' = Sent(wire, k, typed)
    /\ UNCHANGED <<server, cookie, me, page, last>>

(* The dialog shows the secret whenever it has one. *)
OpenRebind ==
    /\ shown = "me" /\ ~dialog /\ Acts("login")
    /\ dialog' = TRUE
    /\ UNCHANGED <<server, cookie, me, route, shown, qr, wire, last>>

CloseRebind ==
    /\ dialog /\ Acts("login")
    /\ dialog' = FALSE /\ qr' = "none"
    /\ UNCHANGED <<server, cookie, me, route, shown, wire, last>>

(* Layout: the menu, the button that logs out, and whatever a page asks of  *)
(* the server.                                                              *)
Navigate(r) ==
    /\ shown \in Protected /\ r \in Protected \ {shown} /\ (r = "users" => me = "user" /\ admin)
    /\ ~dialog /\ Acts("login")
    /\ route' = r
    /\ UNCHANGED <<server, cookie, me, shown, qr, dialog, wire, last>>

Logout ==
    /\ shown \in Protected /\ ~dialog /\ Room /\ Acts("logout")
    /\ wire' = Sent(wire, "logout", "right")
    /\ UNCHANGED <<server, cookie, me, page, last>>

Use ==
    /\ shown \in {"sites", "users"} /\ Room /\ Acts("login")
    /\ wire' = Sent(wire, "load", "right")
    /\ UNCHANGED <<server, cookie, me, page, last>>

(* The page is reloaded, or an address typed: everything starts over. *)
Reload(r) ==
    /\ wire = << >> /\ Acts("login")
    /\ route' = r /\ shown' = "blank" /\ qr' = "none" /\ dialog' = FALSE
    /\ me' = "none" /\ wire' = FirstAsk(cookie)
    /\ last' = "none"
    /\ UNCHANGED <<server, cookie>>

(***************************************************************************)
(* The environment.                                                        *)
(***************************************************************************)
(* An administrator ends the account's sessions. *)
Revoke ==
    /\ Act
    /\ cookie' = Dead(cookie)
    /\ wire' = Killed(wire)
    /\ UNCHANGED <<server, me, page, last, seen>>

(* Another tab, with which this one shares the cookie, logs in or out. *)
OtherTab(t) ==
    /\ Happens({"otherTab"}) /\ Act
    /\ inited /\ t \in {"none"} \cup (IF enrolled THEN {"totp", "full"} ELSE {"enroll"})
    /\ cookie' = t
    /\ UNCHANGED <<server, me, page, wire, last>>

(* It mounts the enrollment page, and types the code, or asks to re-bind;    *)
(* each stores another secret.  A client elsewhere leaves the cookie alone.  *)
(* (The end of a re-binding is a Revoke more.)                               *)
OtherBinds(t) ==
    /\ Happens({"otherTab"}) /\ Act
    /\ inited
    /\ \/ t = "enroll" /\ ~enrolled /\ UNCHANGED <<enrolled, pending>>
       \/ t = "full" /\ ~enrolled /\ enrolled' = TRUE /\ UNCHANGED pending
       \/ t = "full" /\ enrolled /\ pending' = TRUE /\ UNCHANGED enrolled
    /\ cookie' \in {t, cookie}
    /\ qr' = Superseded(qr) /\ wire' = Outdated(wire)
    /\ UNCHANGED <<inited, admin, me, route, shown, dialog, last>>

(* Another client completes the setup; a tab of this browser has its cookie. *)
OtherSetup ==
    /\ Happens({"otherSetup"}) /\ Act
    /\ ~inited /\ inited' = TRUE
    /\ cookie' \in {"enroll", cookie}
    /\ UNCHANGED <<enrolled, admin, pending, me, page, wire, last>>

(* Back on line, the cached user is asked for again. *)
Reconnect ==
    /\ me # "none" /\ ~InFlight("me") /\ Rendered /\ Happens({"lost"}) /\ Act
    /\ wire' = Asked(wire, cookie)
    /\ UNCHANGED <<server, cookie, me, page, last>>

(***************************************************************************)
(* Specification.                                                          *)
(***************************************************************************)
Init ==
    /\ inited \in BOOLEAN /\ enrolled \in {FALSE, inited}
    /\ admin \in BOOLEAN /\ (inited \/ admin)
    /\ pending = FALSE
    /\ cookie \in {"none"} \cup (IF enrolled THEN {"full"} ELSE {})
    /\ route = "sites" /\ shown = "blank" /\ qr = "none" /\ dialog = FALSE
    /\ me = "none" /\ wire = FirstAsk(cookie)
    /\ acts = MaxActs
    /\ last = "none" /\ seen = {}

Progress ==
    \/ Redirect \/ Mount
    \/ \E i \in DOMAIN wire : Serve(i) \/ Deliver(i)

User ==
    \/ \E k \in Kind, typed \in Typed :
          SubmitForm(k, typed) \/ SubmitCode(k, typed) \/ SubmitPassword(k, typed)
    \/ OpenRebind \/ CloseRebind \/ Logout \/ Use
    \/ \E r \in Route : Navigate(r) \/ Reload(r)

Environment ==
    \/ Revoke \/ Reconnect
    \/ OtherSetup
    \/ \E t \in Token : OtherTab(t) \/ OtherBinds(t)
    \/ \E i \in DOMAIN wire : Lose(i)

Next == Progress \/ User \/ Environment

Spec     == Init /\ [][Next]_vars
FairSpec == Spec /\ WF_vars(Progress)
(***************************************************************************)
(* Properties.                                                             *)
(***************************************************************************)
(* Nothing is under way: no request, no redirect, no page to mount. *)
Settled == wire = << >> /\ Rendered

(* After a log-out no page of the signed-in application comes back by       *)
(* itself, although other requests are under way and the user is asked for  *)
(* again after each login.  Only a connection that breaks (the log-out lost,*)
(* the user asked for again), or an answer that is overtaken, brings it back.*)
LogoutSticks == Settled /\ last = "out" /\ seen \intersect {"lost", "late"} = {}
                   => shown \notin Protected

(* A completed login ends on a page of the application, not back on the     *)
(* login page, although the user cached when it completes is still          *)
(* "anonymous": the refresh and the navigation race.                        *)
LoginLands == Settled /\ last = "in" /\ cookie = "full" /\ seen \subseteq {"repeat"}
                 => shown \in Protected

(* Nobody is left on the setup page by the account this tab has created,    *)
(* whichever of the cached state and the server's "needs setup" answers came*)
(* last.  An account that another client creates is not noticed: the tab    *)
(* keeps its cached "needs setup" until it is reloaded.                     *)
SetupOnlyFresh == Settled /\ shown = "setup" /\ seen \intersect {"lost", "otherSetup"} = {}
                     => ~inited

(* The secret left on screen is the newest this tab has asked for, although *)
(* the enrollment is asked for anew each time its page is mounted: it is the*)
(* one the server checks codes against, unless another client has replaced  *)
(* that since, of which the page is not told.                               *)
ShownIsStored == Settled /\ "late" \notin seen => qr \in {"none", "current", "replaced"}

(* The guards, the events and the cached user come to rest: no redirect     *)
(* loop and no load that is refused for ever.  Another tab's half-done login*)
(* is the exception: "needs totp" goes to the login page, which the cached  *)
(* user makes go back to the sites.                                         *)
Settles == <>[](Settled \/ "otherTab" \in seen)
=============================================================================
