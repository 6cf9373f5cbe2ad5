------------------------------- MODULE Pages -------------------------------
(***************************************************************************)
(* The three list pages of the application: sites, users, certificates.    *)
(* Each shows a cached list, opens a dialog on one of its rows (or a blank *)
(* one, to create), and sends the mutation the dialog confirms; a success  *)
(* closes the dialog and asks for the list again.                          *)
(*                                                                         *)
(* React Query runs the mutations.  Off line it keeps them and runs them   *)
(* when the connection is back, with the closures of the latest render; so *)
(* a mutation that is given its row (toggle.mutate(id)) and one that reads *)
(* it from the dialog (remove.mutate()) part ways.  onSuccess is always the*)
(* latest closure, and what it throws becomes an error.                    *)
(***************************************************************************)
EXTENDS Naturals, FiniteSets, Sequences, SequencesExt

CONSTANTS
    Items,      \* identifiers of rows
    None,       \* no row, no item
    Gone,       \* the row of an identifier that was deleted
    Faults,     \* what may happen besides: a subset of FaultKinds
    MaxKinds,   \* bound: kinds of faults in one behaviour
    MaxCalls,   \* bound: mutations in flight when the user starts another
    MaxActs     \* bound: what the user and the environment do

FaultKinds == {"offline",     \* the browser loses the network for a while
               "lost",        \* a request or its answer is lost
               "cancel",      \* a dialog is closed while its mutation runs
               "repeat",      \* pressed again, where the page lets it
               "away",        \* the user leaves the page and comes back
               "otherAdmin"}  \* somebody else changes a row

ASSUME ItemsAssumption  == IsFiniteSet(Items) /\ None \notin Items /\ Gone \notin Items /\ None # Gone
ASSUME FaultsAssumption == Faults \subseteq FaultKinds
ASSUME BoundsAssumption == MaxKinds \in Nat /\ MaxCalls \in Nat \ {0} /\ MaxActs \in Nat

SiteRequests == {"start", "stop", "remove", "lock", "unlock"}
UserRequests == {"create", "resetPassword", "resetTotp", "remove", "disable", "enable"}
CertRequests == {"createManual", "issueAcme", "renew", "remove", "update"}
Creates      == {"create", "createManual", "issueAcme"}
Inserts      == {"createManual", "issueAcme"}   \* insert a row, then fill it in
Halfway      == Inserts \cup {"renew", "update"} \* may fail after a row was changed
Requests     == SiteRequests \cup UserRequests \cup CertRequests

SiteRow == [enabled : BOOLEAN, locked : BOOLEAN]
UserRow == [role : {"user", "admin"}, totpEnabled : BOOLEAN, disabled : BOOLEAN]
CertRow == [source : {"manual", "acme"}, version : 0..MaxActs]   \* version: its saves

VARIABLES
    page,       \* "sites", "users" or "certs"
    power,      \* me.systemAdmin
    rows,       \* server: the rows
    list,       \* cached data of the page's query
    loaded,     \* it has data
    fetch,      \* the query's request: state, and the rows it carries back
    dialog,     \* the open dialog: what it would do, to which item
    text,       \* the item the code, password or certificate typed is for
    calls,      \* mutations under way, oldest first
    online,     \* onlineManager
    acts,       \* actions left to the user and the environment
    misled,     \* history: the requests that changed a row and were told as failed
    missed,     \* history: a change since the list was read that it was not asked again for
    seen        \* history: the faults that have happened

world == <<page, power>>
query == <<list, loaded, fetch>>
vars  == <<page, power, rows, list, loaded, fetch, dialog, text, calls, online, acts,
           misled, missed, seen>>

NoDialog == [do |-> "none", item |-> None]
Rows     == [Items -> SiteRow \cup UserRow \cup CertRow \cup {None, Gone}]

TypeOK ==
    /\ page \in {"sites", "users", "certs"} /\ power \in BOOLEAN
    /\ rows \in Rows /\ list \in Rows /\ loaded \in BOOLEAN
    /\ fetch.state \in {"idle", "owed", "asked", "answered"} /\ fetch.rows \in Rows
    /\ dialog \in [do : Requests \cup {"none"}, item : Items \cup {None}]
    /\ text \in Items \cup {None}
    /\ calls \in Seq([do : Requests, item : Items \cup {None}, text : Items \cup {None},
                      meant : Items \cup {None},
                      state : {"paused", "sent", "inserted", "done", "refused", "lost"},
                      waited : BOOLEAN,
                      did : BOOLEAN, watched : BOOLEAN, here : BOOLEAN, open : BOOLEAN])
    /\ online \in BOOLEAN /\ acts \in 0..MaxActs
    /\ misled \subseteq Requests
    /\ missed \in BOOLEAN /\ seen \subseteq Faults

Happens(f)  == /\ f \in Faults /\ Cardinality(seen \cup {f}) <= MaxKinds
               /\ seen' = seen \cup {f}
If(b, f)    == IF b THEN Happens(f) ELSE UNCHANGED seen
Act         == acts > 0 /\ acts' = acts - 1

(***************************************************************************)
(* The pages: what their mutations read and do.  "fromDialog": mutationFn  *)
(* takes the item from the dialog when it runs; "reads": so does onSuccess;*)
(* "closes": onSuccess closes the dialog; "lists": it asks for the list;   *)
(* "clears", "forgets": a success, a cancelled dialog empties what was     *)
(* typed; "typed": the dialog has a field that must be filled.             *)
(***************************************************************************)
\* Mutant: the stop dialog's button reads the dialog it closes (SiteMutations).
SiteMutationsFromDialog ==
    [d \in SiteRequests |->
        [fromDialog |-> d # "remove",              reads   |-> d \in {"lock", "unlock"},
         closes     |-> d \in {"remove", "lock", "unlock"}, lists |-> TRUE,
         typed      |-> d \in {"lock", "unlock"},   clears  |-> d \in {"lock", "unlock"},
         forgets    |-> d \in {"lock", "unlock"}]]

SiteMutations ==
    [d \in SiteRequests |->
        [fromDialog |-> d \in {"lock", "unlock"},   reads   |-> d \in {"lock", "unlock"},
         closes     |-> d \in {"remove", "lock", "unlock"}, lists |-> TRUE,
         typed      |-> d \in {"lock", "unlock"},   clears  |-> d \in {"lock", "unlock"},
         forgets    |-> d \in {"lock", "unlock"}]]

\* Mutant: onSuccess names the deleted user from the dialog (UserMutations).
UserMutationsReadBack ==
    [d \in UserRequests |->
        [fromDialog |-> d \notin {"create", "enable"}, reads   |-> d = "remove",
         closes     |-> d # "enable",                  lists   |-> d # "resetPassword",
         typed      |-> d = "resetPassword",           clears  |-> d = "resetPassword",
         forgets    |-> FALSE]]

\* Mutant: an authenticator is reset like a password, without a new list (UserMutations).
UserMutationsNoList ==
    [d \in UserRequests |->
        [fromDialog |-> d \notin {"create", "enable"}, reads   |-> FALSE,
         closes     |-> d # "enable",                  lists   |-> d \notin {"resetPassword", "resetTotp"},
         typed      |-> d = "resetPassword",           clears  |-> d = "resetPassword",
         forgets    |-> FALSE]]

UserMutations ==
    [d \in UserRequests |->
        [fromDialog |-> d \notin {"create", "enable"}, reads   |-> FALSE,
         closes     |-> d # "enable",                  lists   |-> d # "resetPassword",
         typed      |-> d = "resetPassword",           clears  |-> d = "resetPassword",
         forgets    |-> FALSE]]

CertMutations ==
    [d \in CertRequests |->
        [fromDialog |-> d \in {"remove", "update"}, reads   |-> FALSE,
         closes     |-> d # "renew",                lists   |-> TRUE,
         typed      |-> d = "update",               clears  |-> FALSE,
         forgets    |-> FALSE]]

Mutation == CASE page = "sites" -> SiteMutations
              [] page = "users" -> UserMutations
              [] page = "certs" -> CertMutations

(* lock and unlock are one mutation object, so are start and stop. *)
Object(d) == CASE d = "unlock" -> "lock" [] d = "stop" -> "start" [] OTHER -> d

(* The buttons of a row, and of the page's header. *)
SiteButtons(s) ==
    (IF ~power THEN {} ELSE IF s.locked THEN {"unlock"} ELSE {"lock"})
        \cup (IF s.locked THEN {} ELSE {IF s.enabled THEN "stop" ELSE "start", "remove"})

CanManage(u) == power \/ u.role = "user"

UserButtons(u) ==
    (IF CanManage(u) THEN {"resetPassword", "remove"} ELSE {})
        \cup (IF CanManage(u) /\ u.totpEnabled THEN {"resetTotp"} ELSE {})
        \cup (IF ~power THEN {} ELSE IF u.disabled THEN {"enable"} ELSE {"disable"})

CertButtons(c) == {"update", "remove"} \cup (IF c.source = "acme" THEN {"renew"} ELSE {})

HeaderButtons == CASE page = "sites" -> {}
                   [] page = "users" -> {"create"}
                   [] page = "certs" -> {"createManual", "issueAcme"}

Buttons(i) == CASE page = "sites" -> SiteButtons(list[i])
                [] page = "users" -> UserButtons(list[i])
                [] page = "certs" -> CertButtons(list[i])

(* Buttons without a dialog. *)
AtOnce == {"start", "enable", "renew"}

(***************************************************************************)
(* React Query.                                                            *)
(***************************************************************************)
Pending(d) == \E k \in DOMAIN calls : calls[k].watched /\ Object(calls[k].do) = Object(d)

DialogOf(d) == dialog.do # "none" /\ Object(dialog.do) = Object(d)

(* The observer lets go of a call: its closures stay as they are now. *)
Frozen(c) ==
    IF ~c.watched THEN c
    ELSE [c EXCEPT !.watched = FALSE, !.open = DialogOf(c.do),
                   !.item = IF c.state # "paused" \/ ~Mutation[c.do].fromDialog THEN @
                            ELSE IF DialogOf(c.do) THEN dialog.item ELSE None,
                   !.text = IF c.state = "paused" THEN text ELSE @]

(* mutate: the object watches the new call alone; off line it waits. *)
Mutate(d, i) ==
    calls' = Append([k \in DOMAIN calls |-> IF Object(calls[k].do) = Object(d)
                                            THEN Frozen(calls[k]) ELSE calls[k]],
                    [do |-> d, item |-> i, text |-> text, meant |-> i,
                     state |-> IF online THEN "sent" ELSE "paused", waited |-> ~online,
                     did |-> FALSE, watched |-> TRUE, here |-> TRUE, open |-> FALSE])

Loading == ~loaded /\ fetch.state \in {"asked", "answered"}

(* A request for the list: what was under way is dropped, unless it is the  *)
(* first one, without a list to show meanwhile; that one is waited for.     *)
Asked == IF Loading THEN fetch ELSE [state |-> IF online THEN "asked" ELSE "owed", rows |-> list]

(***************************************************************************)
(* The user.                                                               *)
(***************************************************************************)
Room == Len(calls) < MaxCalls

(* A button of the header or of a row opens its dialog; the certificate     *)
(* dialog opens with the row's own values.  An open dialog covers the page. *)
OpenDialog(d, i) ==
    /\ dialog = NoDialog /\ ~Loading /\ Act
    /\ \/ d \in HeaderButtons /\ i = None
       \/ /\ i \in Items /\ list[i] \notin {None, Gone}
          /\ d \in Buttons(i) /\ d \notin AtOnce
    /\ dialog' = [do |-> d, item |-> i]
    /\ text' = IF d = "update" THEN i ELSE text
    /\ UNCHANGED <<world, rows, query, calls, online, misled, missed, seen>>

\* Mutant: the button passes the row, not its identifier (ClickRow).
ClickRowWhole(d, i) ==
    /\ dialog = NoDialog /\ ~Loading /\ Act /\ Room
    /\ list[i] \notin {None, Gone} /\ d \in Buttons(i) /\ d \in AtOnce
    /\ d = "renew" => ~Pending(d)
    /\ If(Pending(d), "repeat")
    /\ Mutate(d, list[i])
    /\ UNCHANGED <<world, rows, query, dialog, text, online, misled, missed>>

(* A row's button that acts at once; only "renew" is disabled meanwhile. *)
ClickRow(d, i) ==
    /\ dialog = NoDialog /\ ~Loading /\ Act /\ Room
    /\ list[i] \notin {None, Gone} /\ d \in Buttons(i) /\ d \in AtOnce
    /\ d = "renew" => ~Pending(d)
    /\ If(Pending(d), "repeat")
    /\ Mutate(d, i)
    /\ UNCHANGED <<world, rows, query, dialog, text, online, misled, missed>>

Type ==
    /\ dialog.do # "none" /\ ~Loading /\ Mutation[dialog.do].typed /\ text # dialog.item
    /\ text' = dialog.item
    /\ UNCHANGED <<world, rows, query, dialog, calls, online, acts, misled, missed, seen>>

(* A dialog's button: disabled while its mutation runs, and until what it   *)
(* asks for is filled in.                                                   *)
Enabled ==
    /\ dialog.do # "none" /\ ~Loading
    /\ Mutation[dialog.do].typed => text # None
    /\ ~Pending(dialog.do)

Ask == Act /\ Room /\ Mutate(dialog.do, dialog.item)
       /\ UNCHANGED <<world, rows, query, text, online, misled, missed, seen>>

(* To stop a site closes the dialog at once; to delete or lock it waits. *)
ConfirmSite ==
    /\ page = "sites" /\ Enabled /\ Ask
    /\ dialog' = IF dialog.do = "stop" THEN NoDialog ELSE dialog

(* The dialogs about users, and the one that creates a user, all wait. *)
ConfirmUser == page = "users" /\ Enabled /\ Ask /\ UNCHANGED dialog

(* So do those that upload or issue a certificate, *)
CreateCert ==
    /\ page = "certs" /\ dialog.do \in Creates /\ Enabled /\ Ask
    /\ UNCHANGED dialog

(* and those that edit or delete one. *)
ConfirmCert ==
    /\ page = "certs" /\ dialog.do \notin Creates /\ Enabled /\ Ask
    /\ UNCHANGED dialog

(* Enter in the code field asks again whatever runs. *)
Enter ==
    /\ dialog.do \in {"lock", "unlock"} /\ ~Loading /\ text # None /\ Act /\ Room
    /\ Pending(dialog.do) /\ Happens("repeat")
    /\ Mutate(dialog.do, dialog.item)
    /\ UNCHANGED <<world, rows, query, dialog, text, online, misled, missed>>

(* The button, the cross, Escape, or a click beside the dialog. *)
Cancel ==
    /\ dialog.do # "none" /\ ~Loading /\ Act
    /\ If(Pending(dialog.do), "cancel")
    /\ dialog' = NoDialog
    /\ text' = IF Mutation[dialog.do].forgets THEN None ELSE text
    /\ UNCHANGED <<world, rows, query, calls, online, misled, missed>>

(* Away and back: the page starts over, what it had sent runs on, and the   *)
(* list is asked for unless that is under way.                              *)
Away ==
    /\ Happens("away") /\ Act /\ dialog = NoDialog
    /\ text' = None
    /\ calls' = [k \in DOMAIN calls |-> [Frozen(calls[k]) EXCEPT !.here = FALSE]]
    /\ fetch' = IF fetch.state = "idle" THEN Asked ELSE fetch
    /\ UNCHANGED <<world, rows, list, loaded, dialog, online, misled, missed>>

(***************************************************************************)
(* The server, as far as the pages can tell.                               *)
(***************************************************************************)
Accepts(d, i) ==
    CASE d \in Creates -> \E j \in Items : rows[j] = None
      [] OTHER -> /\ rows[i] \notin {None, Gone}
                  /\ page = "sites" /\ d \in {"start", "stop", "remove"} => ~rows[i].locked

Created(d) == CASE d = "create" -> [role : {"user"} \cup (IF power THEN {"admin"} ELSE {}),
                                    totpEnabled : {FALSE}, disabled : {FALSE}]
                [] d = "createManual" -> [source : {"manual"}, version : {0}]
                [] d = "issueAcme"    -> [source : {"acme"}, version : {0}]

Changed(d, r) ==
    CASE d \in {"start", "stop"} -> [r EXCEPT !.enabled = ~@]
      [] d = "lock"      -> [r EXCEPT !.locked = TRUE]
      [] d = "unlock"    -> [r EXCEPT !.locked = FALSE]
      [] d = "resetTotp" -> [r EXCEPT !.totpEnabled = FALSE]
      [] d = "disable"   -> [r EXCEPT !.disabled = TRUE]
      [] d = "enable"    -> [r EXCEPT !.disabled = FALSE]
      [] d \in {"renew", "update"} -> [r EXCEPT !.version = @ + 1]
      [] d = "remove"    -> Gone
      [] d = "resetPassword" -> r

(* A request done: identifiers are not used again. *)
Done(d, i) ==
    IF d \in Creates
    THEN \E j \in Items, r \in Created(d) : rows[j] = None /\ rows' = [rows EXCEPT ![j] = r]
    ELSE rows' = [rows EXCEPT ![i] = Changed(d, @)]

(* A request that has changed a row: how far it is, and the row it is at.   *)
Acted(k, s, i) ==
    /\ calls' = [calls EXCEPT ![k].state = s, ![k].item = i, ![k].did = TRUE]
    /\ UNCHANGED <<world, query, dialog, text, online, acts, misled, missed, seen>>

Serve(k) ==
    /\ calls[k].state = "sent" /\ calls[k].do \notin Inserts
    /\ Accepts(calls[k].do, calls[k].item)
    /\ Done(calls[k].do, calls[k].item)
    /\ Acted(k, "done", calls[k].item)

(* A wrong code, a weak password, a failed nginx -t, a row that is gone ... *)
Refuse(k) ==
    /\ calls[k].state = "sent"
    /\ calls' = [calls EXCEPT ![k].state = "refused"]
    /\ UNCHANGED <<world, rows, query, dialog, text, online, acts, misled, missed, seen>>

(* A renewal or an update is saved, and then nginx does not reload; or the   *)
(* issuance fails, and that is what is saved.  Either is told as a failure.  *)
ServeThenFail(k) ==
    /\ calls[k].state = "sent" /\ calls[k].do \in {"renew", "update"}
    /\ Accepts(calls[k].do, calls[k].item)
    /\ Done(calls[k].do, calls[k].item)
    /\ Acted(k, "refused", calls[k].item)

(* A new certificate: its row comes first, and is listed meanwhile; *)
Insert(k) ==
    /\ calls[k].state = "sent" /\ calls[k].do \in Inserts
    /\ \E j \in Items, r \in Created(calls[k].do) :
          rows[j] = None /\ rows' = [rows EXCEPT ![j] = r] /\ Acted(k, "inserted", j)

Stored(d, r) ==
    IF r \in {None, Gone}
    THEN [source |-> IF d = "issueAcme" THEN "acme" ELSE "manual", version |-> 1]
    ELSE [r EXCEPT !.version = @ + 1]

(* then the files, and the row is saved with their paths and dates, a row    *)
(* deleted meanwhile too; where that fails the row stays as it was inserted; *)
Fill(k) ==
    /\ calls[k].state = "inserted" /\ calls[k].do \in Inserts
    /\ \/ /\ rows' = [rows EXCEPT ![calls[k].item] = Stored(calls[k].do, @)]
          /\ Acted(k, "done", calls[k].meant)
       \/ UNCHANGED rows /\ Acted(k, "refused", calls[k].meant)

(* or there are no files, and the row is deleted again. *)
Withdraw(k) ==
    /\ calls[k].state = "inserted" /\ calls[k].do \in Inserts
    /\ rows' = [rows EXCEPT ![calls[k].item] = Gone]
    /\ Acted(k, "refused", calls[k].meant)

(* Somebody else, or a request of this page that it has given up as lost     *)
(* and that the server does later.                                           *)
OtherAdmin(d, i) ==
    /\ Happens("otherAdmin") /\ Act
    /\ d \in DOMAIN Mutation /\ d # "resetPassword" /\ Accepts(d, i) /\ Done(d, i)
    /\ missed' = TRUE
    /\ UNCHANGED <<world, query, dialog, text, calls, online, misled>>

(***************************************************************************)
(* Answers.                                                                *)
(***************************************************************************)
(* A success whose onSuccess reads a dialog that is closed throws, and is   *)
(* told as a failure.                                                       *)
Throws(c) == Mutation[c.do].reads /\ ~(IF c.watched THEN DialogOf(c.do) ELSE c.open)

Success(k) ==
    LET c == calls[k] IN
    /\ c.state = "done" /\ ~Throws(c)
    /\ dialog' = IF c.here /\ Mutation[c.do].closes /\ DialogOf(c.do) THEN NoDialog ELSE dialog
    /\ text' = IF c.here /\ Mutation[c.do].clears THEN None ELSE text
    /\ fetch' = IF Mutation[c.do].lists THEN Asked ELSE fetch
    /\ missed' = (missed \/ (Mutation[c.do].lists /\ Loading))
    /\ UNCHANGED misled

Failure(k) ==
    LET c == calls[k] IN
    /\ c.state \in {"refused", "lost"} \/ (c.state = "done" /\ Throws(c))
    /\ misled' = IF c.did /\ c.state # "lost" THEN misled \cup {c.do} ELSE misled
    /\ missed' = (missed \/ c.did)
    /\ UNCHANGED <<dialog, text, fetch>>

Answer(k) ==
    /\ Success(k) \/ Failure(k)
    /\ calls' = RemoveAt(calls, k)
    /\ UNCHANGED <<world, rows, list, loaded, online, acts, seen>>

(* The list: read, and shown. *)
FetchServe ==
    /\ fetch.state = "asked"
    /\ fetch' = [state |-> "answered", rows |-> rows]
    /\ missed' = FALSE
    /\ UNCHANGED <<world, rows, list, loaded, dialog, text, calls, online, acts, misled, seen>>

FetchArrives ==
    /\ fetch.state = "answered"
    /\ list' = fetch.rows /\ loaded' = TRUE
    /\ fetch' = [state |-> "idle", rows |-> fetch.rows]
    /\ UNCHANGED <<world, rows, dialog, text, calls, online, acts, misled, missed, seen>>

(***************************************************************************)
(* The network.                                                            *)
(***************************************************************************)
Lose(k) ==
    /\ calls[k].state \in {"sent", "inserted", "done"} /\ Happens("lost") /\ Act
    /\ calls' = [calls EXCEPT ![k].state = "lost"]
    /\ UNCHANGED <<world, rows, query, dialog, text, online, misled, missed>>

LoseList ==
    /\ fetch.state \in {"asked", "answered"} /\ Happens("lost") /\ Act
    /\ fetch' = [state |-> "idle", rows |-> list]
    /\ missed' = TRUE
    /\ UNCHANGED <<world, rows, list, loaded, dialog, text, calls, online, misled>>

Offline ==
    /\ online /\ Happens("offline") /\ Act
    /\ online' = FALSE
    /\ UNCHANGED <<world, rows, query, dialog, text, calls, misled, missed>>

(* Back on line: every waiting mutation runs, one the page still watches    *)
(* with the dialog as it is now; without a dialog to read it throws.        *)
Resumed(c) ==
    LET now == IF c.watched /\ Mutation[c.do].fromDialog
               THEN [c EXCEPT !.item = IF DialogOf(c.do) THEN dialog.item ELSE None,
                              !.text = text,
                              !.do = IF DialogOf(c.do) THEN dialog.do ELSE @]
               ELSE c
    IN  IF c.state # "paused" THEN c
        ELSE [now EXCEPT !.state = IF Mutation[c.do].fromDialog /\ now.item = None
                                   THEN "refused" ELSE "sent"]

(* The list is asked for again after them. *)
Online ==
    /\ ~online /\ online' = TRUE
    /\ calls' = [k \in DOMAIN calls |-> Resumed(calls[k])]
    /\ fetch' = IF fetch.state = "idle" THEN [state |-> "owed", rows |-> list] ELSE fetch
    /\ UNCHANGED <<world, rows, list, loaded, dialog, text, acts, misled, missed, seen>>

FetchOwed ==
    /\ fetch.state = "owed" /\ online /\ \A k \in DOMAIN calls : ~calls[k].waited
    /\ fetch' = [fetch EXCEPT !.state = "asked"]
    /\ UNCHANGED <<world, rows, list, loaded, dialog, text, calls, online, acts, misled, missed, seen>>

(***************************************************************************)
(* Specification.                                                          *)
(***************************************************************************)
FirstRows ==
    CASE page = "sites" -> [enabled : BOOLEAN, locked : {FALSE}]
      [] page = "users" -> [role : {"user", "admin"}, totpEnabled : {TRUE}, disabled : {FALSE}]
                               \cup {None}
      [] page = "certs" -> [source : {"manual", "acme"}, version : {0}] \cup {None}

Init ==
    /\ page \in {"sites", "users", "certs"}
    /\ power \in (IF page = "certs" THEN {FALSE} ELSE BOOLEAN)   \* no page of certificates asks
    /\ rows \in [Items -> FirstRows]
    /\ list = [i \in Items |-> None] /\ loaded = FALSE
    /\ fetch = [state |-> "asked", rows |-> list]
    /\ dialog = NoDialog /\ text = None /\ calls = << >>
    /\ online = TRUE /\ acts = MaxActs
    /\ misled = {}
    /\ missed = FALSE /\ seen = {}

User ==
    \/ \E d \in DOMAIN Mutation, i \in Items \cup {None} : OpenDialog(d, i)
    \/ \E d \in DOMAIN Mutation, i \in Items : ClickRow(d, i)
    \/ ConfirmSite \/ ConfirmUser \/ CreateCert \/ ConfirmCert
    \/ Type \/ Enter \/ Cancel \/ Away

Progress ==
    \/ \E k \in DOMAIN calls :
          \/ Serve(k) \/ Refuse(k) \/ ServeThenFail(k)
          \/ Insert(k) \/ Fill(k) \/ Withdraw(k)
          \/ Answer(k)
    \/ FetchServe \/ FetchArrives \/ FetchOwed

Environment ==
    \/ Offline \/ Online \/ LoseList
    \/ \E k \in DOMAIN calls : Lose(k)
    \/ \E d \in Requests, i \in Items : OtherAdmin(d, i)

Next == User \/ Progress \/ Environment

Spec == Init /\ [][Next]_vars

(***************************************************************************)
(* Properties.                                                             *)
(***************************************************************************)
Resting == calls = << >> /\ fetch.state = "idle" /\ online /\ loaded

(* A dialog may have been closed while its mutation was under way: by the   *)
(* user, or by the success of the same mutation asked for before.           *)
Closed == seen \cap {"cancel", "repeat"} # {}

(* What the server is asked to do, it is asked for the row the user pressed *)
(* the button on, with the code or the fields typed for that row, however   *)
(* the answers, the dialogs and the network come.  The exceptions: a        *)
(* mutation that reads its dialog, waiting off line while that dialog is    *)
(* closed and opened on another row (Users.tsx, Ssl.tsx and the lock of     *)
(* Sites.tsx), and the password typed for another account.                  *)
ConfirmedIsDone ==
    \A k \in DOMAIN calls :
        LET c == calls[k] IN
        c.state \in {"sent", "done"} =>
            \/ /\ c.item = c.meant
               /\ Mutation[c.do].typed /\ c.do # "resetPassword" => c.text = c.meant
            \/ c.waited /\ Closed /\ Mutation[c.do].fromDialog

(* Without that exception: what the dialogs say ("delete user X?").         *)
AlwaysConfirmed ==
    \A k \in DOMAIN calls :
        calls[k].state \in {"sent", "done"} => calls[k].item = calls[k].meant

(* The list at rest is the server's, however mutations, their answers and   *)
(* the lists asked for overlapped, unless something changed that nothing    *)
(* asked it again for: another administrator, a lost answer, a request told *)
(* as failed that had changed a row (a lock, and the certificate requests   *)
(* that store first and fail then: onErr asks for no list), or an answer    *)
(* while the very first list is on its way.                                 *)
RowsAreCurrent == Resting /\ ~missed => list = rows

(* A request that changed a row is told as done, if its answer comes.  Known*)
(* exceptions: the lock of a site, whose onSuccess reads the dialog and     *)
(* fails when that was closed; and the requests about certificates but the  *)
(* deletion: issued, renewed or replaced and saved, they are told as failed *)
(* where nginx does not reload or the last save fails, and where issuing    *)
(* fails they have recorded that, or shown a row for a while.               *)
DoneIsTold == misled \subseteq Halfway \cup (IF Closed THEN {"lock", "unlock"} ELSE {})

(* A password typed to reset an account's never is in the dialog of another *)
(* account; a cancelled dialog leaves it behind.                            *)
PasswordIsForUser == dialog.do = "resetPassword" => text \in {None, dialog.item}

(* A success closes no dialog but the one it was confirmed in.  It does     *)
(* not hold: onSuccess closes its kind of dialog whichever row that is open *)
(* on by then (Sites.tsx, Users.tsx, Ssl.tsx), once the first was cancelled *)
(* while its request ran, or asked for twice.                               *)
SuccessClosesOwn ==
    [][\A k \in DOMAIN calls :
          Answer(k) /\ dialog' # dialog => calls[k].meant = dialog.item]_vars

(* What "stop" promises: the site is down after it.  The request only flips *)
(* the switch, whichever way it is.                                         *)
StopStops ==
    [][\A k \in DOMAIN calls :
          Serve(k) /\ calls[k].do = "stop" => ~rows'[calls[k].item].enabled]_vars
=============================================================================
