------------------------------- MODULE Editor -------------------------------
(***************************************************************************)
(* The page that creates and edits a site: the form with its baseline, the *)
(* cached site behind it, the saves it has in flight, its certificate and  *)
(* file tabs, and the error boundary that reloads the application.         *)
(*                                                                         *)
(* One component serves "new" and every "edit": going from one to another  *)
(* keeps its state, coming from any other page starts a new one.  Answers  *)
(* come when they come; those of a page that is gone set no state, but     *)
(* still ask for lists and still navigate.                                 *)
(***************************************************************************)
EXTENDS Naturals, FiniteSets, Sequences, SequencesExt

CONSTANTS
    Sites,      \* identifiers of sites
    None,       \* no site, no value
    StorageOk,  \* sessionStorage can be used
    Window,     \* AUTO_RELOAD_WINDOW, in ticks
    Faults,     \* what may happen besides: a subset of FaultKinds
    MaxKinds,   \* bound: kinds of faults in one behaviour
    MaxActs,    \* bound: what the user and the environment do
    Quiet       \* bound: those left to a behaviour without faults (Tame)

FaultKinds == {"lost",        \* a request or its answer is lost
               "typing",      \* the user types on while the form is saved
               "overlap",     \* a file is opened while another is fetched
               "moved",       \* a created site's page opens over a file
               "otherAdmin",  \* somebody else saves or locks a site
               "crash"}       \* an error while rendering

ASSUME SitesAssumption  == IsFiniteSet(Sites) /\ Sites \cap {None, "new", "away"} = {}
ASSUME WindowAssumption == Window \in Nat \ {0} /\ StorageOk \in BOOLEAN
ASSUME FaultsAssumption == Faults \subseteq FaultKinds
ASSUME BoundsAssumption == MaxKinds \in Nat /\ MaxActs \in Nat /\ Quiet \in Nat

(* A site: where it proxies to, the rest of its form, the certificate bound *)
(* to it, and whether it is locked.  Two values of each tell a change.      *)
Two  == {0, 1}
Form == [to : Two, rest : Two]
Site == [to : Two, rest : Two, cert : Two, locked : BOOLEAN]
Keys == {"site", "loc"}         \* the files of a site
Blank == [to |-> None, rest |-> None]

ASSUME NoneAssumption == None \notin Two \cup Site

Fields(s) == [to |-> s.to, rest |-> s.rest]

VARIABLES
    server,     \* the sites, None before they exist
    cache,      \* cached data of ["site", id], None before the first answer
    fetch,      \* its request: idle, asked, or answered with a value
    route,      \* the site edited, "new", or "away"
    form,       \* name, domains, redirect, rawOverride, locations
    base,       \* baseline: the form as it was loaded
    loaded,     \* loadedId
    confirm,    \* confirmSave: the dialog about new targets is open
    saves,      \* submissions under way, oldest first
    tab,        \* "config", "ssl" or "files"
    file,       \* the file being edited: key, content (of a site's file), loading
    gets,       \* files asked for: of which site, which one
    aside,      \* the request of the certificate or file tab under way
    broken,     \* the error boundary shows its screen
    since,      \* ticks since the last automatic reload, Window + 1 at most
    recent,     \* history: automatic reloads, none of them Window after the last
    acts,       \* actions left to the user and the environment
    seen        \* history: the faults that have happened

editor  == <<form, base, loaded, confirm>>
tabs    == <<tab, file, gets, aside>>
query   == <<cache, fetch>>
crashes == <<broken, since, recent>>
vars    == <<server, cache, fetch, route, form, base, loaded, confirm, saves, tab, file, gets,
             aside, broken, since, recent, acts, seen>>

Empty   == <<None, "none">>     \* the content of no site's file
NoFile  == [key |-> "none", content |-> Empty, loading |-> FALSE]
Idle    == [state |-> "idle", val |-> None]
NoAside == [kind |-> "none", site |-> None, key |-> "none", content |-> Empty, state |-> "none"]

TypeOK ==
    /\ server \in [Sites -> Site \cup {None}] /\ cache \in [Sites -> Site \cup {None}]
    /\ \A s \in Sites : fetch[s].state \in {"idle", "asked", "answered"}
                        /\ fetch[s].val \in Site \cup {None}
    /\ route \in Sites \cup {"new", "away"}
    /\ form \in [to : Two \cup {None}, rest : Two \cup {None}] /\ base \in Form \cup {Blank}
    /\ loaded \in Sites \cup {None} /\ confirm \in BOOLEAN
    /\ saves \in Seq([site : Sites \cup {"new"}, body : Form, base : Form \cup {Blank},
                      from : Sites \cup {None}, asked : BOOLEAN, here : BOOLEAN,
                      state : {"sent", "done", "failed"}, id : Sites \cup {None}])
    /\ tab \in {"config", "ssl", "files"}
    /\ file \in [key : Keys \cup {"none"}, content : (Sites \X Keys) \cup {Empty}, loading : BOOLEAN]
    /\ gets \subseteq Sites \X Keys
    /\ aside \in [kind : {"none", "bind", "file"}, site : Sites \cup {None},
                  key : Keys \cup {"none"}, content : (Sites \X Keys) \cup {Empty},
                  state : {"none", "sent", "done", "failed"}]
    /\ broken \in BOOLEAN /\ since \in 0..(Window + 1) /\ recent \in Nat
    /\ acts \in 0..MaxActs /\ seen \subseteq Faults

(* The last Quiet acts are for behaviours without faults, or with a page    *)
(* that opens over a file, which takes more acts than the others.           *)
Tame == {"moved"}
Happens(f) == /\ f \in Faults /\ Cardinality(seen \cup {f}) <= MaxKinds
              /\ f \in Tame \/ acts > Quiet
              /\ seen' = seen \cup {f}
If(b, f)   == IF b THEN Happens(f) ELSE UNCHANGED seen
Act        == /\ acts > IF seen \subseteq Tame THEN 0 ELSE Quiet
              /\ acts' = acts - 1

(***************************************************************************)
(* What the page shows.                                                    *)
(***************************************************************************)
Editing == route \in Sites
Open    == ~broken /\ (route = "new" \/ (Editing /\ (cache[route] # None \/ fetch[route].state = "idle")))
Known   == Editing /\ cache[route] # None
Locked  == Known /\ cache[route].locked

Submitting == \E k \in DOMAIN saves : saves[k].here

\* Mutant: compared with the latest answer, not with the baseline (TargetsChanged).
TargetsChangedSince == Known /\ loaded # None /\ form.to # cache[route].to

(* The targets differ from the ones the form was loaded with. *)
TargetsChanged == Editing /\ loaded # None /\ base # Blank /\ form.to # base.to

Dirty == Editing /\ loaded # None /\ form # base

\* Mutant: the form remembers the site, not its identifier (Apply).
ApplyWhole(id, s) == form' = Fields(s) /\ base' = Fields(s) /\ loaded' = s

(* applyServerState: the form, its baseline and whose they are. *)
Apply(id, s) == form' = Fields(s) /\ base' = Fields(s) /\ loaded' = id

\* Mutant: every answer fills the form (Shown).
ShownAlways(id, c) ==
    IF id \in Sites /\ c[id] # None THEN Apply(id, c[id]) ELSE UNCHANGED <<form, base, loaded>>

(* The effect: data of another site than the one loaded fills the form. *)
Shown(id, c) ==
    IF id \in Sites /\ c[id] # None /\ loaded # id THEN Apply(id, c[id])
    ELSE UNCHANGED <<form, base, loaded>>

(* A new component at route r; the data cached is shown at once. *)
Fresh(r) ==
    /\ IF r \in Sites /\ cache[r] # None THEN Apply(r, cache[r])
       ELSE form' = Blank /\ base' = Blank /\ loaded' = None
    /\ confirm' = FALSE

(* The query of route r is asked: at its mount, unless it is under way. *)
Mounts(r) == IF r \in Sites /\ fetch[r].state = "idle"
             THEN [fetch EXCEPT ![r] = [state |-> "asked", val |-> None]] ELSE fetch

(* Invalidated: asked again if the page shows it, what was under way is     *)
(* dropped unless it is the first.                                          *)
Invalidated(s) == IF route = s /\ (cache[s] # None \/ fetch[s].state = "idle")
                  THEN [fetch EXCEPT ![s] = [state |-> "asked", val |-> None]] ELSE fetch

NoTabs == tab' = "config" /\ file' = NoFile /\ gets' = {}

Left(w) == [k \in DOMAIN w |-> [w[k] EXCEPT !.here = FALSE]]

(***************************************************************************)
(* The form.                                                               *)
(***************************************************************************)
Free == Open /\ ~confirm /\ file.key = "none" /\ Act

(* From the list; and back to it, or to any other page, without being asked.*)
Enter(r) ==
    /\ route = "away" /\ ~broken /\ Act
    /\ r = "new" \/ (r \in Sites /\ server[r] # None)
    /\ route' = r
    /\ Fresh(r) /\ fetch' = Mounts(r) /\ NoTabs
    /\ UNCHANGED <<server, cache, saves, aside, crashes, seen>>

Leave ==
    /\ route # "away" /\ Free
    /\ route' = "away" /\ saves' = Left(saves)
    /\ Fresh("away") /\ NoTabs
    /\ UNCHANGED <<server, query, aside, crashes, seen>>

(* The fields: another target, or anything else. *)
Typing == Free /\ tab = "config" /\ If(Submitting, "typing")
          /\ UNCHANGED <<server, query, route, base, loaded, confirm, saves, tabs, crashes>>

TypeTarget == Typing /\ \E v \in Two \ {form.to} : form' = [form EXCEPT !.to = v]

TypeRest == Typing /\ \E v \in Two \ {form.rest} : form' = [form EXCEPT !.rest = v]

(* onSubmit: the closure's values; without a domain and a target it ends. *)
Submit(asked) ==
    /\ form \in Form
    /\ saves' = Append(saves, [site |-> route, body |-> form, base |-> base, from |-> loaded,
                               asked |-> asked, here |-> TRUE, state |-> "sent", id |-> None])

(* handleSave: new targets are confirmed first. *)
Save ==
    /\ Free /\ tab = "config" /\ ~Submitting /\ ~Locked /\ Len(saves) < 2
    /\ IF TargetsChanged THEN confirm' = TRUE /\ UNCHANGED saves
                         ELSE Submit(FALSE) /\ UNCHANGED confirm
    /\ UNCHANGED <<server, query, route, form, base, loaded, tabs, crashes, seen>>

ConfirmSave ==
    /\ confirm /\ Open /\ ~Submitting /\ ~Locked /\ Act
    /\ confirm' = FALSE /\ Submit(TRUE)
    /\ UNCHANGED <<server, query, route, form, base, loaded, tabs, crashes, seen>>

CancelSave ==
    /\ confirm /\ Open /\ Act
    /\ confirm' = FALSE
    /\ UNCHANGED <<server, query, route, form, base, loaded, saves, tabs, crashes, seen>>

(* The server: an update of a site that is not locked, or a new site. *)
ServeSave(k) ==
    LET w == saves[k] IN
    /\ w.state = "sent"
    /\ \E s \in Sites :
          /\ IF w.site = "new"
             THEN /\ server[s] = None
                  /\ server' = [server EXCEPT ![s] = [to |-> w.body.to, rest |-> w.body.rest,
                                                      cert |-> 0, locked |-> FALSE]]
             ELSE /\ s = w.site /\ server[s] # None /\ ~server[s].locked
                  /\ server' = [server EXCEPT ![s] = [@ EXCEPT !.to = w.body.to, !.rest = w.body.rest]]
          /\ saves' = [saves EXCEPT ![k].state = "done", ![k].id = s]
    /\ UNCHANGED <<query, route, editor, tabs, crashes, acts, seen>>

RefuseSave(k) ==
    /\ saves[k].state = "sent"
    /\ saves' = [saves EXCEPT ![k].state = "failed"]
    /\ UNCHANGED <<server, query, route, editor, tabs, crashes, acts, seen>>

(* An update answered: the form takes what was saved, typed over or not;    *)
(* then the effect, if the page has moved on to another site.               *)
Updated(k) ==
    LET w == saves[k] IN
    /\ w.state = "done" /\ w.site # "new"
    /\ IF ~w.here THEN UNCHANGED <<form, base, loaded>>
       ELSE IF Editing /\ route # w.id /\ Known THEN Apply(route, cache[route])
       ELSE form' = w.body /\ base' = w.body /\ loaded' = w.id
    /\ fetch' = Invalidated(w.id)
    /\ saves' = RemoveAt(saves, k)
    /\ UNCHANGED <<server, cache, route, confirm, tabs, crashes, acts, seen>>

(* A file that is open stays open on the page of site r: nothing tells the  *)
(* tab's component that its site is another one.                            *)
Kept(r) == file.key # "none" /\ route # r /\ cache[r] # None

(* A site created: on to its page, from wherever the user is by now. *)
Created(k) ==
    LET w == saves[k] IN
    /\ w.state = "done" /\ w.site = "new"
    /\ route' = w.id
    /\ IF broken THEN UNCHANGED <<editor, tab, file, gets>>
       ELSE IF route = "away" THEN Fresh(w.id) /\ NoTabs
       ELSE /\ Shown(w.id, cache) /\ UNCHANGED <<confirm, tab>>
            /\ IF cache[w.id] # None THEN UNCHANGED <<file, gets>> ELSE file' = NoFile /\ gets' = {}
    /\ fetch' = Mounts(w.id)
    /\ saves' = RemoveAt(saves, k)
    /\ If(Kept(w.id), "moved")
    /\ UNCHANGED <<server, cache, aside, crashes, acts>>

SaveFailed(k) ==
    /\ saves[k].state = "failed"
    /\ saves' = RemoveAt(saves, k)
    /\ UNCHANGED <<server, query, route, editor, tabs, crashes, acts, seen>>

(***************************************************************************)
(* The cached site.                                                        *)
(***************************************************************************)
FetchServe(s) ==
    /\ fetch[s].state = "asked" /\ server[s] # None
    /\ fetch' = [fetch EXCEPT ![s] = [state |-> "answered", val |-> server[s]]]
    /\ UNCHANGED <<server, cache, route, editor, saves, tabs, crashes, acts, seen>>

FetchArrives(s) ==
    /\ fetch[s].state = "answered"
    /\ cache' = [cache EXCEPT ![s] = fetch[s].val]
    /\ fetch' = [fetch EXCEPT ![s] = Idle]
    /\ IF ~broken THEN Shown(route, cache') ELSE UNCHANGED <<form, base, loaded>>
    /\ UNCHANGED <<server, route, confirm, saves, tabs, crashes, acts, seen>>

FetchFails(s) ==
    /\ fetch[s].state # "idle" /\ Happens("lost") /\ Act
    /\ fetch' = [fetch EXCEPT ![s] = Idle]
    /\ UNCHANGED <<server, cache, route, editor, saves, tabs, crashes>>

(* Back on line: what is shown is asked for again. *)
Reconnect ==
    /\ Known /\ ~broken /\ fetch[route].state = "idle" /\ Act
    /\ fetch' = [fetch EXCEPT ![route] = [state |-> "asked", val |-> None]]
    /\ UNCHANGED <<server, cache, route, editor, saves, tabs, crashes, seen>>

SaveLost(k) ==
    /\ saves[k].state \in {"sent", "done"} /\ Happens("lost") /\ Act
    /\ saves' = [saves EXCEPT ![k].state = "failed"]
    /\ UNCHANGED <<server, query, route, editor, tabs, crashes>>

OtherAdmin(s) ==
    /\ Happens("otherAdmin") /\ Act
    /\ server[s] # None
    /\ \/ server' = [server EXCEPT ![s].locked = ~@]
       \/ ~server[s].locked /\ server' = [server EXCEPT ![s].to = 1 - @]
       \/ ~server[s].locked /\ server' = [server EXCEPT ![s].rest = 1 - @]
    /\ UNCHANGED <<query, route, editor, saves, tabs, crashes>>

(***************************************************************************)
(* The other tabs.  A tab that is left is gone, and what it had fetched.   *)
(***************************************************************************)
SwitchTab(t) ==
    /\ Known /\ Free /\ t # tab
    /\ tab' = t /\ file' = NoFile /\ gets' = {}
    /\ UNCHANGED <<server, query, route, editor, saves, aside, crashes, seen>>

(* SiteSsl: another certificate, or none. *)
Bind ==
    /\ Known /\ Free /\ tab = "ssl" /\ aside.kind = "none" /\ ~Locked
    /\ aside' = [NoAside EXCEPT !.kind = "bind", !.site = route, !.state = "sent"]
    /\ UNCHANGED <<server, query, route, editor, saves, tab, file, gets, crashes, seen>>

\* Mutant: the editor is not closed to the user meanwhile (OpenFile).
OpenFileAtOnce(key) ==
    /\ Known /\ Free /\ tab = "files"
    /\ If(gets # {}, "overlap")
    /\ file' = [key |-> key, content |-> Empty, loading |-> FALSE]
    /\ gets' = gets \cup {<<route, key>>}
    /\ UNCHANGED <<server, query, route, editor, saves, tab, aside, crashes>>

(* SiteFiles.open: nothing is shown until the file is there. *)
OpenFile(key) ==
    /\ Known /\ Free /\ tab = "files"
    /\ If(gets # {}, "overlap")
    /\ file' = [key |-> key, content |-> Empty, loading |-> TRUE]
    /\ gets' = gets \cup {<<route, key>>}
    /\ UNCHANGED <<server, query, route, editor, saves, tab, aside, crashes>>

CloseFile ==
    /\ file.key # "none" /\ ~broken /\ Act
    /\ file' = [file EXCEPT !.key = "none"]
    /\ UNCHANGED <<server, query, route, editor, saves, tab, gets, aside, crashes, seen>>

(* The content arrives, and stops the spinner, whatever is open by then, on *)
(* whichever site's page.                                                   *)
FileArrives(g) ==
    /\ g \in gets /\ gets' = gets \ {g}
    /\ file' = [file EXCEPT !.content = g, !.loading = FALSE]
    /\ UNCHANGED <<server, query, route, editor, saves, tab, aside, crashes, acts, seen>>

FileFails(g) ==
    /\ g \in gets /\ gets' = gets \ {g} /\ Happens("lost") /\ Act
    /\ file' = [file EXCEPT !.loading = FALSE]
    /\ UNCHANGED <<server, query, route, editor, saves, tab, aside, crashes>>

(* SiteFiles.save: what the editor holds, to the site whose page is shown. *)
SaveFile ==
    /\ file.key # "none" /\ ~file.loading /\ ~broken /\ ~Locked /\ Act
    /\ aside.kind = "none"
    /\ aside' = [kind |-> "file", site |-> route, key |-> file.key, content |-> file.content,
                 state |-> "sent"]
    /\ UNCHANGED <<server, query, route, editor, saves, tab, file, gets, crashes, seen>>

(* The server binds the certificate, or applies the file. *)
ServeAside ==
    /\ aside.state = "sent" /\ server[aside.site] # None /\ ~server[aside.site].locked
    /\ server' = IF aside.kind = "bind" THEN [server EXCEPT ![aside.site].cert = 1 - @] ELSE server
    /\ aside' = [aside EXCEPT !.state = "done"]
    /\ UNCHANGED <<query, route, editor, saves, tab, file, gets, crashes, acts, seen>>

RefuseAside ==
    /\ aside.state = "sent"
    /\ aside' = [aside EXCEPT !.state = "failed"]
    /\ UNCHANGED <<server, query, route, editor, saves, tab, file, gets, crashes, acts, seen>>

(* Answered: the site is asked for again, and the file closed. *)
AsideAnswer ==
    /\ aside.state \in {"done", "failed"}
    /\ fetch' = IF aside.state = "done" THEN Invalidated(aside.site) ELSE fetch
    /\ file' = IF aside.state = "done" /\ aside.kind = "file" /\ tab = "files"
               THEN [file EXCEPT !.key = "none"] ELSE file
    /\ aside' = NoAside
    /\ UNCHANGED <<server, cache, route, editor, saves, tab, gets, crashes, acts, seen>>

(***************************************************************************)
(* The error boundary.                                                     *)
(***************************************************************************)
Tick == /\ since <= Window /\ Act /\ since' = since + 1
        /\ UNCHANGED <<server, query, route, editor, saves, tabs, broken, recent, seen>>

(* Everything the application kept is gone; the address stays. *)
Reloaded ==
    /\ cache' = [s \in Sites |-> None]
    /\ fetch' = [s \in Sites |-> IF s = route THEN [state |-> "asked", val |-> None] ELSE Idle]
    /\ form' = Blank /\ base' = Blank /\ loaded' = None /\ confirm' = FALSE
    /\ saves' = << >> /\ NoTabs /\ aside' = NoAside

\* Mutant: the time of the last reload is never stored (Remembered).
Forgotten == Window + 1

(* The time since the last automatic reload; for ever without a storage. *)
Remembered == IF StorageOk THEN since ELSE Window + 1

(* The screen in place of the application; its answers still come. *)
Screen ==
    /\ broken' = TRUE /\ saves' = Left(saves)
    /\ form' = Blank /\ base' = Blank /\ loaded' = None /\ confirm' = FALSE /\ NoTabs
    /\ UNCHANGED <<query, aside, since, recent>>

(* componentDidCatch: where the DOM does not match, reload, but not twice   *)
(* in a window; any other error shows the screen.                           *)
Crash ==
    /\ ~broken /\ Happens("crash") /\ Act
    /\ \/ /\ Remembered > Window
          /\ since' = 0 /\ recent' = IF since > Window THEN 1 ELSE recent + 1
          /\ Reloaded /\ UNCHANGED broken
       \/ Remembered <= Window /\ Screen
    /\ UNCHANGED <<server, route>>

RenderError ==
    /\ ~broken /\ Happens("crash") /\ Act
    /\ Screen
    /\ UNCHANGED <<server, route>>

(* The button of its screen; or the browser's, which asks when Dirty. *)
Reload ==
    /\ Act
    /\ Reloaded /\ broken' = FALSE
    /\ UNCHANGED <<server, route, since, recent, seen>>

(***************************************************************************)
(* Specification.                                                          *)
(***************************************************************************)
Init ==
    /\ server \in [Sites -> {[to |-> 0, rest |-> 0, cert |-> 0, locked |-> FALSE], None}]
    /\ cache = [s \in Sites |-> None] /\ fetch = [s \in Sites |-> Idle]
    /\ route = "away" /\ form = Blank /\ base = Blank /\ loaded = None /\ confirm = FALSE
    /\ saves = << >> /\ tab = "config" /\ file = NoFile /\ gets = {} /\ aside = NoAside
    /\ broken = FALSE /\ since = Window + 1 /\ recent = 0
    /\ acts = MaxActs /\ seen = {}

User ==
    \/ \E r \in Sites \cup {"new"} : Enter(r)
    \/ TypeTarget \/ TypeRest
    \/ Leave \/ Save \/ ConfirmSave \/ CancelSave
    \/ \E t \in {"config", "ssl", "files"} : SwitchTab(t)
    \/ Bind \/ CloseFile \/ SaveFile \/ Reload
    \/ \E key \in Keys : OpenFile(key)

Answers ==
    \/ \E k \in DOMAIN saves : ServeSave(k) \/ RefuseSave(k) \/ Updated(k) \/ Created(k) \/ SaveFailed(k)
    \/ \E s \in Sites : FetchServe(s) \/ FetchArrives(s)
    \/ \E g \in gets : FileArrives(g)
    \/ ServeAside \/ RefuseAside \/ AsideAnswer

Environment ==
    \/ Tick \/ Crash \/ RenderError \/ Reconnect
    \/ \E s \in Sites : FetchFails(s) \/ OtherAdmin(s)
    \/ \E k \in DOMAIN saves : SaveLost(k)
    \/ \E g \in gets : FileFails(g)

Next == User \/ Answers \/ Environment

Spec == Init /\ [][Next]_vars

(***************************************************************************)
(* Properties.                                                             *)
(***************************************************************************)
(* "A refetch of the same site must not overwrite an unsaved draft"         *)
(* (SiteForm.tsx:126): what was typed goes only with a save, with the page, *)
(* or with the application, whatever tabs and reconnections ask for again.  *)
DraftStays ==
    [][Dirty /\ loaded = route /\ form' # form =>
          \/ TypeTarget \/ TypeRest
          \/ route' # route \/ Len(saves') < Len(saves) \/ cache' = [s \in Sites |-> None] \/ broken']_vars

(* A save goes to the site its form was loaded from, and sends traffic to   *)
(* other targets than those the user was shown only if he confirmed it, for *)
(* all the answers that fill the form and move the page meanwhile.  (A site *)
(* whose load failed is a blank form, or the last one.)                     *)
SavesAreMeant ==
    \A k \in DOMAIN saves :
        LET w == saves[k] IN
        w.site # "new" =>
            /\ w.from = w.site \/ "lost" \in seen
            /\ w.from = w.site /\ w.body.to # w.base.to => w.asked

(* "... can each be edited on its own" (SiteFiles.tsx:61): the content saved *)
(* to a site's file is the one that was fetched for it, from that site,     *)
(* unless another fetch was under way or failed.  Only where the answer of a *)
(* create took the user to the new site's page while a file was open, which *)
(* the tab then keeps, it may be another site's; it is the same file's.     *)
FileIsItsOwn ==
    aside.kind = "file" /\ seen \cap {"overlap", "lost"} = {} =>
        \/ aside.content = <<aside.site, aside.key>>
        \/ "moved" \in seen /\ aside.content \in Sites \X {aside.key}

(* The same without exception. *)
FileIsAlwaysItsOwn == aside.kind = "file" => aside.content = <<aside.site, aside.key>>

(* "At most one automatic reload in a window, so that no endless loop       *)
(* comes about" (ErrorBoundary.tsx:9), however often the page crashes.      *)
ReloadsAreSpaced == recent <= 1

(* A form without changes shows what the server has, once nothing is under  *)
(* way and nobody else changes the site.                                    *)
CleanIsCurrent ==
    /\ Known /\ Open /\ ~Dirty /\ saves = << >> /\ fetch[route].state = "idle"
    /\ seen \cap {"otherAdmin", "lost"} = {}
    => form = Fields(server[route])
=============================================================================
