# NginxPanel-Lite, specified

TLA+ modules for the panel in `src/`: what its parts keep, what each of their
operations does step by step, which properties make them correct, and which of
these hold. TLC checks small instances, TLAPS proves the most important results
for every instance. `PROJECT.json` lists the runs, the definitions with the
lines of code each stands for, the hazards, the findings and the theorems.

## The system

The panel is one Go process in front of one nginx container. It keeps rows in a
SQLite database (one connection: every database call is atomic, and nothing but
an explicit transaction spans two calls) and files that nginx reads. Requests
run concurrently, one goroutine each; a nightly job renews certificates.

| Component | State | Operations | Properties |
|---|---|---|---|
| nginx service (`internal/nginx/service.go`, `docker.go`, `paths.go`) | `sites/site-<id>`, `.staging`, `backups`, a mutex; what nginx has loaded | ApplySite, RemoveSite, SaveSiteFile, RestoreBackup, Reload, ReconcileSites | what lies under `sites/` passes `nginx -t` whenever no call is running; a call succeeds or changes nothing; nothing is put aside without a backup; calls return |
| site handlers (`handlers/sites_handler.go`) | rows of sites | create, update, toggle, delete, lock, bind a certificate, edit a file, restore a backup | the row says what is served; a locked site does not change; a deleted one does not come back |
| certificate handlers (`handlers/cert_handler.go`) | rows of certificates | upload, issue, update, renew, delete | no site names a certificate that is gone |
| key pair files (`ssl/store.go`) | `fullchain.pem`, `privkey.pem` and their temporary names | writeCertKeyPair | both halves or neither |
| accounts (`handlers/auth_handler.go`, `users_handler.go`, `middleware/`, `auth/jwt.go`) | rows of users; the signed tokens in browsers | setup, login, second factor, passwords, disabling, deleting | a session that is accepted has proved what the row demands; one system admin |
| limiter (`auth/ratelimit.go`) | failed attempts per key, in memory | Allowed, Fail, Reset | a lock holds; failures lock |
| ACME (`ssl/acme.go`, `account.go`) | account key and registration files | Issue | a registration belongs to the key beside it |
| scheduler (`ssl/renew.go`) | none; it goes by the rows of certificates | RunOnce | what is due is renewed; new files reach nginx; a row does not promise more than the files hold |
| boot (`database/database.go`, `app/app.go`) | the schema, the settings | Migrate, the backfills, ReconcileSites | a boot after a boot that died finishes its work |
| rendering, log tail (`nginx/template.go`, `logtail.go`) | none | Render, tailFile | distinct locations get distinct files; the tail is the end of the file |
| session and routes of the application (`web/src/auth`, `api/client.ts`, `Login`, `Setup`, `TotpEnroll`, `TotpVerify`, `ChangePassword`, `Layout`) | the cached answer of `/auth/me`, the address, the cookie, requests in flight | log in, set up, enroll, verify, re-bind, log out, redirects of the guards | they come to rest on the page the session is good for |
| list pages (`pages/Sites.tsx`, `Users.tsx`, `Ssl.tsx`) | the cached list, the open dialog, what is typed in it, mutations under way | every button of a row, every dialog, off line too | what is confirmed is what is done, and the list shows it |
| site editor (`pages/SiteForm.tsx`, `SiteFiles.tsx`, `SiteSsl.tsx`, `ErrorBoundary.tsx`) | the form, its baseline, the cached site, the file being edited | type, save, confirm, open files, bind, leave, reload | a draft stays; a save goes where it was meant; a file gets its own content |
| log pages and widgets (`SiteLogs.tsx`, `Logs.tsx`, `components/ui`) | what they show | none that changes anything but one clear | none beyond showing what they ask for |

How they interact: a handler loads a row, calls the nginx service with the
row it would like to have, and saves the row when the service has succeeded.
The service serialises its calls with one mutex; the handlers do not. The
certificate handlers and the scheduler write key pairs that site trees name,
and reload nginx through the service. At boot `ReconcileSites` writes the
trees that are missing before the first request is served. The application in
the browser is another concurrent program: React Query caches what the server
answers and runs the mutations, React Router's guards act on the cached user,
and the HTTP client turns refusals into events that navigate.

What is hard: every file operation can fail half-way through a swap; the panel
can die at any point; a reload can take effect and be reported as failed; two
requests on one row overlap, and `Save` of the ORM writes every column of a
stale copy and even inserts a row that has been deleted; two writers of one
key pair share their temporary files. In the browser every answer arrives in a
state that is not the one the request was sent in: another page, another
dialog, a form typed on, a user logged out; and off line a mutation runs when
the network is back, with what is on screen then. The hazards in `PROJECT.json` give each
of these its line.

## Modules

| Module | Models | Extended or checked by |
|---|---|---|
| `SiteTrees` | the directory tree of a site and the jobs of the service | `SiteApply`, `SiteGate` |
| `SiteApply` | `service.go`, file operation by file operation | `MCSiteApply`, `SiteApplyProofs` |
| `SiteGate` | what the service promises: an atomic gate | refined by `SiteApply` (`Promise`), `SiteApplyProofs` |
| `SitePanel` | the site and certificate handlers, deaths of the panel, `ReconcileSites` | `MCSitePanel`, `SitePanelProofs` |
| `CertPair` | `writeCertKeyPair` | `MCCertPair`, `CertPairProofs` |
| `Renewal` | re-issuance by hand and by night, dates of expiry, the reload that is owed | `MCRenewal`, `RenewalProofs` |
| `Accounts` | accounts, sessions, middleware | `MCAccounts`, `AuthProofs` |
| `Limiter` | the attempt limiter | `MCLimiter`, `AuthProofs` |
| `Console` | the cached user, the guards and the pages of the session, with what the server would answer | `ConsoleProofs` |
| `Pages` | the lists of sites, users and certificates, their dialogs and mutations | `MCPages`, `PagesProofs` |
| `Editor` | the page that creates and edits a site, its tabs, the error boundary | `MCEditor`, `EditorProofs` |

The `MC` modules only hold what the configurations give to the constants and
the symmetries. A module that models code gives each definition next to its
mutants: an operator that changes the definition below it as a plausible bug
would. `PROJECT.json` says which property each of them breaks.

### SiteApply and SiteGate

`pc[r]` is the next operation of caller `r` inside the service, `job[r]` what
it was called with, `mu` the holder of `s.mu`. `live[s]`, `staging[s]`,
`aside[s][t]` and `backups[s][t]` are `sites/site-<s>`, `.staging/site-<s>`,
the directory a swap has moved aside in second `t`, and `backups/<t>/site-<s>`;
`running` is what nginx has loaded. `had`, `ts` and `todo` are the locals of
the holder (whether there was a directory, its timestamp, the files still to
copy), `new[r]` the tree a caller has rendered or read. Each file operation is
an action with a failing twin (`Swap`/`SwapFail`); copying a tree into the
backup is one action per file. `nginx -t` is the constant predicate `Accepted`
on all live trees together, so that the configuration of one site may need
what another defines. A reload that fails may have taken effect (`LostReply`).
`Crash` keeps the directories and is final in this module: `SitePanel` has the
boot. A restore reads its backup before it takes the mutex, as the code does,
file by file.

`SiteGate` says what callers may rely on: a call takes effect at once
(`Commit`) or not at all (`Abort`), with two explicit exceptions, a lost reply
and a crash. `SiteApply` implements it under the mapping `Seen*`: while a call
is inside the pipeline the gate still shows the directory that a rollback
would bring back.

### SitePanel

One action per database call and per call of the service. `job[r]` holds the
copy of the row that the handler works on, so that a save writes back what was
loaded. That the calls of the service are single steps here is what the
theorem `Refinement` allows. `Settle` keeps the history below. A tree is its configuration, the certificate
whose files it names and whether it was edited by hand; `backup[s]` is any one
of the trees that were replaced, because the admin may pick any. Ids are not
reused (the schema's AUTOINCREMENT), so the supply of ids bounds the model.

The boot is `ReconcileSites` site by site: `left` are the sites it has not come
to. `Reconcile` removes the tree of a disabled site, or writes the one that is
missing; `ReconcileFail` is a removal or a write that fails, in part or
altogether, which the code logs or ignores, or at which the panel dies; then it
goes on, or starts again (`BootDies`). It writes in place, without staging and
without `nginx -t`. What it leaves half-way is a `Fragment`: a directory without
`site.conf`, which nginx does not include and the next boot fills, or one with it
(`Parts`), which every later boot takes for a tree and keeps. A fragment that
`nginx -t` refuses makes every call fail that does not replace it, on any site
(`LiveIsValid` below).

`apart` is history: the sites of which the code is known to have left row and
tree apart, because a save failed after its apply, or the panel died between
the two, or files of a disabled site were edited, or a boot, or the rollback of a
site that had no tree, broke off at its files. A later save that succeeds
after its apply, or a boot that renders or removes its tree, takes a site out
again. `TreesFollowRows` (its
parts are `LiveIsModel`, `DisabledIsOff` and `DeletedIsOff`) is about the other
sites, so a failure excuses only what it concerns and only until the code has
had its chance to make up for it.

A second fault, in the rename that undoes a failed swap, is left to `SiteApply`.

### CertPair

`file[n]` is what the file `n` holds, `pc[w]` the next operation of writer
`w`. Nothing locks: two writers interleave freely. Any operation of the system
may fail, the ones whose error the code ignores included, and a failed
`WriteFile` leaves a torn file. `faults[w]` and `old[w]` are history, the
failures of the running call and what it found; a call that the panel's death
ends is `"dead"`, and the next call meets whatever that left.

### Renewal

`rows[c]` and `pair[c]` are the date of expiry in the row of a certificate and
in its files, of which only "good" or "due" (within `renewThreshold`) matters;
an issuance brings files that are "good"; an upload (`UpdateCert` with a PEM)
only has to be unexpired, and may be due at once. `acme` are the certificates the
CA has issued, among them all of `Lucky`, and the others were uploaded: no
operation turns one kind into the other. `bound` are the certificates sites use,
`stale` those whose files nginx has not read since they changed. `job[p]` is the loaded row of a handler, or the sweep:
the rows it found (`todo`) and those it has renewed (`changed`), which decide on
the one reload at its end. `Age` lets a date come near wherever it has been
copied to, but not within the call that has just issued it, which takes minutes
where the dates take months. A bind or unbind is one step that ends in a
successful reload; that the trees it applies are valid is `SitePanel`'s
subject. The boot does not reload nginx, and there is no handler that reloads
alone, so a failed reload waits for the next call that changes a site or a
certificate. `excused` is history: certificates changed by a call that failed
or died before its reload.

### Accounts

A session is a token with the epoch of its user's row when it was issued. The
history fields `pw` and `totp` of a token record what its owner has proved to
know. A request is admitted (`Admit`, the middleware), loads the row
(`Load`), and saves its copy (`Store`); other requests run in between. The
command line's `reset-totp` is a request without a session.

### Limiter

One key. `recent` is history: the failures since the last lock or reset.

### Console

`me` is the cached data of the query `["me"]`, `route` the address, `shown` the
page that is mounted ("blank" while a guard waits or redirects), `qr` the
authenticator's secret on screen: none, the one the server has stored, one this
tab has asked to replace, or one another client has. `wire` holds the requests in flight in the order they were sent, each
with the token the browser attached when it left, and with the answer and the
cookie it brings back once the server has served it (`Serve`). `Deliver` is the
interceptor of `client.ts` followed by the handler of the caller: a 401 empties
the cached user and goes to `/login`, the two 403 only navigate, and a page that
is gone sets no state. `Redirect` and `Mount` are React rendering `guards.tsx`;
mounting a page sends what the page loads. The server is modelled by `Reply` and
`Cookies` as far as pages can tell; `Accounts` is about the server itself.
"sites" stands for every page that loads data. Another tab shares the cookie and
logs in or out (`OtherTab`); it, or a client elsewhere, mounts the enrolment page or
asks to re-bind, which stores another secret (`OtherBinds`); and another client may
create the first account (`OtherSetup`). This tab is told of none of it.

A query asked again cancels the one under way, unless that is the first without
data (`Asked`), which is what React Query does and what makes a refresh after
the login matter.

### Pages

One module for three pages, because they are one machine with three tables:
`SiteMutations`, `UserMutations` and `CertMutations` say of each mutation
whether it reads its row from the dialog when it runs (`fromDialog`) or was given
it, whether its `onSuccess` reads the dialog, closes it, asks for the list or
empties what was typed, and the `Buttons` say which rows offer it. The pages are
never mounted together. A call is a mutation under way: `watched` while its
`useMutation` object follows it (the closures are then those of the latest
render), and frozen with the closures of that moment when another call of the
same object or leaving the page takes its place. `text` is the row for which the
password, code or certificate in the dialog was typed.

The server does a request at once, or refuses it, but for the certificates. To
create one its handler inserts the row (`Insert`), which lists may show, gets the
files and saves the row again (`Fill`), or deletes it (`Withdraw`); where only that
save fails, the row stays and the page is told of a failure. A renewal or an update
that has saved its row fails after all when nginx does not reload
(`ServeThenFail`), and one whose issuance fails saves just that.

`misled` and `missed` are history: requests that were done and told as failed,
and changes since the list was read that nothing asked it again for.

### Editor

`form`, `base` and `loaded` are the fields, the baseline and `loadedId` of
`SiteForm.tsx`, `cache` and `fetch` the query `["site", id]`, `saves` the
submissions under way (`here` while their page is mounted), `file` and `gets` the
file being edited and the contents asked for, each with the site it is of, `aside` the bind or file save of the
other tabs. One component serves "new" and every "edit", so that going from one
to another keeps its state (`Shown`), and coming from elsewhere starts a new one
(`Fresh`); so does the file tab, which has no key, keep the file that is open when a
create's answer leads to the new site's page (`Kept`). A field is one of two values, the target apart from the rest because
new targets are confirmed. `Crash` is `componentDidCatch` with an error that
means the page no longer matches what React made of it: it reloads, or shows
the screen when the last reload is less than `Window` ago; `RenderError` is any
other error. `since` and `recent` count ticks and the automatic reloads of which
none came `Window` after the last.

## Runs

Every property of a passing run has a mutant in `PROJECT.json`, under which TLC
finds the property violated.

| Run | Bounds | Shows |
|---|---|---|
| `site_apply_one` | one site, two callers, two files, two seconds, every fault but in an undoing rename, crashes | the directory is valid between calls, what is aside is backed up, the pipeline implements the gate |
| `site_apply_two` | two sites, one of which may need the other, two callers, applies, a removal, a save and a restore; no lost reply | a failure on either leaves nginx running what is on disk; every call returns |
| `panel` | one site, two certificates, three configurations and what is left of one, one request at a time, every operation, failing writes, deaths, boots that fail or die | rows and trees agree between requests; a locked site is frozen; no dangling certificate |
| `panel_dangling` | a bind and a deletion at a time | **violated**: the bound certificate is gone |
| `cert_pair` | one writer, three pairs, any number of calls, faults and deaths | both halves or neither |
| `accounts_serial` | two users, one request at a time, two tokens, epochs 0 and 1 | one system admin who can log in; sessions are current, disabled accounts are out, a second factor is not replaced |
| `limiter_lock` | two attempts in flight, eight ticks, three failures lock | a lock runs its time; a burst is bounded |
| `renewal` | two certificates, one of which the CA may refuse for ever or that was uploaded, one request beside the sweep, every fault, one death | new files reach nginx or are accounted for; the rows the sweep goes by do not overstate; what is due is renewed |
| `console` | six acts of the user and the world around him, two requests in flight when another starts, one kind of fault in a behaviour | after a log-out nothing signed in comes back, a login lands on a page, set-up is offered once, the secret shown is the stored one; everything comes to rest |
| `pages` | two rows, two calls in flight, five acts, two kinds of faults in a behaviour | what is confirmed is done, for the row it was confirmed for; the list at rest is the server's; what is told as failed changed nothing, with the exceptions below |
| `editor` | two sites, eleven acts, seven once a fault has happened, two saves in flight, two kinds of faults in a behaviour | drafts stay, saves are meant, a file gets its own content, reloads are spaced |
| `editor_storage` | one site, four acts, no `sessionStorage` | **violated**: the page reloads twice within the window |

The passing ones reach between 3,787 (`cert_pair`) and 8.6 million states; the largest
are `panel` (8,616,122), `editor` (4,039,549) and `pages` (2,941,151).

**Why the bounds are enough.** Each interleaving in question is between two
requests on one row, two calls on one site, a request and the sweep, or a call
and a death, so two of everything show it; a third certificate or pair only
renames one of the two. `panel` has one site because its properties speak of
one site at a time and sites share nothing but certificates and `nginx -t`,
which `site_apply_two` and the configuration `SitePanelCerts` give two sites; the
theorems of `SitePanelProofs` are about any number, and about requests on them that overlap. Two seconds let two
calls share a timestamp or not. Eight ticks are more than two windows. Epochs 0
and 1 tell a current session from a revoked one. `Age` and re-issuance make the
dates of `Renewal` go round without a bound; its one death comes at any moment.
Where a run has one request at a time, that is because the property does not
hold with two, which the next table records.

In the browser the hazards are an answer and one act of the user, or two answers
and the act between them. `MaxActs` bounds the acts of the user, of other tabs and
administrators and the faults that need an occasion, never what the network or
the server does with requests that were sent: in `Pages` and `Editor` answers come
in every order, in `Console` queries are overtaken (the fault "late"), but not what
a button has sent, which disables the button or ends on another page. `LogoutSticks` and `LoginLands`
are about answers in order, since the code holds neither when they overtake each
other (below); the other properties of `Console` say themselves which faults they
except. Six acts are a login with its second factor, a visit and a log-out with an event in
between; five are two dialogs opened and confirmed, and an event; seven open a
site, edit it, open and save a file, and let two things happen. The one hazard of
the editor that takes longer needs no other fault: it takes four acts to send off
a new site, two to visit it, five to leave it and save a file of another one while
the answer of the create comes. `Quiet`, the last four acts of the eleven, is
therefore open to behaviours without another fault only. `MaxWire`,
`MaxCalls` and the two saves bound what the user starts while something is under
way; the requests the application sends by itself (the user asked for again, the
data of a page) come on top. `MaxKinds`, and in `Console` one, bound the kinds of
faults that meet in one behaviour, not their number.

**Deadlock** is not checked where a model really comes to an end: `SiteApply`
stops at a crash, `SitePanel` uses up its ids (and a request that died with the
panel is gone), `Limiter` its clock; in `Console`, `Pages` and `Editor` the user has
done all he does (`acts` is 0) and everything is answered. Everywhere else it is
checked.

**Fairness.** `site_apply_two` assumes that a caller inside the service takes
its next step (a goroutine is scheduled, a file operation and the docker daemon
answer or fail), and that a caller which waits for the mutex gets it if it is
free again and again (Go's mutex hands over to a waiter that starves for a
millisecond). `renewal` assumes that the cron job comes round and that a call
which can go on does (weak fairness), and, for the certificates in `Lucky`
alone, that an issuance and the save of its row work some night if they are
tried every night (strong fairness; the CA and the disk are not down for
ever). Nothing is assumed of the issuances of other certificates, of reloads,
or of callers that might begin a request. `console` assumes that what is under
way goes on (weak fairness of `Progress`: React renders a change, a request is
served and its answer delivered; one that breaks is an answer too). Nothing is
assumed of the user.

**Abstractions.** `nginx -s reload` is taken to be effective when it has
succeeded; the master process of nginx in fact switches its workers shortly
afterwards. Passwords, codes and keys are model values, and whoever presents
one presents the right one; in `Console`, which has a form for each, a wrong one
may be typed too. Time is logical. What a user may type is validated
before any state changes, so the inputs of the models are the validated ones.

### Where the code and what is said of it disagree

Two runs and their findings are in `PROJECT.json`. The configurations below
stand beside them: `tlc -config <name>.cfg MC<module>.tla` gives the trace. They
are not runs, each being a variation of a question that a run asks.

| Configuration (property) | What is said | What happens |
|---|---|---|
| run `panel_dangling` (`NoDanglingCert`) | the transaction of `DeleteCert` prevents a dangling `cert_id` (`cert_handler.go:335`) | a bind has read the certificate before and saves after |
| run `editor_storage` (`ReloadsAreSpaced`) | without `sessionStorage` no automatic reload (`ErrorBoundary.tsx:41`), at most one in a window (`:9`) | the time of the last reload reads as 0, so each crash reloads |
| `RenewalStale` (`StaleIsRead`) | sites pick up the new content (`renew.go:46`) | one failed reload and no sweep tries again |
| `SiteApplyAlone` (`SwapIsAtomic`) | the swap is atomic (`service.go:70`) | between its two renames the site has no directory |
| `SiteApplyAlone` (`BackupIsTheTree`) | a backup is the tree that was replaced | two applies of one second mix theirs |
| `SiteApplyAlone` (`NeverBlanked`) | `RestoreSiteBackup` restores a saved backup (`sites_handler.go:607`) | one that has been pruned reads as empty, blanks the site and succeeds |
| `SiteApplyLost` (`RunningIsLive`) | a failed apply leaves the old configuration | a reload that worked but was reported as failed is rolled back on disk only |
| `SitePanelUnbound` (`CertsOfLiveExist`) | deletion leaves no orphaned files (`cert_handler.go:328`) | a restored backup names the files of a certificate no row names, which may then be deleted |
| `SitePanelLock` (`LockedIsFrozen`) | a locked site is frozen for everyone (`sites_handler.go:281`) | an update in flight changes and unlocks it |
| `SitePanelRace` (`LiveIsModel`) | the row stays consistent with the live configuration (`sites_handler.go:444`) | two updates apply in one order and save in the other |
| `SitePanelBack` (`DeletedIsGone`) | `DeleteSite` removes a site (`sites_handler.go:462`) | a save in flight inserts it again |
| `SitePanelRefused` (`LiveIsValid`) | only models that were valid are rendered at boot (`service.go:182`) | a creation that died before its apply is rendered without a test |
| `SitePanelEdits` (`EditsSurviveBoot`) | raw edits survive restarts (`service.go:182`) | a death while the tree is aside: it is rendered anew |
| `CertPairCrash` (`NeverLeftMismatched`), `CertPairTwo` (`WholePair`) | the pair is never left mismatched (`store.go:24`) | a death between the renames, two calls at once |
| `AccountsEpoch` (`EpochNeverFalls`), `AccountsReset` (`SessionsAreCurrent`) | the epoch revokes sessions (`models.go:75`) | a stale save takes the bump back |
| `AccountsEnroll` (`EnrolledIsNotRekeyed`) | an enrolled user is never re-keyed (`auth_handler.go:161`) | enrolment and activation overlap |
| `AccountsBack` (`DeletedIsGone`) | `DeleteUser` removes a user (`users_handler.go:185`) | a password reset in flight inserts it again |
| `RenewalUploads` (`UploadsAreTrue`) | the list shows when a certificate runs out (`cert_handler.go:72`) | an upload that is soon due replaces one that is not, and its row is not saved (`:279`) |
| `LimiterSliding` (`MaxFailuresLock`) | locks after max failures in the window (`ratelimit.go:44`) | a burst across two windows does not lock |
| `RenewalUploads` (`BoundHasFiles`) | deletion is blocked by any site that uses the certificate (`cert_handler.go:328`) | its row goes, the sweep's save inserts it, a site is bound, the files go |

`SiteApplyAlone` has three properties and `RenewalUploads` two; `tlc -continue`
shows a trace for each.
`SitePanelCerts` is the counterpart of `SitePanelUnbound` and passes: two sites
share a certificate, and without restores no tree names key files that are gone.

One that needs no configuration: saving a file or restoring a backup of a
disabled site makes it live (`sites_handler.go:582`), where the page says that
disabling removes it (`Sites.tsx`). `DisabledIsOff` therefore leaves such a
site out until the next boot.

In the browser, the configuration of the run with the property named here in
place of its own gives the trace:

| Run (property) | What is said | What happens |
|---|---|---|
| `pages` (`AlwaysConfirmed`) | the dialog names the row it acts on (`Users.tsx:278`) | off line the mutation waits; by the time it runs, the dialog has been closed and opened on another row, and that row is acted on |
| `pages` (`PasswordIsForUser`) | the password is typed for the account in the dialog (`Users.tsx:249`) | cancelling keeps it, and the dialog of the next account opens with it |
| `pages` (`StopStops`) | "stop" takes a site down (`Sites.tsx:201`) | the request toggles; asked twice, or after another administrator, it starts the site |
| `pages` (`SuccessClosesOwn`) | `onSuccess` closes its dialog (`Sites.tsx:66`, `Users.tsx:75`) | the deletion of one row is confirmed and its dialog cancelled, another row's opened; the answer closes that one |
| `editor` with `Faults` only "moved" (`FileIsAlwaysItsOwn`) | each file is edited on its own (`SiteFiles.tsx:61`) | a site is created, and before the answer comes the user visits it from the list, goes to another site and opens a file; the answer leads to the new site's page, `SiteFiles` (`SiteForm.tsx:430`, without a key) keeps the file open, and saving it writes the one site's file to the other |
| `editor` (`FileIsAlwaysItsOwn`) | each file is edited on its own (`SiteFiles.tsx:61`) | with two fetches under way the later answer shows under the other's name (`:31`), and a fetch that failed leaves an empty editor, which can be saved over the file |
| `editor` (`CleanIsCurrent`) | the form shows the site (`SiteForm.tsx:139`) | a form opened again is filled from the cache, and the answer that follows is ignored because it is the same site |

And these, which the guards or exceptions of the models spell out: with another
tab half-way through its login, the refusal "needs second factor" goes to
`/login`, whose guard sends the user it still has cached back to the page that is
refused, for ever (`Settles`). A tab on the setup page whose account another client creates stays
there, since `needsSetup` is cached (`guards.tsx:25`) and the 403 of `/setup` raises no
event, until it is reloaded (`SetupOnlyFresh`, "otherSetup"); and a secret on screen
goes stale when another tab enrolls or re-binds (`TotpEnroll.tsx:27`). A certificate
request that fails after it changed its row (`cert_handler.go:124`, `:268`, `:283`,
`:319`) is told as a failure, and `onErr` (`Ssl.tsx:23`) asks for no new list
(`RowsAreCurrent`, `DoneIsTold`). A wrong code on `/totp/verify` is answered 401, and
the interceptor leaves the page. When answers overtake one another, a
log-in can end on `/totp/verify`: the answer to a load of an earlier session, with its
renewed cookie, comes after the one that asks for the second factor, so that the
session is complete, the user is cached, and the page still wants a code (`Console`
with the fault "late" alone, four requests in flight and seven acts, and
`LoginLands` without its last condition). In the same way a code that
is in flight when its page has gone, and a log-out is pressed, can bring
a session back after the log-out, which takes more acts than a run can afford.
The secret asked for by a re-bind dialog that
was closed is put on screen in the next one (`SecretArrives`). What is typed while
a site is saved is replaced by what was saved (`SiteForm.tsx:205`). The answer to
a creation takes the user to the new site from wherever he has gone
(`SiteForm.tsx:213`). Leaving the editor for another page of the application never
asks, where closing the tab does. A site whose load failed shows a blank form, or
the last one, which can be saved over it (`SavesAreMeant`, "lost").

## Proofs

| Theorem | Says | Argument |
|---|---|---|
| `TypeCorrect`, `ControlCorrect` | every variable keeps its type; only the holder of the mutex is inside the pipeline | `ControlInv`: for each program point what the caller's locals hold and which directories exist |
| `RestValid` | whatever fails, the live directories pass `nginx -t` when the mutex is free | `SafeInv`: with the mutex held, the directories with the holder's site rolled back (`Settled`) are accepted; each step keeps that set, and the steps that free the mutex make it the live one |
| `RestRunning` | if no reply is lost, nginx runs what is on disk | the same invariant, with `running` equal to `Settled` |
| `AsideBackedUp` | in any state the panel can die in, what is aside is in the backup | `AsideIsHeld` adds that only the holder's site is aside, and what its copy has covered |
| `Refinement` | `SiteApply` implements `SiteGate` | `GateInv` ties the caller's program point to the call the gate sees; one lemma per group of steps shows the gate's step or a stutter |
| `PairTypes`, `CallsAreWhole` | no half is ever torn; with one call at a time, any faults and deaths, both halves or neither | `IInv` gives the contents of the five files at each operation, in terms of what the call found and how many operations have failed |
| `RenewalTypes`, `ReloadIsOwed`, `RowsAreTrue` | types; files nginx has not read are owed a reload or excused; no row overstates | `IInv`: a row, and every loaded copy of one, promises no more than the files hold, (for those of the CA: the loaded row of an upload promises what its call knows) and a pair that was renewed stays in the `changed` of its call until the reload |
| `AccountsTypes` | rows, copies and sessions keep their types; no row demands a second factor it has not got | `Types` with what `job[r]` holds at each step |
| `SystemAdminIsOne` | one system admin, never disabled | `SysInv`: every copy of a row agrees with the row on who is system admin |
| `AcceptedSessionsAreCurrent`, `DisabledAccountsAreOut`, `EpochsNeverFall`, `SecondFactorIsKept`, `DeletedStaysGone` | a session that is accepted has proved what its row demands; a disabled account is out; revocations, second factors and deletions last | `SessionInv`: the copy a request is about to save is its row's but for what the request changes (`Kept`), a token of the row's epoch knows its password and second factor (`Fits`), and no token is of an epoch to come |
| `PanelTypes` | rows, certificates, trees and copies keep their types, whatever overlaps | `TInv` adds what `job[r]` holds at each step |
| `LockedStays` | a locked site is frozen | `Loaded`: the copy a request works on is true to its row but for what was asked for, and is of a site that was not locked |
| `BoundCertExists` | a row's certificate exists | `Linked`: so does the one of every copy about to be saved, and the certificate a request may delete is in no row, nor in such a copy: it would be in its row as well, or be bound (`CopyNames`) |
| `TreesAreKept` | what is served follows from the rows | `Followed`: the tree of every other site is what its row says; that of the site a request is at is what its copy says, or what the next step or the next boot makes good; while the panel boots, that of every site the boot has passed is what its row says or the site is `apart` |
| `EditorTypes` | the form, the cache, saves and tabs keep their types | `Types`: a certificate or file request that is under way is for a site, a loaded form has a baseline, a file is open on the page of a site only |
| `SavesStayMeant` | a save goes to its form's site, new targets are confirmed | `Meant`: unless a request was lost, the form on a site's page is that site's as soon as the cache has it, and before that the site is on its way, so that nothing can be saved |
| `DraftsStay` | a draft goes only with a save, the page or the application | from `Types`, step by step: a removed save shortens the list, a refetch of the loaded site changes nothing |
| `FilesKeepTheirOwn` | a file is saved with its own content | `Owned`: what has been asked for is what is open, and its content once it is there, of the site whose page is shown unless the page has moved over it (`Its`) |
| `ReloadsStaySpaced` | at most one automatic reload in a window | the bound itself; it needs the storage (`StorageOk`) |
| `LimiterTypes`, `LockRunsItsTime` | the counter is below its maximum; a lock is not shortened | `EntryOK` bounds a lock by its window |
| `BurstsAreBounded` | fewer than twice the maximum of failures go by in any window | `Straddles`: the failures of the entry's window are the last ones, and of those before all but fewer than the maximum are more than a window older than its start |
| `Types` (of `ConsoleProofs`) | the tab's variables and requests keep their types | `Types` with what each kind of request may be answered, and which cookie the answer brings |
| `ShownStored` | the authenticator secret left on screen is the newest this tab asked for, and the one the server checks codes against unless another client replaced it | `SecretsInv`: an older secret is on screen only while the oldest request in the queue is answered with the stored one, for a page that listens |
| `SetupFresh` | nobody is left on the setup page once an account exists, unless another client created it | `FreshInv`: while the page or the cached user still says "set up", the request that will say otherwise is in the queue |
| `LogoutHolds` | after a log-out no page of the signed-in application comes back | `OrderlyInv`: answers come in the order of the requests, and `Tidy` says which may be in flight together, so that none behind the log-out carries or brings a session |
| `LoginHolds` | a completed login ends on a page of the application | `LandingInv`: with a full session the user is cached or being asked for, unless a next login is under way or the session has ended |
| `TypesAreKept` | lists, dialogs and calls of a page hold its own rows and requests | `Types`, with a budget: what calls and acts that are left can add to the version of a certificate |
| `WhatIsDoneWasConfirmed`, `WhatIsDoneIsTold` | what is confirmed is done; what is told as failed changed no row, with the exceptions it names | `Meant`: until a dialog has been closed on a running mutation, at most one call will close one, and the open dialog is that call's (`Matched`), so that whatever the call reads from it, now or back on line, is what was confirmed |
| `ListsAreCurrent` | the list at rest is the server's | `Current`: a change is in a call that has yet to be told, in a request for the list, in its answer, or in the list |

But for the bound on reloads, none of the properties is inductive alone: each
speaks of states at rest, or of what has just been sent, and the invariants say
what holds in the middle of a call so that its end, or its undoing, makes the
property true. TLC checks the properties on the instances of the runs.

**Assumptions.** The theorems of `SiteApply` that speak of rollback assume that
the rename which undoes a failed swap works (`~PutbackFails`): if that fails
too, the site has no directory, which the code ignores. `RestRunning` also
assumes `~LostReply`. The theorems of `CertPair` assume one call at a time (`Alone`): with
two they do not hold. Those of `SitePanel` but `PanelTypes` let any number of
requests overlap, on any number of sites, as long as no two are about one site
(`[]SitesApart`) and, but for `LockedStays`, none creates or deletes a certificate
while another renews it, or binds a site to it (`[]CertsApart`; re-issuances may overlap with
anything else); the `SitePanel*` configurations show what happens otherwise. The five theorems of `Accounts` in one
row assume `[]Apart`, that of two requests under way about one account neither
is to save it; any number may be under way about different ones. The
`Accounts*` configurations show what happens otherwise. `ReloadsStaySpaced` assumes
`StorageOk`, which `editor_storage` shows to be needed. `LogoutHolds` is about a
user who does not act while `/auth/me` is unanswered, and an account no other client
creates meanwhile (`seen` has neither "hasty" nor "otherSetup"): the next paragraph has the
rest. The others assume nothing
but the named assumptions on the constants.

**Model-checked only.** The liveness properties `CallsReturn`, `DueIsRenewed` and
`Settles`, which are out of TLAPS's reach, and `LogoutSticks` for a user who acts
before `/auth/me` has answered or whose account another client creates.

## What is not modelled

Audit log, crypto helpers, configuration, HTTP shell and embedded assets keep
no state that a decision depends on. The migration script for volumes runs
once, by hand, with the panel stopped. The log pages (`SiteLogs.tsx`,
`Logs.tsx`) read, under keys made of what they show, so that an answer can only
fill its own entry of the cache; the one thing they change, clearing a log, may
be repeated. The widgets under `components/ui` show what they are given. Of the
editor, the preview (`SiteForm.tsx`) is text that no step goes by, which
certificate the select of `SiteSsl.tsx` holds is one value here, and rows of
domains and locations are part of the rest of the form: their identities only
serve React. The contents of files are told apart by the site and the file they are of, not by
text.

## Plan

In this order, the behaviour that matters most first.

1. `Migration` (`database.go`): `backfillCerts`, which creates a certificate
   and binds it in a second call, `backfillSystemAdmin`, `SeedSettings`, with a
   death between any two calls and a second boot. Abstract specification: a
   migration that happens at once. Property: what boots have done in the end is
   what one boot would have done.
2. `AccountFiles` (`account.go`): key and registration of an ACME account, two
   issuances for a new address, a death while the key is written. Property: a
   registration belongs to the key beside it.
3. `Renewal` with the domains of a certificate, so that what the sweep's save
   writes over is visible; the manual renewal that overlaps the sweep.
4. `SiteRender` (`template.go`) and `TailFile` (`logtail.go`): `locationSlug`
   and upstream names as functions, distinct locations to distinct files;
   `tailFile` against a reference definition over bounded files, the block
   boundary included.
5. Further theorems: `LogoutSticks` for a hasty user; `Renewal` with the domains
   of item 3.

The runs stay few: the configurations of the tables above that are not runs
show where there is room, and pure operators need one run between them. The
hazards in `PROJECT.json` that name no property are those of items 1 and 2 and
the ones the code does not hold.
