---------------------------- MODULE EditorProofs ----------------------------
(***************************************************************************)
(* For any sites, any user and any faults: a save goes to the site its     *)
(* form was loaded from, with the targets that were shown or confirmed; a  *)
(* draft stays; a file is saved with the content that was fetched for it;  *)
(* and with a storage the application reloads itself once in a window.     *)
(***************************************************************************)
EXTENDS Editor, SequenceTheorems, TLAPS

-----------------------------------------------------------------------------
(* Sequences *)

(* What is left after one element is taken out was there before. *)
LEMMA RemoveAtElements ==
    ASSUME NEW S, NEW w \in Seq(S), NEW k \in 1..Len(w)
    PROVE  /\ RemoveAt(w, k) \in Seq(S)
           /\ Len(RemoveAt(w, k)) = Len(w) - 1
           /\ \A i \in 1..Len(RemoveAt(w, k)) : \E j \in 1..Len(w) : RemoveAt(w, k)[i] = w[j]
<1> DEFINE a == SubSeq(w, 1, k - 1)
           b == SubSeq(w, k + 1, Len(w))
<1>0. Len(w) \in Nat /\ k \in Nat /\ k <= Len(w)
  OBVIOUS
<1>1. a \in Seq(S) /\ Len(a) = k - 1 /\ \A i \in 1..(k-1) : a[i] = w[i]
  BY SubSeqProperties
<1>2. b \in Seq(S) /\ Len(b) = Len(w) - k /\ \A i \in 1..(Len(w) - k) : b[i] = w[k + i]
  BY SubSeqProperties
<1>3. RemoveAt(w, k) = a \o b
  BY DEF RemoveAt
<1> HIDE DEF a, b
<1>4. /\ a \o b \in Seq(S) /\ Len(a \o b) = Len(w) - 1
      /\ \A i \in 1..(Len(w) - 1) : (a \o b)[i] = IF i <= k - 1 THEN a[i] ELSE b[i - (k - 1)]
  <2>1. /\ a \o b \in Seq(S) /\ Len(a \o b) = Len(a) + Len(b)
        /\ \A i \in 1..(Len(a) + Len(b)) : (a \o b)[i] = IF i <= Len(a) THEN a[i] ELSE b[i - Len(a)]
    BY <1>1, <1>2, ConcatProperties
  <2>2. Len(a) + Len(b) = Len(w) - 1
    BY <1>0, <1>1, <1>2
  <2> QED BY <1>1, <2>1, <2>2
<1>5. ASSUME NEW i \in 1..(Len(w) - 1) PROVE \E j \in 1..Len(w) : (a \o b)[i] = w[j]
  <2>1. CASE i <= k - 1
    <3>1. (a \o b)[i] = w[i] /\ i \in 1..Len(w)
      BY <1>0, <1>1, <1>4, <2>1
    <3> QED BY <3>1
  <2>2. CASE ~(i <= k - 1)
    <3>1. i - (k - 1) \in 1..(Len(w) - k)
      BY <1>0, <2>2
    <3>2. (a \o b)[i] = b[i - (k - 1)]
      BY <1>4, <2>2
    <3>3. b[i - (k - 1)] = w[k + (i - (k - 1))]
      BY <1>2, <3>1
    <3>4. k + (i - (k - 1)) \in 1..Len(w)
      BY <1>0, <3>1
    <3> QED BY <3>2, <3>3, <3>4
  <2> QED BY <2>1, <2>2
<1> QED BY <1>3, <1>4, <1>5

-----------------------------------------------------------------------------
(* Types *)

Content == (Sites \X Keys) \cup {Empty}
File    == [key : Keys \cup {"none"}, content : Content, loading : BOOLEAN]
Fetch   == [state : {"idle", "asked", "answered"}, val : Site \cup {None}]
Submits == [site : Sites \cup {"new"}, body : Form, base : Form \cup {Blank},
            from : Sites \cup {None}, asked : BOOLEAN, here : BOOLEAN,
            state : {"sent", "done", "failed"}, id : Sites \cup {None}]
Asides  == [kind : {"none", "bind", "file"}, site : Sites \cup {None},
            key : Keys \cup {"none"}, content : Content,
            state : {"none", "sent", "done", "failed"}]

(* The server's sites and what the page has of them. *)
DataOK ==
    /\ server \in [Sites -> Site \cup {None}]
    /\ cache \in [Sites -> Site \cup {None}]
    /\ fetch \in [Sites -> Fetch]
    /\ \A s \in Sites : fetch[s].state = "answered" => fetch[s].val \in Site

PageOK ==
    /\ route \in Sites \cup {"new", "away"}
    /\ form \in [to : Two \cup {None}, rest : Two \cup {None}]
    /\ base \in Form \cup {Blank}
    /\ loaded \in Sites \cup {None}
    /\ loaded # None => base \in Form
    /\ confirm \in BOOLEAN

SavesOK ==
    /\ saves \in Seq(Submits)
    /\ \A k \in 1..Len(saves) : saves[k].state = "done" => saves[k].id \in Sites

TabsOK ==
    /\ tab \in {"config", "ssl", "files"}
    /\ file \in File
    /\ gets \subseteq Sites \X Keys
    /\ aside \in Asides
    /\ aside.state = "sent" => aside.site \in Sites

RestOK ==
    /\ broken \in BOOLEAN /\ since \in 0..(Window + 1) /\ recent \in Nat
    /\ acts \in 0..MaxActs /\ seen \subseteq Faults

(* A file is open on the page of a site only. *)
FileHere == file.key # "none" => route \in Sites

Types == DataOK /\ PageOK /\ SavesOK /\ TabsOK /\ FileHere

(* The actions by what they touch. *)
OnForm ==
    \/ \E r \in Sites \cup {"new"} : Enter(r)
    \/ Leave \/ TypeTarget \/ TypeRest \/ Save \/ ConfirmSave \/ CancelSave
OnSaves == \E k \in DOMAIN saves :
    ServeSave(k) \/ RefuseSave(k) \/ Updated(k) \/ Created(k) \/ SaveFailed(k) \/ SaveLost(k)
OnSite == \E s \in Sites :
    FetchServe(s) \/ FetchArrives(s) \/ FetchFails(s) \/ OtherAdmin(s)
OnTabs ==
    \/ \E t \in {"config", "ssl", "files"} : SwitchTab(t)
    \/ \E key \in Keys : OpenFile(key)
    \/ \E g \in gets : FileArrives(g) \/ FileFails(g)
    \/ Bind \/ CloseFile \/ SaveFile \/ ServeAside \/ RefuseAside \/ AsideAnswer
OnAll == Tick \/ Crash \/ RenderError \/ Reconnect \/ Reload

LEMMA NextSplit == Next => OnForm \/ OnSaves \/ OnSite \/ OnTabs \/ OnAll
BY DEF Next, User, Answers, Environment, OnForm, OnSaves, OnSite, OnTabs, OnAll

LEMMA SiteParts ==
    /\ \A s \in Site : Fields(s) \in Form /\ s # None /\ s.locked \in BOOLEAN
                       /\ s.to \in Two /\ s.rest \in Two /\ s.cert \in Two
    /\ Blank \notin Form
    /\ Form \subseteq [to : Two \cup {None}, rest : Two \cup {None}]
    /\ Blank \in [to : Two \cup {None}, rest : Two \cup {None}]
BY NoneAssumption DEF Site, Form, Fields, Blank

(* The form once a site, or nothing, is shown. *)
LEMMA AppliedOK ==
    ASSUME NEW id \in Sites, NEW s \in Site, Apply(id, s)
    PROVE  /\ form' \in [to : Two \cup {None}, rest : Two \cup {None}]
           /\ base' \in Form /\ loaded' = id
BY SiteParts DEF Apply

LEMMA FreshOK ==
    ASSUME Types, NEW r \in Sites \cup {"new", "away"}, Fresh(r)
    PROVE  /\ form' \in [to : Two \cup {None}, rest : Two \cup {None}]
           /\ base' \in Form \cup {Blank} /\ loaded' \in Sites \cup {None}
           /\ loaded' # None => base' \in Form
           /\ confirm' = FALSE
           /\ r \in Sites /\ cache[r] # None => loaded' = r
<1>1. CASE r \in Sites /\ cache[r] # None
  BY <1>1, AppliedOK DEF Fresh, Types, DataOK
<1>2. CASE ~(r \in Sites /\ cache[r] # None)
  BY <1>2, SiteParts DEF Fresh
<1> QED BY <1>1, <1>2

LEMMA ShownOK ==
    ASSUME Types, NEW id \in Sites \cup {"new", "away"}, NEW c \in [Sites -> Site \cup {None}],
           Shown(id, c)
    PROVE  /\ form' \in [to : Two \cup {None}, rest : Two \cup {None}]
           /\ base' \in Form \cup {Blank} /\ loaded' \in Sites \cup {None}
           /\ loaded' # None => base' \in Form
           /\ id \in Sites /\ c[id] # None => loaded' = id
           /\ loaded = id => UNCHANGED <<form, base, loaded>>
<1>1. CASE id \in Sites /\ c[id] # None /\ loaded # id
  BY <1>1, AppliedOK DEF Shown
<1>2. CASE ~(id \in Sites /\ c[id] # None /\ loaded # id)
  BY <1>2 DEF Shown, Types, PageOK
<1> QED BY <1>1, <1>2

(* A query that is asked again. *)
LEMMA AskedOK ==
    ASSUME Types, NEW r, NEW f, f \in {Mounts(r), Invalidated(r), fetch}
    PROVE  /\ f \in [Sites -> Fetch]
           /\ \A s \in Sites : /\ f[s].state = "answered" => f[s].val \in Site
                               /\ f[s].state = "idle" => fetch[s].state = "idle"
<1>1. [state |-> "asked", val |-> None] \in Fetch
  BY DEF Fetch
<1> QED BY <1>1 DEF Mounts, Invalidated, Types, DataOK

LEMMA LeftOK ==
    ASSUME SavesOK
    PROVE  /\ Left(saves) \in Seq(Submits) /\ Len(Left(saves)) = Len(saves)
           /\ \A k \in 1..Len(saves) :
                LET v == Left(saves)[k]
                IN  /\ v = [saves[k] EXCEPT !.here = FALSE]
                    /\ v.state = saves[k].state /\ v.id = saves[k].id /\ ~v.here
<1>1. DOMAIN saves = 1..Len(saves) /\ Len(saves) \in Nat /\ \A k \in 1..Len(saves) : saves[k] \in Submits
  BY DEF SavesOK
<1>2. \A k \in 1..Len(saves) :
        LET v == [saves[k] EXCEPT !.here = FALSE]
        IN  v \in Submits /\ v.state = saves[k].state /\ v.id = saves[k].id /\ ~v.here
  BY <1>1 DEF Submits
<1>3. Left(saves) = [k \in 1..Len(saves) |-> [saves[k] EXCEPT !.here = FALSE]]
  BY <1>1 DEF Left
<1>4. /\ Left(saves) \in [1..Len(saves) -> Submits]
      /\ \A k \in 1..Len(saves) : Left(saves)[k] = [saves[k] EXCEPT !.here = FALSE]
  BY <1>2, <1>3
<1>5. Left(saves) \in Seq(Submits) /\ Len(Left(saves)) = Len(saves)
  BY <1>1, <1>4, SeqDef, LenProperties
<1> QED BY <1>2, <1>4, <1>5

(* Bounds and histories: what every action makes of them. *)
LEMMA RestTyped == RestOK /\ Next => RestOK'
<1> SUFFICES ASSUME RestOK, Next PROVE RestOK'
  OBVIOUS
<1>1. acts' = acts \/ Act
  BY DEF Next, User, Answers, Environment, Enter, Leave, Typing, TypeTarget, TypeRest, Save, ConfirmSave,
         CancelSave, ServeSave, RefuseSave, Updated, Created, SaveFailed, FetchServe, FetchArrives,
         FetchFails, Reconnect, SaveLost, OtherAdmin, SwitchTab, Bind, OpenFile, CloseFile, FileArrives,
         FileFails, SaveFile, ServeAside, RefuseAside, AsideAnswer, Tick, Crash, RenderError, Reload, Free
<1>2. seen' = seen \/ \E f \in Faults : seen' = seen \cup {f}
  BY DEF Next, User, Answers, Environment, Enter, Leave, Typing, TypeTarget, TypeRest, Save, ConfirmSave,
         CancelSave, ServeSave, RefuseSave, Updated, Created, SaveFailed, FetchServe, FetchArrives,
         FetchFails, Reconnect, SaveLost, OtherAdmin, SwitchTab, Bind, OpenFile, CloseFile, FileArrives,
         FileFails, SaveFile, ServeAside, RefuseAside, AsideAnswer, Tick, Crash, RenderError, Reload,
         Happens, If
<1>3. \/ Tick \/ Crash \/ RenderError \/ Reload
      \/ UNCHANGED crashes
  BY DEF Next, User, Answers, Environment, Enter, Leave, Typing, TypeTarget, TypeRest, Save, ConfirmSave,
         CancelSave, ServeSave, RefuseSave, Updated, Created, SaveFailed, FetchServe, FetchArrives,
         FetchFails, Reconnect, SaveLost, OtherAdmin, SwitchTab, Bind, OpenFile, CloseFile, FileArrives,
         FileFails, SaveFile, ServeAside, RefuseAside, AsideAnswer
<1>4. acts' \in 0..MaxActs
  BY <1>1, BoundsAssumption DEF Act, RestOK
<1>5. seen' \subseteq Faults
  BY <1>2 DEF RestOK
<1>6. broken' \in BOOLEAN /\ since' \in 0..(Window + 1) /\ recent' \in Nat
  <2>1. CASE Tick
    BY <2>1, WindowAssumption DEF Tick, RestOK
  <2>2. CASE Crash
    <3>1. CASE since' = 0 /\ recent' = (IF since > Window THEN 1 ELSE recent + 1) /\ UNCHANGED broken
      BY <3>1, WindowAssumption DEF RestOK
    <3>2. CASE Screen
      BY <3>2, WindowAssumption DEF Screen, RestOK
    <3> QED BY <2>2, <3>1, <3>2 DEF Crash
  <2>3. CASE RenderError \/ Reload \/ UNCHANGED crashes
    BY <2>3 DEF RenderError, Reload, Screen, crashes, RestOK
  <2> QED BY <1>3, <2>1, <2>2, <2>3
<1> QED BY <1>4, <1>5, <1>6 DEF RestOK

LEMMA NoTabsOK ==
    ASSUME NoTabs
    PROVE  tab' = "config" /\ file' = NoFile /\ gets' = {} /\ NoFile \in File
BY DEF NoTabs, NoFile, File, Content, Keys

LEMMA ReloadedOK ==
    ASSUME Types, Reloaded
    PROVE  /\ cache' = [s \in Sites |-> None] /\ fetch' \in [Sites -> Fetch]
           /\ \A s \in Sites : fetch'[s].state # "answered"
           /\ form' = Blank /\ base' = Blank /\ loaded' = None /\ confirm' = FALSE
           /\ saves' = << >> /\ TabsOK'
<1>1. NoAside \in Asides /\ NoAside.state = "none"
  BY DEF NoAside, Asides, Content
<1>2. [state |-> "asked", val |-> None] \in Fetch /\ Idle \in Fetch /\ Idle.state = "idle"
  BY DEF Fetch, Idle
<1>3. TabsOK'
  BY <1>1, NoTabsOK DEF Reloaded, TabsOK
<1> QED BY <1>2, <1>3 DEF Reloaded

LEMMA FormTyped == ASSUME Types, OnForm PROVE Types'
<1> USE DEF Types
<1>1. ASSUME NEW r \in Sites \cup {"new"}, Enter(r) PROVE Types'
  <2>1. DataOK'
    BY <1>1, AskedOK DEF Enter, DataOK
  <2>2. PageOK'
    BY <1>1, FreshOK DEF Enter, PageOK
  <2>3. SavesOK' /\ TabsOK'
    BY <1>1, NoTabsOK DEF Enter, SavesOK, TabsOK
  <2>4. FileHere'
    BY <1>1, NoTabsOK DEF Enter, FileHere, NoFile
  <2> QED BY <2>1, <2>2, <2>3, <2>4
<1>2. CASE Leave
  <2>1. DataOK' /\ TabsOK'
    BY <1>2, NoTabsOK DEF Leave, Free, query, DataOK, TabsOK
  <2>2. PageOK'
    BY <1>2, FreshOK DEF Leave, PageOK
  <2>3. SavesOK'
    BY <1>2, LeftOK DEF Leave, SavesOK
  <2>4. FileHere'
    BY <1>2, NoTabsOK DEF Leave, FileHere, NoFile
  <2> QED BY <2>1, <2>2, <2>3, <2>4
<1>3. CASE TypeTarget \/ TypeRest
  <2>1. DataOK' /\ SavesOK' /\ TabsOK'
    BY <1>3 DEF TypeTarget, TypeRest, Typing, query, tabs, DataOK, SavesOK, TabsOK
  <2>2. PageOK' /\ FileHere'
    BY <1>3 DEF TypeTarget, TypeRest, Typing, tabs, PageOK, FileHere
  <2> QED BY <2>1, <2>2
<1>4. CASE Save \/ ConfirmSave \/ CancelSave
  <2>1. DataOK' /\ TabsOK'
    BY <1>4 DEF Save, ConfirmSave, CancelSave, Free, query, tabs, DataOK, TabsOK
  <2>2. PageOK' /\ FileHere'
    BY <1>4 DEF Save, ConfirmSave, CancelSave, tabs, PageOK, FileHere
  <2>3. ASSUME NEW asked \in BOOLEAN, Submit(asked), route # "away" PROVE SavesOK'
    <3> DEFINE w == [site |-> route, body |-> form, base |-> base, from |-> loaded,
                     asked |-> asked, here |-> TRUE, state |-> "sent", id |-> None]
    <3>1. w \in Submits /\ w.state = "sent"
      BY <2>3 DEF Submit, Submits, PageOK
    <3>2. saves' = Append(saves, w)
      BY <2>3 DEF Submit
    <3> HIDE DEF w
    <3>3. /\ saves' \in Seq(Submits) /\ Len(saves') = Len(saves) + 1
          /\ \A i \in 1..Len(saves) : saves'[i] = saves[i]
          /\ saves'[Len(saves) + 1] = w
      BY <3>1, <3>2, AppendProperties DEF SavesOK
    <3> QED BY <3>1, <3>3 DEF SavesOK
  <2>4. SavesOK'
    <3>1. Open => route # "away"
      BY SitesAssumption DEF Open, Editing
    <3>2. CASE UNCHANGED saves
      BY <3>2 DEF SavesOK
    <3> QED BY <1>4, <2>3, <3>1, <3>2 DEF Save, ConfirmSave, CancelSave, Free
  <2> QED BY <2>1, <2>2, <2>4
<1> QED BY <1>1, <1>2, <1>3, <1>4 DEF OnForm

(* A submission taken out, or moved on. *)
LEMMA RemovedOK ==
    ASSUME SavesOK, NEW k \in DOMAIN saves, saves' = RemoveAt(saves, k)
    PROVE  SavesOK' /\ Len(saves') = Len(saves) - 1
           /\ \A i \in 1..Len(saves') : \E j \in 1..Len(saves) : saves'[i] = saves[j]
<1>1. k \in 1..Len(saves)
  BY DEF SavesOK
<1>2. saves \in Seq(Submits)
  BY DEF SavesOK
<1>3. /\ saves' \in Seq(Submits) /\ Len(saves') = Len(saves) - 1
      /\ \A i \in 1..Len(saves') : \E j \in 1..Len(saves) : saves'[i] = saves[j]
  <2>1. /\ RemoveAt(saves, k) \in Seq(Submits)
        /\ Len(RemoveAt(saves, k)) = Len(saves) - 1
        /\ \A i \in 1..Len(RemoveAt(saves, k)) : \E j \in 1..Len(saves) : RemoveAt(saves, k)[i] = saves[j]
    BY <1>1, <1>2, RemoveAtElements
  <2> QED BY <2>1, Zenon
<1> QED BY <1>3 DEF SavesOK

LEMMA MovedOK ==
    ASSUME SavesOK, NEW k \in DOMAIN saves, NEW w \in Submits,
           saves' = [saves EXCEPT ![k] = w], w.state = "done" => w.id \in Sites
    PROVE  SavesOK' /\ Len(saves') = Len(saves)
           /\ \A i \in 1..Len(saves) : saves'[i] = IF i = k THEN w ELSE saves[i]
BY DEF SavesOK

LEMMA SavesTyped == ASSUME Types, OnSaves PROVE Types'
<1> USE DEF Types
<1>1. PICK k \in DOMAIN saves :
        ServeSave(k) \/ RefuseSave(k) \/ Updated(k) \/ Created(k) \/ SaveFailed(k) \/ SaveLost(k)
  BY DEF OnSaves
<1>2. k \in 1..Len(saves) /\ saves[k] \in Submits
  BY DEF SavesOK
<1>3. CASE ServeSave(k)
  <2>1. PICK s \in Sites :
          /\ server' \in [Sites -> Site \cup {None}]
          /\ saves' = [saves EXCEPT ![k].state = "done", ![k].id = s]
    <3>1. PICK s \in Sites :
            /\ saves' = [saves EXCEPT ![k].state = "done", ![k].id = s]
            /\ \/ server' = [server EXCEPT ![s] = [to |-> saves[k].body.to, rest |-> saves[k].body.rest,
                                                  cert |-> 0, locked |-> FALSE]]
               \/ /\ server[s] # None
                  /\ server' = [server EXCEPT ![s] = [server[s] EXCEPT !.to = saves[k].body.to,
                                                                      !.rest = saves[k].body.rest]]
      BY <1>3 DEF ServeSave
    <3>2. saves[k].body.to \in Two /\ saves[k].body.rest \in Two
      BY <1>2 DEF Submits, Form
    <3>3. server[s] # None => server[s] \in Site
      BY DEF DataOK
    <3> DEFINE b == saves[k].body
    <3>4. CASE server' = [server EXCEPT ![s] = [to |-> b.to, rest |-> b.rest, cert |-> 0, locked |-> FALSE]]
      <4>1. [to |-> b.to, rest |-> b.rest, cert |-> 0, locked |-> FALSE] \in Site
        BY <3>2 DEF Site, Two
      <4> QED BY <3>1, <3>4, <4>1 DEF DataOK
    <3>5. CASE /\ server[s] # None
               /\ server' = [server EXCEPT ![s] = [server[s] EXCEPT !.to = b.to, !.rest = b.rest]]
      <4>1. [server[s] EXCEPT !.to = b.to, !.rest = b.rest] \in Site
        BY <3>2, <3>3, <3>5 DEF Site
      <4> QED BY <3>1, <3>5, <4>1 DEF DataOK
    <3> QED BY <3>1, <3>4, <3>5
  <2> DEFINE w == [saves[k] EXCEPT !.state = "done", !.id = s]
  <2>2. w \in Submits /\ w.id = s /\ saves' = [saves EXCEPT ![k] = w]
    BY <1>2, <2>1 DEF Submits
  <2> HIDE DEF w
  <2>3. SavesOK'
    BY <2>2, MovedOK
  <2> QED BY <1>3, <2>1, <2>3 DEF ServeSave, query, editor, tabs, DataOK, PageOK, TabsOK, FileHere
<1>4. CASE RefuseSave(k) \/ SaveLost(k)
  <2> DEFINE w == [saves[k] EXCEPT !.state = "failed"]
  <2>1. w \in Submits /\ w.state = "failed" /\ saves' = [saves EXCEPT ![k] = w]
    BY <1>2, <1>4 DEF RefuseSave, SaveLost, Submits
  <2> HIDE DEF w
  <2>2. SavesOK'
    BY <2>1, MovedOK
  <2> QED BY <1>4, <2>2 DEF RefuseSave, SaveLost, query, editor, tabs,
                     DataOK, PageOK, TabsOK, FileHere
<1>5. CASE SaveFailed(k)
  BY <1>5, RemovedOK DEF SaveFailed, query, editor, tabs, DataOK, PageOK, TabsOK, FileHere
<1>6. CASE Updated(k)
  <2>1. SavesOK' /\ TabsOK' /\ FileHere'
    BY <1>6, RemovedOK DEF Updated, tabs, TabsOK, FileHere
  <2>2. DataOK'
    BY <1>6, AskedOK DEF Updated, DataOK
  <2>3. saves[k].body \in Form /\ saves[k].id \in Sites
    BY <1>2, <1>6 DEF Updated, SavesOK, Submits
  <2>4. Editing /\ Known => route \in Sites /\ cache[route] \in Site
    BY DEF Editing, Known, DataOK
  <2>5. PageOK'
    BY <1>6, <2>3, <2>4, AppliedOK, SiteParts DEF Updated, PageOK
  <2> QED BY <2>1, <2>2, <2>5
<1>7. CASE Created(k)
  <2>1. saves[k].id \in Sites /\ route' = saves[k].id
    BY <1>2, <1>7 DEF Created, SavesOK
  <2>2. SavesOK'
    BY <1>7, RemovedOK DEF Created
  <2>3. DataOK'
    BY <1>7, AskedOK DEF Created, DataOK
  <2>4. PageOK'
    <3>1. CASE broken
      BY <1>7, <2>1, <3>1 DEF Created, editor, PageOK
    <3>2. CASE ~broken /\ route = "away"
      BY <1>7, <2>1, <3>2, FreshOK DEF Created, PageOK
    <3>3. CASE ~broken /\ route # "away"
      BY <1>7, <2>1, <3>3, ShownOK DEF Created, PageOK, DataOK
    <3> QED BY <3>1, <3>2, <3>3
  <2>5. TabsOK' /\ FileHere'
    <3>1. UNCHANGED aside /\ (UNCHANGED <<tab, file, gets>> \/ (UNCHANGED tab /\ file' = NoFile /\ gets' = {}) \/ NoTabs)
      BY <1>7 DEF Created
    <3>2. NoFile \in File
      BY DEF NoFile, File, Content, Keys
    <3> QED BY <2>1, <3>1, <3>2 DEF NoTabs, TabsOK, FileHere
  <2> QED BY <2>2, <2>3, <2>4, <2>5
<1> QED BY <1>1, <1>3, <1>4, <1>5, <1>6, <1>7

LEMMA SiteTyped == ASSUME Types, OnSite PROVE Types'
<1> USE DEF Types
<1>1. PICK s \in Sites : FetchServe(s) \/ FetchArrives(s) \/ FetchFails(s) \/ OtherAdmin(s)
  BY DEF OnSite
<1>2. CASE FetchServe(s)
  BY <1>1, <1>2 DEF FetchServe, editor, tabs, DataOK, Fetch, PageOK, SavesOK, TabsOK, FileHere
<1>3. CASE FetchArrives(s)
  <2>1. fetch[s].val \in Site /\ cache' = [cache EXCEPT ![s] = fetch[s].val]
        /\ fetch' = [fetch EXCEPT ![s] = Idle] /\ Idle \in Fetch /\ Idle.state = "idle"
    BY <1>3 DEF FetchArrives, DataOK, Fetch, Idle
  <2>2. DataOK'
    BY <1>3, <2>1 DEF FetchArrives, DataOK
  <2>3. PageOK'
    <3>1. CASE broken
      BY <1>3, <3>1 DEF FetchArrives, PageOK
    <3>2. CASE ~broken
      BY <1>3, <2>2, <3>2, ShownOK DEF FetchArrives, DataOK, PageOK
    <3> QED BY <3>1, <3>2
  <2> QED BY <1>3, <2>2, <2>3 DEF FetchArrives, tabs, SavesOK, TabsOK, FileHere
<1>4. CASE FetchFails(s)
  BY <1>1, <1>4 DEF FetchFails, Idle, editor, tabs, DataOK, Fetch, PageOK,
                    SavesOK, TabsOK, FileHere
<1>5. CASE OtherAdmin(s)
  <2>1. server' \in [Sites -> Site \cup {None}]
    <3>1. server[s] \in Site
      BY <1>1, <1>5 DEF OtherAdmin, DataOK
    <3>2. \A x \in Two : 1 - x \in Two
      BY DEF Two
    <3>3. server' = [server EXCEPT ![s] = server'[s]] /\ server'[s] \in Site
      <4>1. CASE server' = [server EXCEPT ![s].locked = ~@]
        BY <1>1, <3>1, <4>1 DEF DataOK, Site
      <4>2. CASE server' = [server EXCEPT ![s].to = 1 - @]
        BY <1>1, <3>1, <3>2, <4>2 DEF DataOK, Site
      <4>3. CASE server' = [server EXCEPT ![s].rest = 1 - @]
        BY <1>1, <3>1, <3>2, <4>3 DEF DataOK, Site
      <4> QED BY <1>5, <4>1, <4>2, <4>3 DEF OtherAdmin
    <3> QED BY <3>3 DEF DataOK
  <2> QED BY <1>5, <2>1 DEF OtherAdmin, query, editor, tabs, DataOK, PageOK,
                    SavesOK, TabsOK, FileHere
<1> QED BY <1>1, <1>2, <1>3, <1>4, <1>5

(* What becomes of the file being edited. *)
LEMMA FileParts ==
    ASSUME file \in File
    PROVE  /\ NoFile \in File /\ [file EXCEPT !.key = "none"] \in File
           /\ [file EXCEPT !.loading = FALSE] \in File
           /\ \A g \in Sites \X Keys : [file EXCEPT !.content = g, !.loading = FALSE] \in File
           /\ \A key \in Keys : [key |-> key, content |-> Empty, loading |-> TRUE] \in File
           /\ file.key \in Keys \cup {"none"} /\ file.content \in Content
BY DEF File, NoFile, Content

LEMMA TabsTyped == ASSUME Types, OnTabs PROVE Types'
<1> USE DEF Types
<1>1. PageOK' /\ SavesOK' /\ FileHere'
  BY DEF OnTabs, SwitchTab, OpenFile, FileArrives, FileFails, Bind, CloseFile, SaveFile, ServeAside,
         RefuseAside, AsideAnswer, editor, Free, If, Happens, PageOK, SavesOK, FileHere, Known, Editing, NoFile, TabsOK, File
<1>2. ASSUME OnTabs, ~ServeAside, ~AsideAnswer PROVE DataOK'
  BY <1>2 DEF OnTabs, SwitchTab, OpenFile, FileArrives, FileFails, Bind, CloseFile, SaveFile,
         RefuseAside, query, DataOK
<1>3. CASE ServeAside
  <2>1. server' \in [Sites -> Site \cup {None}]
    <3>1. aside.site \in Sites
      BY <1>3 DEF ServeAside, TabsOK
    <3>2. server[aside.site] \in Site
      BY <1>3, <3>1 DEF ServeAside, DataOK
    <3>3. [server[aside.site] EXCEPT !.cert = 1 - @] \in Site
      BY <3>2 DEF Site, Two
    <3>4. \/ server' = [server EXCEPT ![aside.site] = [server[aside.site] EXCEPT !.cert = 1 - @]]
          \/ server' = server
      BY <1>3 DEF ServeAside
    <3> QED BY <3>1, <3>3, <3>4 DEF DataOK
  <2>2. TabsOK'
    BY <1>3 DEF ServeAside, TabsOK, Asides
  <2> QED BY <1>1, <1>3, <2>1, <2>2 DEF ServeAside, query, DataOK
<1>4. CASE AsideAnswer
  <2>1. DataOK'
    BY <1>4, AskedOK DEF AsideAnswer, DataOK
  <2>2. TabsOK'
    BY <1>4 DEF AsideAnswer, TabsOK, NoAside, Asides, Content, File
  <2> QED BY <1>1, <2>1, <2>2
<1>5. CASE RefuseAside
  <2>1. DataOK'
    BY <1>5 DEF RefuseAside, query, DataOK
  <2>2. TabsOK'
    BY <1>5 DEF RefuseAside, TabsOK, Asides
  <2> QED BY <1>1, <2>1, <2>2
<1>6. CASE Bind \/ SaveFile
  <2>1. route \in Sites
    BY <1>6 DEF Bind, SaveFile, Known, Editing, FileHere
  <2>2. DataOK'
    BY <1>6 DEF Bind, SaveFile, query, DataOK
  <2>3. CASE Bind
    <3>1. aside' = [kind |-> "bind", site |-> route, key |-> "none", content |-> Empty, state |-> "sent"]
      BY <2>3 DEF Bind, NoAside
    <3> QED BY <1>1, <2>1, <2>2, <2>3, <3>1 DEF Bind, TabsOK, Asides, Content
  <2>4. CASE SaveFile
    <3>1. file.key \in Keys \cup {"none"} /\ file.content \in Content
      BY DEF TabsOK, File
    <3>2. aside' = [kind |-> "file", site |-> route, key |-> file.key, content |-> file.content,
                    state |-> "sent"]
      BY <2>4 DEF SaveFile
    <3> QED BY <1>1, <2>1, <2>2, <2>4, <3>1, <3>2 DEF SaveFile, TabsOK, Asides
  <2> QED BY <1>6, <2>3, <2>4
<1>7. ASSUME UNCHANGED <<server, query, aside>>, file' \in File, gets' \subseteq Sites \X Keys,
             tab' \in {"config", "ssl", "files"}
      PROVE  Types'
  BY <1>1, <1>7 DEF query, DataOK, TabsOK
<1>8. CASE CloseFile \/ \E t \in {"config", "ssl", "files"} : SwitchTab(t)
  <2>1. file' \in File
    BY <1>8, FileParts DEF CloseFile, SwitchTab, TabsOK, Keys
  <2> QED BY <1>7, <1>8, <2>1 DEF CloseFile, SwitchTab, TabsOK
<1>9. CASE \E key \in Keys : OpenFile(key)
  <2>1. PICK key \in Keys : OpenFile(key)
    BY <1>9
  <2>2. <<route, key>> \in Sites \X Keys
    BY <2>1 DEF OpenFile, Known, Editing
  <2>3. file' \in File /\ gets' \subseteq Sites \X Keys
    BY <2>1, <2>2, FileParts DEF OpenFile, TabsOK
  <2> QED BY <1>7, <2>1, <2>3 DEF OpenFile, TabsOK
<1>10. CASE \E g \in gets : FileArrives(g) \/ FileFails(g)
  <2>1. PICK g \in gets : FileArrives(g) \/ FileFails(g)
    BY <1>10
  <2>2. g \in Sites \X Keys
    BY DEF TabsOK
  <2>3. file' \in File /\ gets' \subseteq Sites \X Keys
    BY <2>1, <2>2, FileParts DEF FileArrives, FileFails, TabsOK
  <2> QED BY <1>7, <2>1, <2>3 DEF FileArrives, FileFails, TabsOK
<1> QED BY <1>3, <1>4, <1>5, <1>6, <1>8, <1>9, <1>10 DEF OnTabs

LEMMA ScreenTyped == ASSUME Types, Screen, UNCHANGED <<server, route>> PROVE Types'
<1> USE DEF Types
<1>1. DataOK'
  BY DEF Screen, query, DataOK
<1>4. PageOK'
  BY SiteParts DEF Screen, PageOK
<1>5. FileHere'
  BY DEF Screen, NoTabs, FileHere, NoFile
<1>2. SavesOK'
  BY LeftOK DEF Screen, SavesOK
<1>3. TabsOK'
  BY NoTabsOK DEF Screen, TabsOK
<1> QED BY <1>1, <1>2, <1>3, <1>4, <1>5

LEMMA ReloadedTyped == ASSUME Types, Reloaded, UNCHANGED <<server, route>> PROVE Types'
<1> USE DEF Types
<1>1. DataOK'
  BY ReloadedOK DEF DataOK
<1>2. PageOK' /\ TabsOK'
  BY ReloadedOK, SiteParts DEF PageOK
<1>3. SavesOK'
  BY EmptySeq DEF Reloaded, SavesOK
<1>4. FileHere'
  BY NoTabsOK DEF Reloaded, FileHere, NoFile
<1> QED BY <1>1, <1>2, <1>3, <1>4

LEMMA AllTyped == ASSUME Types, OnAll PROVE Types'
<1>1. CASE Tick
  BY <1>1 DEF Tick, query, editor, tabs, Types, DataOK, PageOK, SavesOK, TabsOK, FileHere
<1>2. CASE Reconnect
  <2>1. fetch' \in [Sites -> Fetch] /\ \A s \in Sites : fetch'[s].state = "answered" => fetch'[s].val \in Site
    BY <1>2 DEF Reconnect, Known, Editing, Types, DataOK, Fetch
  <2> QED BY <1>2, <2>1 DEF Reconnect, editor, tabs, Types, DataOK, PageOK, SavesOK, TabsOK, FileHere
<1>3. CASE Crash \/ RenderError \/ Reload
  BY <1>3, ScreenTyped, ReloadedTyped DEF Crash, RenderError, Reload
<1> QED BY <1>1, <1>2, <1>3 DEF OnAll

LEMMA TypesInit == Init => Types /\ RestOK
<1> SUFFICES ASSUME Init PROVE Types /\ RestOK
  OBVIOUS
<1>1. [to |-> 0, rest |-> 0, cert |-> 0, locked |-> FALSE] \in Site
  BY DEF Site, Two
<1>2. Idle \in Fetch /\ Idle.state = "idle"
  BY DEF Idle, Fetch
<1>3. DataOK
  BY <1>1, <1>2 DEF Init, DataOK
<1>4. PageOK /\ FileHere
  BY SiteParts DEF Init, PageOK, FileHere, NoFile
<1>5. SavesOK
  BY EmptySeq DEF Init, SavesOK
<1>6. TabsOK
  <2>1. NoFile \in File /\ NoAside \in Asides /\ NoAside.state = "none"
    BY DEF NoFile, File, NoAside, Asides, Content
  <2> QED BY <2>1 DEF Init, TabsOK
<1>7. RestOK
  <2>1. broken = FALSE /\ since = Window + 1 /\ recent = 0 /\ acts = MaxActs /\ seen = {}
    BY DEF Init
  <2>2. Window + 1 \in 0..(Window + 1) /\ MaxActs \in 0..MaxActs
    BY WindowAssumption, BoundsAssumption
  <2>3. since \in 0..(Window + 1) /\ acts \in 0..MaxActs
    BY <2>1, <2>2, Zenon
  <2> QED BY <2>1, <2>3 DEF RestOK
<1> QED BY <1>3, <1>4, <1>5, <1>6, <1>7 DEF Types

LEMMA TypesStep == Types /\ RestOK /\ [Next]_vars => (Types /\ RestOK)'
<1> SUFFICES ASSUME Types, RestOK, [Next]_vars PROVE (Types /\ RestOK)'
  OBVIOUS
<1>1. CASE Next
  BY <1>1, NextSplit, FormTyped, SavesTyped, SiteTyped, TabsTyped, AllTyped, RestTyped
<1>2. CASE UNCHANGED vars
  BY <1>2 DEF vars, Types, RestOK, DataOK, PageOK, SavesOK, TabsOK, FileHere
<1> QED BY <1>1, <1>2

LEMMA TypesAlways == Spec => [](Types /\ RestOK)
BY TypesInit, TypesStep, PTL DEF Spec

(* The form, its baseline, the cache and what is under way keep their types, *)
(* for any sites and any window, in whatever order answers come.             *)
THEOREM EditorTypes == Spec => []TypeOK
<1>1. Types /\ RestOK => TypeOK
  BY DEF Types, RestOK, DataOK, PageOK, SavesOK, TabsOK, TypeOK, Fetch, Submits, File, Asides, Content
<1> QED BY <1>1, TypesAlways, PTL

-----------------------------------------------------------------------------
(* Reloads *)

LEMMA SpacedStep ==
    ASSUME StorageOk, RestOK, recent <= 1, [Next]_vars PROVE recent' <= 1
<1>1. CASE Crash
  BY <1>1 DEF Crash, Remembered, Screen, RestOK
<1>2. CASE Next /\ ~Crash
  <2>1. recent' = recent
    BY <1>2 DEF Next, User, Answers, Environment, Enter, Leave, Typing, TypeTarget, TypeRest, Save, ConfirmSave,
         CancelSave, ServeSave, RefuseSave, Updated, Created, SaveFailed, FetchServe, FetchArrives,
         FetchFails, Reconnect, SaveLost, OtherAdmin, SwitchTab, Bind, OpenFile, CloseFile, FileArrives,
         FileFails, SaveFile, ServeAside, RefuseAside, AsideAnswer, Tick, RenderError, Reload, Screen, crashes
  <2> QED BY <2>1
<1>3. CASE UNCHANGED vars
  BY <1>3 DEF vars
<1> QED BY <1>1, <1>2, <1>3

(* With a storage that works the application reloads itself at most once in  *)
(* a window, however often the page crashes and whatever the window.         *)
THEOREM ReloadsStaySpaced == ASSUME StorageOk PROVE Spec => []ReloadsAreSpaced
<1>1. Init => recent <= 1
  BY DEF Init
<1>2. RestOK /\ recent <= 1 /\ [Next]_vars => (recent <= 1)'
  BY SpacedStep
<1>3. Spec => [](recent <= 1)
  BY <1>1, <1>2, TypesAlways, PTL DEF Spec
<1> QED BY <1>3, PTL DEF ReloadsAreSpaced

-----------------------------------------------------------------------------
(* Saves *)

MeantWell(w, bad) ==
    w.site # "new" =>
        /\ w.from = w.site \/ "lost" \in bad
        /\ w.from = w.site /\ w.body.to # w.base.to => w.asked

(* What is on the page, unless a request was lost: once the site is there,   *)
(* the form is that site's; before, the site is on its way.                  *)
FormIsRoutes ==
    "lost" \notin seen /\ route \in Sites /\ ~broken =>
        IF cache[route] # None THEN loaded = route ELSE fetch[route].state # "idle"

Meant == FormIsRoutes /\ \A k \in 1..Len(saves) : MeantWell(saves[k], seen)

LEMMA SeenGrows == Next => seen \subseteq seen'
<1> SUFFICES ASSUME Next PROVE seen \subseteq seen'
  OBVIOUS
<1>1. seen' = seen \/ \E f \in Faults : seen' = seen \cup {f}
  BY DEF Next, User, Answers, Environment, Enter, Leave, Typing, TypeTarget, TypeRest, Save, ConfirmSave,
         CancelSave, ServeSave, RefuseSave, Updated, Created, SaveFailed, FetchServe, FetchArrives,
         FetchFails, Reconnect, SaveLost, OtherAdmin, SwitchTab, Bind, OpenFile, CloseFile, FileArrives,
         FileFails, SaveFile, ServeAside, RefuseAside, AsideAnswer, Tick, Crash, RenderError, Reload,
         Happens, If
<1> QED BY <1>1

(* A save that was under way before stays what it was. *)
LEMMA MeantStays ==
    ASSUME NEW w, NEW v, NEW bad, NEW worse, bad \subseteq worse, MeantWell(w, bad),
           v.site = w.site, v.from = w.from, v.body = w.body, v.base = w.base, v.asked = w.asked
    PROVE  MeantWell(v, worse)
BY DEF MeantWell

(* A new one has the site and the targets that were shown, or confirmed. *)
LEMMA SubmitMeant ==
    ASSUME Types, FormIsRoutes, NEW asked \in BOOLEAN, Open, asked \/ ~TargetsChanged
    PROVE  MeantWell([site |-> route, body |-> form, base |-> base, from |-> loaded, asked |-> asked,
                      here |-> TRUE, state |-> "sent", id |-> None], seen)
<1>1. route = "new" \/ (route \in Sites /\ (cache[route] # None \/ fetch[route].state = "idle") /\ ~broken)
  BY DEF Open, Editing
<1>2. route # "new" /\ "lost" \notin seen => loaded = route
  BY <1>1 DEF FormIsRoutes
<1>3. route # "new" /\ loaded = route /\ form.to # base.to => asked
  <2> SUFFICES ASSUME route # "new", loaded = route, form.to # base.to PROVE asked
    OBVIOUS
  <2>1. route \in Sites /\ loaded # None
    BY <1>1, SitesAssumption
  <2>2. base # Blank
    BY <2>1, SiteParts DEF Types, PageOK
  <2> QED BY <2>1, <2>2 DEF TargetsChanged, Editing
<1> QED BY <1>2, <1>3 DEF MeantWell

LEMMA MeantFormStep == ASSUME Types, Meant, Next, OnForm PROVE Meant'
<1> USE DEF Types, Meant
<1>0. seen \subseteq seen'
  BY SeenGrows
<1>1. FormIsRoutes'
  <2>1. ASSUME NEW r \in Sites \cup {"new"}, Enter(r) PROVE FormIsRoutes'
    <3>1. route' = r /\ Fresh(r) /\ fetch' = Mounts(r) /\ cache' = cache
      BY <2>1 DEF Enter
    <3>2. r \in Sites => fetch'[r].state # "idle"
      BY <3>1 DEF Mounts, DataOK
    <3> QED BY <3>1, <3>2, FreshOK DEF FormIsRoutes
  <2>2. CASE Leave
    BY <2>2, SitesAssumption DEF Leave, FormIsRoutes
  <2>3. CASE TypeTarget \/ TypeRest
    BY <1>0, <2>3 DEF TypeTarget, TypeRest, Typing, query, crashes, FormIsRoutes
  <2>4. CASE Save \/ ConfirmSave \/ CancelSave
    BY <1>0, <2>4 DEF Save, ConfirmSave, CancelSave, query, crashes, FormIsRoutes
  <2> QED BY <2>1, <2>2, <2>3, <2>4 DEF OnForm
<1>2. CASE UNCHANGED saves
  BY <1>0, <1>1, <1>2, MeantStays
<1>3. CASE Leave
  <2>1. /\ Len(saves') = Len(saves)
        /\ \A k \in 1..Len(saves) : saves'[k] = [saves[k] EXCEPT !.here = FALSE]
    BY <1>3, LeftOK DEF Leave
  <2>2. \A k \in 1..Len(saves) : saves[k] \in Submits
    BY DEF SavesOK
  <2>3. ASSUME NEW k \in 1..Len(saves) PROVE MeantWell(saves'[k], seen')
    <3>1. LET v == saves'[k] w == saves[k]
          IN  v.site = w.site /\ v.from = w.from /\ v.body = w.body /\ v.base = w.base /\ v.asked = w.asked
      BY <2>1, <2>2 DEF Submits
    <3> QED BY <1>0, <3>1, MeantStays
  <2> QED BY <1>1, <2>1, <2>3
<1>4. ASSUME NEW asked \in BOOLEAN, Submit(asked), Open, asked \/ ~TargetsChanged PROVE Meant'
  <2> DEFINE w == [site |-> route, body |-> form, base |-> base, from |-> loaded, asked |-> asked,
                   here |-> TRUE, state |-> "sent", id |-> None]
  <2>1. MeantWell(w, seen)
    BY <1>4, SubmitMeant
  <2>2. saves' = Append(saves, w) /\ w \in Submits
    BY <1>4, SitesAssumption DEF Submit, Submits, PageOK, Open, Editing
  <2> HIDE DEF w
  <2>3. /\ Len(saves') = Len(saves) + 1 /\ saves'[Len(saves) + 1] = w
        /\ \A i \in 1..Len(saves) : saves'[i] = saves[i]
    BY <2>2, AppendProperties DEF SavesOK
  <2>4. Len(saves) \in Nat
    BY DEF SavesOK
  <2>5. MeantWell(w, seen') /\ \A i \in 1..Len(saves) : MeantWell(saves[i], seen')
    BY <1>0, <2>1, MeantStays
  <2>6. ASSUME NEW i \in 1..(Len(saves) + 1) PROVE MeantWell(saves'[i], seen')
    <3>1. i \in 1..Len(saves) \/ i = Len(saves) + 1
      BY <2>4
    <3> QED BY <2>3, <2>5, <3>1
  <2> QED BY <1>1, <2>3, <2>6
<1>5. CASE Save
  BY <1>2, <1>4, <1>5 DEF Save, Free
<1>6. CASE ConfirmSave
  BY <1>4, <1>6 DEF ConfirmSave
<1> QED BY <1>2, <1>3, <1>5, <1>6 DEF OnForm, Enter, TypeTarget, TypeRest, Typing, CancelSave

LEMMA MovedParts ==
    ASSUME NEW w \in Submits, NEW st, NEW id
    PROVE  LET v == [w EXCEPT !.state = st, !.id = id]
           IN  v.site = w.site /\ v.from = w.from /\ v.body = w.body /\ v.base = w.base /\ v.asked = w.asked
BY DEF Submits

LEMMA MeantSavesStep == ASSUME Types, Meant, Next, OnSaves PROVE Meant'
<1> USE DEF Types, Meant
<1>0. seen \subseteq seen'
  BY SeenGrows
<1>1. PICK k \in DOMAIN saves :
        ServeSave(k) \/ RefuseSave(k) \/ Updated(k) \/ Created(k) \/ SaveFailed(k) \/ SaveLost(k)
  BY DEF OnSaves
<1>2. k \in 1..Len(saves) /\ saves[k] \in Submits
  BY DEF SavesOK
<1>3. \A i \in 1..Len(saves') : MeantWell(saves'[i], seen')
  <2>1. CASE Updated(k) \/ Created(k) \/ SaveFailed(k)
    <3>1. \A i \in 1..Len(saves') : \E j \in 1..Len(saves) : saves'[i] = saves[j]
      BY <1>1, <2>1, RemovedOK DEF Updated, Created, SaveFailed
    <3> QED BY <1>0, <3>1, MeantStays
  <2>2. CASE ServeSave(k) \/ RefuseSave(k) \/ SaveLost(k)
    <3>1. PICK st \in {"done", "failed"}, id \in Sites \cup {None} :
            saves' = [saves EXCEPT ![k] = [saves[k] EXCEPT !.state = st, !.id = id]]
      <4>1. CASE RefuseSave(k) \/ SaveLost(k)
        <5>1. [saves[k] EXCEPT !.state = "failed", !.id = saves[k].id] = [saves[k] EXCEPT !.state = "failed"]
          BY <1>2 DEF Submits
        <5>2. saves' = [saves EXCEPT ![k] = [saves[k] EXCEPT !.state = "failed"]]
          BY <4>1 DEF RefuseSave, SaveLost
        <5>3. saves[k].id \in Sites \cup {None}
          BY <1>2 DEF Submits
        <5> QED BY <5>1, <5>2, <5>3
      <4>2. CASE ServeSave(k)
        <5>1. PICK s \in Sites : saves' = [saves EXCEPT ![k].state = "done", ![k].id = s]
          BY <4>2 DEF ServeSave
        <5>2. saves' = [saves EXCEPT ![k] = [saves[k] EXCEPT !.state = "done", !.id = s]]
          BY <1>2, <5>1 DEF SavesOK
        <5> QED BY <5>2
      <4> QED BY <2>2, <4>1, <4>2
    <3>3. MeantWell([saves[k] EXCEPT !.state = st, !.id = id], seen')
      <4> DEFINE w == saves[k]
                 v == [w EXCEPT !.state = st, !.id = id]
      <4>1. w \in Submits /\ MeantWell(w, seen)
        BY <1>2
      <4> HIDE DEF w
      <4>2. v.site = w.site /\ v.from = w.from /\ v.body = w.body /\ v.base = w.base /\ v.asked = w.asked
        BY <4>1, MovedParts
      <4> HIDE DEF v
      <4>3. MeantWell(v, seen')
        BY <1>0, <4>1, <4>2, MeantStays
      <4> QED BY <4>3 DEF v, w
    <3>4. Len(saves') = Len(saves)
          /\ \A i \in 1..Len(saves) :
                saves'[i] = IF i = k THEN [saves[k] EXCEPT !.state = st, !.id = id] ELSE saves[i]
      BY <1>2, <3>1, ExceptSeq DEF SavesOK
    <3>5. \A i \in 1..Len(saves) : MeantWell(saves[i], seen')
      BY <1>0, MeantStays
    <3> QED BY <3>3, <3>4, <3>5
  <2> QED BY <1>1, <2>1, <2>2
<1>4. FormIsRoutes'
  <2>1. CASE ServeSave(k) \/ RefuseSave(k) \/ SaveFailed(k) \/ SaveLost(k)
    BY <1>0, <2>1 DEF ServeSave, RefuseSave, SaveFailed, SaveLost, query, editor, crashes, FormIsRoutes
  <2>2. CASE Updated(k)
    <3>1. /\ route' = route /\ cache' = cache /\ broken' = broken /\ seen' = seen
          /\ fetch' = Invalidated(saves[k].id)
          /\ \/ loaded' = loaded
             \/ Editing /\ Known /\ loaded' = route
             \/ ~(Editing /\ route # saves[k].id /\ Known) /\ loaded' = saves[k].id
      BY <2>2 DEF Updated, crashes, Apply
    <3>2. route \in Sites => (fetch[route].state # "idle" => fetch'[route].state # "idle")
      BY <3>1, AskedOK
    <3> QED BY <3>1, <3>2 DEF FormIsRoutes, Editing, Known
  <2>3. CASE Created(k)
    <3>1. saves[k].id \in Sites
      BY <1>2, <2>3 DEF Created, SavesOK
    <3>2. /\ route' = saves[k].id /\ cache' = cache /\ broken' = broken
          /\ fetch' = Mounts(saves[k].id)
          /\ broken \/ Fresh(saves[k].id) \/ Shown(saves[k].id, cache)
      BY <2>3 DEF Created, crashes
    <3>3. fetch'[route'].state # "idle"
      BY <3>1, <3>2 DEF Mounts, DataOK
    <3>4. ~broken /\ cache[saves[k].id] # None => loaded' = saves[k].id
      BY <3>1, <3>2, FreshOK, ShownOK DEF DataOK
    <3> QED BY <3>2, <3>3, <3>4 DEF FormIsRoutes
  <2> QED BY <1>1, <2>1, <2>2, <2>3
<1> QED BY <1>3, <1>4

LEMMA MeantSiteStep == ASSUME Types, Meant, Next, OnSite PROVE Meant'
<1> USE DEF Types, Meant
<1>0. seen \subseteq seen'
  BY SeenGrows
<1>1. PICK s \in Sites : FetchServe(s) \/ FetchArrives(s) \/ FetchFails(s) \/ OtherAdmin(s)
  BY DEF OnSite
<1>2. saves' = saves
  BY <1>1 DEF FetchServe, FetchArrives, FetchFails, OtherAdmin
<1>3. FormIsRoutes'
  <2>1. CASE FetchServe(s)
    BY <2>1 DEF FetchServe, editor, crashes, FormIsRoutes, DataOK
  <2>2. CASE FetchArrives(s)
    <3>1. /\ cache' = [cache EXCEPT ![s] = fetch[s].val] /\ fetch' = [fetch EXCEPT ![s] = Idle]
          /\ UNCHANGED <<route, broken, seen>> /\ fetch[s].val \in Site
          /\ broken \/ Shown(route, cache')
      BY <2>2 DEF FetchArrives, crashes, DataOK
    <3>2. cache' \in [Sites -> Site \cup {None}] /\ cache'[s] # None
      BY <3>1, SiteParts DEF DataOK
    <3>3. ~broken /\ route \in Sites /\ cache'[route] # None => loaded' = route
      BY <3>1, <3>2, ShownOK
    <3>4. route \in Sites /\ cache'[route] = None =>
            route # s /\ cache[route] = None /\ fetch'[route] = fetch[route]
      BY <3>1, <3>2 DEF DataOK
    <3> QED BY <3>1, <3>3, <3>4 DEF FormIsRoutes
  <2>3. CASE FetchFails(s)
    BY <2>3 DEF FetchFails, Happens, FormIsRoutes
  <2>4. CASE OtherAdmin(s)
    BY <1>0, <2>4 DEF OtherAdmin, query, editor, crashes, FormIsRoutes
  <2> QED BY <1>1, <2>1, <2>2, <2>3, <2>4
<1> QED BY <1>0, <1>2, <1>3, MeantStays

LEMMA MeantTabsStep == ASSUME Types, Meant, Next, OnTabs PROVE Meant'
<1> USE DEF Types, Meant
<1>0. seen \subseteq seen'
  BY SeenGrows
<1>1. saves' = saves /\ route' = route /\ cache' = cache /\ loaded' = loaded /\ broken' = broken
  BY DEF OnTabs, SwitchTab, OpenFile, FileArrives, FileFails, Bind, CloseFile, SaveFile, ServeAside,
         RefuseAside, AsideAnswer, query, editor, crashes
<1>2. fetch' = fetch \/ \E s : fetch' = Invalidated(s)
  BY DEF OnTabs, SwitchTab, OpenFile, FileArrives, FileFails, Bind, CloseFile, SaveFile, ServeAside,
         RefuseAside, AsideAnswer, query
<1>3. route \in Sites => (fetch[route].state # "idle" => fetch'[route].state # "idle")
  BY <1>2, AskedOK
<1>4. FormIsRoutes'
  BY <1>0, <1>1, <1>3 DEF FormIsRoutes
<1> QED BY <1>0, <1>1, <1>4, MeantStays

LEMMA MeantAllStep == ASSUME Types, Meant, Next, OnAll PROVE Meant'
<1> USE DEF Types, Meant
<1>0. seen \subseteq seen'
  BY SeenGrows
<1>1. CASE Tick \/ Reconnect
  <2>1. /\ saves' = saves /\ route' = route /\ cache' = cache /\ loaded' = loaded /\ broken' = broken
        /\ fetch' = fetch \/ fetch' = [fetch EXCEPT ![route] = [state |-> "asked", val |-> None]]
    BY <1>1 DEF Tick, Reconnect, query, editor, crashes
  <2>2. FormIsRoutes'
    BY <1>0, <2>1 DEF FormIsRoutes, DataOK
  <2> QED BY <1>0, <2>1, <2>2, MeantStays
<1>2. CASE Reloaded /\ route' = route
  BY <1>2, EmptySeq DEF Reloaded, FormIsRoutes
<1>3. CASE Screen
  <2>1. /\ Len(saves') = Len(saves)
        /\ \A k \in 1..Len(saves) : saves'[k] = [saves[k] EXCEPT !.here = FALSE]
    BY <1>3, LeftOK DEF Screen
  <2>2. \A k \in 1..Len(saves) : saves[k] \in Submits
    BY DEF SavesOK
  <2>3. ASSUME NEW k \in 1..Len(saves) PROVE MeantWell(saves'[k], seen')
    <3>1. LET v == saves'[k] w == saves[k]
          IN  v.site = w.site /\ v.from = w.from /\ v.body = w.body /\ v.base = w.base /\ v.asked = w.asked
      BY <2>1, <2>2 DEF Submits
    <3> QED BY <1>0, <3>1, MeantStays
  <2>4. FormIsRoutes'
    BY <1>3 DEF Screen, FormIsRoutes
  <2> QED BY <2>1, <2>3, <2>4
<1> QED BY <1>1, <1>2, <1>3 DEF OnAll, Crash, RenderError, Reload

LEMMA MeantAlways == Spec => []Meant
<1>1. Init => Meant
  BY EmptySeq, SitesAssumption DEF Init, Meant, FormIsRoutes
<1>2. Types /\ Meant /\ [Next]_vars => Meant'
  <2> SUFFICES ASSUME Types, Meant, [Next]_vars PROVE Meant'
    OBVIOUS
  <2>1. CASE Next
    BY <2>1, NextSplit, MeantFormStep, MeantSavesStep, MeantSiteStep, MeantTabsStep, MeantAllStep
  <2>2. CASE UNCHANGED vars
    BY <2>2 DEF vars, Meant, FormIsRoutes
  <2> QED BY <2>1, <2>2
<1> QED BY <1>1, <1>2, TypesAlways, PTL DEF Spec

(* A save goes to the site its form was loaded from, and new targets are     *)
(* confirmed, whatever answers come in between and however many saves are    *)
(* under way.                                                                *)
THEOREM SavesStayMeant == Spec => []SavesAreMeant
<1>1. Types /\ Meant => SavesAreMeant
  BY DEF Types, SavesOK, Meant, MeantWell, SavesAreMeant
<1> QED BY <1>1, TypesAlways, MeantAlways, PTL

-----------------------------------------------------------------------------
(* Files *)

(* What the editor holds is of this file, and of this site unless the page   *)
(* moved over it.                                                            *)
Its(c, s, key, had) == c \in Sites \X {key} /\ (c = <<s, key>> \/ "moved" \in had)

(* One fetch at a time, none of them lost: the file that is open is the one  *)
(* that was asked for, and once it is there the content is its own.          *)
Owned ==
    /\ broken => file.key = "none"
    /\ file.key # "none" => \A g \in gets : Its(g, route, file.key, seen)
    /\ file.key # "none" /\ ~file.loading => Its(file.content, route, file.key, seen)
    /\ aside.kind = "file" => Its(aside.content, aside.site, aside.key, seen)

OwnUnlessMixed == seen \cap {"overlap", "lost"} # {} \/ Owned

(* What is of a file stays of it, and is of it on whichever page, once the   *)
(* page has moved.                                                           *)
LEMMA ItsStays ==
    ASSUME NEW c, NEW s, NEW t, NEW key, NEW had, NEW has,
           Its(c, s, key, had), had \subseteq has, t = s \/ "moved" \in has
    PROVE  Its(c, t, key, has)
BY DEF Its

LEMMA OwnedStep == ASSUME Types, OwnUnlessMixed, Next PROVE OwnUnlessMixed'
<1> USE DEF OwnUnlessMixed
<1>1. seen \subseteq seen'
  BY SeenGrows
<1> SUFFICES ASSUME Owned, seen' \cap {"overlap", "lost"} = {} PROVE Owned'
  BY <1>1
<1>0. file \in File /\ aside \in Asides
  BY DEF Types, TabsOK
<1>a. aside.kind = "file" => Its(aside.content, aside.site, aside.key, seen')
  BY <1>1, ItsStays DEF Owned
<1>b. route' = route =>
        /\ file.key # "none" => \A g \in gets : Its(g, route, file.key, seen')
        /\ file.key # "none" /\ ~file.loading => Its(file.content, route, file.key, seen')
  BY <1>1, ItsStays DEF Owned
<1>2. CASE UNCHANGED <<file, gets, aside, route, broken>>
  BY <1>2, <1>a, <1>b DEF Owned
<1>3. CASE file' = NoFile /\ gets' = {} /\ aside' \in {aside, NoAside}
  BY <1>3, <1>a DEF Owned, NoFile, NoAside
<1>4. ASSUME NEW key \in Keys, OpenFile(key) PROVE Owned'
  <2>1. /\ gets' = {<<route, key>>} /\ route \in Sites /\ route' = route /\ ~broken'
        /\ file' = [key |-> key, content |-> Empty, loading |-> TRUE] /\ aside' = aside
    BY <1>4 DEF OpenFile, If, Happens, Known, Editing, Free, Open, crashes
  <2>2. Its(<<route, key>>, route, key, seen')
    BY <2>1 DEF Its
  <2> QED BY <1>a, <2>1, <2>2 DEF Owned
<1>5. ASSUME NEW g \in gets, FileArrives(g) PROVE Owned'
  <2>1. /\ file' = [file EXCEPT !.content = g, !.loading = FALSE] /\ gets' = gets \ {g}
        /\ UNCHANGED <<aside, route, broken>>
    BY <1>5 DEF FileArrives, crashes
  <2>2. file'.key = file.key /\ file'.content = g
    BY <1>0, <2>1 DEF File
  <2> QED BY <1>a, <1>b, <1>5, <2>1, <2>2 DEF Owned
<1>6. ASSUME NEW g \in gets, FileFails(g) PROVE Owned'
  BY <1>6 DEF FileFails, Happens
<1>7. ASSUME file' = [file EXCEPT !.key = "none"] \/ file' = file, UNCHANGED <<gets, route, broken>>,
             aside' \in {aside, NoAside}
      PROVE  Owned'
  <2>1. CASE file' = file
    BY <1>7, <1>a, <1>b, <2>1 DEF Owned, NoAside
  <2>2. CASE file' = [file EXCEPT !.key = "none"]
    <3>1. file'.key = "none"
      BY <1>0, <2>2 DEF File
    <3> QED BY <1>7, <1>a, <3>1 DEF Owned, NoAside
  <2> QED BY <1>7, <2>1, <2>2
<1>8. CASE SaveFile
  <2>1. Its(file.content, route, file.key, seen')
    BY <1>8, <1>b DEF SaveFile
  <2> QED BY <1>8, <1>b, <2>1 DEF SaveFile, Owned, crashes
<1>9. ASSUME UNCHANGED <<file, gets, route, broken>>,
             \/ aside'.kind # "file"
             \/ UNCHANGED <<aside.kind, aside.site, aside.key, aside.content>>
      PROVE  Owned'
  BY <1>9, <1>a, <1>b DEF Owned
<1>10. CASE OnForm
  BY <1>2, <1>3, <1>10 DEF OnForm, Enter, Leave, TypeTarget, TypeRest, Typing, Save, ConfirmSave, CancelSave,
                           NoTabs, tabs, crashes
<1>11. ASSUME NEW k \in DOMAIN saves, Created(k) PROVE Owned'
  <2>1. /\ route' = saves[k].id /\ UNCHANGED <<aside, broken>>
        /\ \/ broken /\ UNCHANGED <<file, gets>>
           \/ file' = NoFile /\ gets' = {}
           \/ UNCHANGED <<file, gets>> /\ cache[saves[k].id] # None
        /\ If(Kept(saves[k].id), "moved")
    BY <1>11 DEF Created, NoTabs, crashes
  <2>2. CASE file.key = "none" /\ UNCHANGED <<file, gets>>
    BY <1>a, <2>1, <2>2 DEF Owned
  <2>3. CASE file.key # "none" /\ UNCHANGED <<file, gets>> /\ ~broken /\ cache[saves[k].id] # None
    <3>1. route' = route \/ "moved" \in seen'
      BY <2>1, <2>3 DEF Kept, If, Happens
    <3>2. \A g \in gets : Its(g, route', file.key, seen')
      BY <1>1, <2>3, <3>1, ItsStays DEF Owned
    <3>3. ~file.loading => Its(file.content, route', file.key, seen')
      BY <1>1, <2>3, <3>1, ItsStays DEF Owned
    <3> QED BY <1>a, <2>1, <2>3, <3>2, <3>3 DEF Owned
  <2> QED BY <1>3, <2>1, <2>2, <2>3 DEF Owned
<1>12. CASE OnSaves
  BY <1>2, <1>11, <1>12 DEF OnSaves, ServeSave, RefuseSave, Updated, SaveFailed, SaveLost, tabs, crashes
<1>13. CASE OnSite
  BY <1>2, <1>13 DEF OnSite, FetchServe, FetchArrives, FetchFails, OtherAdmin, tabs, crashes
<1>14. CASE OnTabs
  <2>1. CASE Bind
    BY <1>9, <2>1 DEF Bind, NoAside, crashes
  <2>2. CASE ServeAside \/ RefuseAside
    <3>1. \E st \in {"done", "failed"} : aside' = [aside EXCEPT !.state = st]
      BY <2>2 DEF ServeAside, RefuseAside
    <3>2. UNCHANGED <<aside.kind, aside.site, aside.key, aside.content>>
      BY <1>0, <3>1 DEF Asides
    <3> QED BY <1>9, <2>2, <3>2 DEF ServeAside, RefuseAside, crashes
  <2>3. CASE AsideAnswer
    BY <1>7, <2>3 DEF AsideAnswer, crashes
  <2>4. CASE CloseFile
    BY <1>7, <2>4 DEF CloseFile, crashes
  <2>5. CASE \E t \in {"config", "ssl", "files"} : SwitchTab(t)
    BY <1>3, <2>5 DEF SwitchTab
  <2> QED BY <1>4, <1>5, <1>6, <1>8, <1>14, <2>1, <2>2, <2>3, <2>4, <2>5 DEF OnTabs
<1>15. CASE OnAll
  BY <1>2, <1>3, <1>15 DEF OnAll, Tick, Crash, RenderError, Reconnect, Reload, Reloaded, Screen, NoTabs, tabs, crashes
<1> QED BY NextSplit, <1>10, <1>12, <1>13, <1>14, <1>15

(* The content saved to a file is the one fetched for it, as long as fetches *)
(* do not overlap and none is lost: for the key in any case, and from the    *)
(* site it is saved to unless a create moved the page over an open file.     *)
THEOREM FilesKeepTheirOwn == Spec => []FileIsItsOwn
<1>1. Init => OwnUnlessMixed
  BY DEF Init, OwnUnlessMixed, Owned, NoFile, NoAside
<1>2. Types /\ OwnUnlessMixed /\ [Next]_vars => OwnUnlessMixed'
  <2> SUFFICES ASSUME Types, OwnUnlessMixed, [Next]_vars PROVE OwnUnlessMixed'
    OBVIOUS
  <2>1. CASE Next
    BY <2>1, OwnedStep
  <2>2. CASE UNCHANGED vars
    BY <2>2 DEF vars, OwnUnlessMixed, Owned, Its
  <2> QED BY <2>1, <2>2
<1>3. OwnUnlessMixed => FileIsItsOwn
  BY DEF OwnUnlessMixed, Owned, Its, FileIsItsOwn
<1> QED BY <1>1, <1>2, <1>3, TypesAlways, PTL DEF Spec

-----------------------------------------------------------------------------
(* Drafts *)

(* "A refetch of the same site must not overwrite an unsaved draft": what    *)
(* was typed goes only with a save, with the page, or with the application.  *)
THEOREM DraftsStay == Spec => DraftStays
<1> DEFINE Goes == \/ TypeTarget \/ TypeRest
                   \/ route' # route \/ Len(saves') < Len(saves)
                   \/ cache' = [s \in Sites |-> None] \/ broken'
<1>1. ASSUME Types, Next, Dirty, loaded = route, form' # form PROVE Goes
  <2>0. route \in Sites /\ route # "away" /\ route # "new"
    BY <1>1, SitesAssumption DEF Dirty, Editing
  <2>1. CASE OnForm
    BY <1>1, <2>0, <2>1 DEF OnForm, Enter, Leave, Save, ConfirmSave, CancelSave
  <2>2. CASE OnSaves
    <3>1. PICK k \in DOMAIN saves :
            ServeSave(k) \/ RefuseSave(k) \/ Updated(k) \/ Created(k) \/ SaveFailed(k) \/ SaveLost(k)
      BY <2>2 DEF OnSaves
    <3>2. CASE ServeSave(k) \/ RefuseSave(k) \/ SaveLost(k)
      BY <1>1, <3>2 DEF ServeSave, RefuseSave, SaveLost, editor
    <3>3. CASE saves' = RemoveAt(saves, k)
      <4>1. Len(saves') = Len(saves) - 1 /\ Len(saves) \in Nat
        BY <1>1, <3>3, RemovedOK DEF Types, SavesOK
      <4> QED BY <4>1
    <3> QED BY <3>1, <3>2, <3>3 DEF Updated, Created, SaveFailed
  <2>3. CASE OnSite
    <3>1. PICK s \in Sites : FetchServe(s) \/ FetchArrives(s) \/ FetchFails(s) \/ OtherAdmin(s)
      BY <2>3 DEF OnSite
    <3>2. CASE FetchArrives(s)
      BY <1>1, <3>2 DEF FetchArrives, Shown
    <3>3. CASE FetchServe(s) \/ FetchFails(s) \/ OtherAdmin(s)
      BY <1>1, <3>3 DEF FetchServe, FetchFails, OtherAdmin, editor
    <3> QED BY <3>1, <3>2, <3>3
  <2>4. CASE OnTabs
    BY <1>1, <2>4 DEF OnTabs, SwitchTab, OpenFile, FileArrives, FileFails, Bind, CloseFile, SaveFile, ServeAside,
                      RefuseAside, AsideAnswer, editor
  <2>5. CASE OnAll
    BY <1>1, <2>5 DEF OnAll, Tick, Crash, RenderError, Reconnect, Reload, Reloaded, Screen, editor
  <2> QED BY <1>1, NextSplit, <2>1, <2>2, <2>3, <2>4, <2>5
<1>2. Types /\ [Next]_vars => [Dirty /\ loaded = route /\ form' # form => Goes]_vars
  BY <1>1
<1> QED BY <1>2, TypesAlways, PTL DEF Spec, DraftStays

=============================================================================
