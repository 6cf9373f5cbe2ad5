-------------------------- MODULE SitePanelProofs --------------------------
(***************************************************************************)
(* For any sites, certificates, configurations and requests under way:     *)
(* rows, trees and loaded copies keep their types, whatever overlaps.  As  *)
(* long as no two requests are about one site, a locked site is frozen; if *)
(* none that may delete a certificate meets another that names it, a bound *)
(* certificate exists, and between requests the trees follow the rows, over*)
(* failing calls, failing writes, deaths and boots.                        *)
(***************************************************************************)
EXTENDS SitePanel, TLAPS

-----------------------------------------------------------------------------
(* What a request holds at its next step *)

GoodRow == {w \in Row : w.tls => w.cert # NoCert}

SiteOp   == {"create", "update", "toggle", "delete", "savefile", "restore", "lock", "bind"}
SiteJobs == [op : SiteOp, site : Site, row : GoodRow, tree : Tree \cup {NoTree}]
CertJobs == [op : {"newcert", "reissue", "delcert"}, cert : Cert, row : CertRow]

OnSite == {"bind", "call", "save", "drop"}
OnCert == {"issue", "discard", "record", "deltx", "rmfiles"}

Types ==
    /\ rows \in [Site -> GoodRow \cup {NoRow}]
    /\ certs \in [Cert -> CertRow \cup {NoRow}]
    /\ files \subseteq Cert
    /\ live \in [Site -> Tree \cup {NoTree}]
    /\ backup \in [Site -> Tree \cup {NoTree}]
    /\ used \subseteq Site \cup Cert
    /\ up \in BOOLEAN
    /\ left \subseteq Site
    /\ pc \in [Req -> {"idle"} \cup OnSite \cup OnCert]
    /\ job \in [Req -> {NoJob} \cup SiteJobs \cup CertJobs]

Holds(r) ==
    /\ pc[r] \in OnSite => job[r] \in SiteJobs
    /\ pc[r] \in OnCert => job[r] \in CertJobs
    /\ pc[r] = "bind" => job[r].op = "bind" /\ job[r].row.cert \in Cert

TInv == Types /\ \A r \in Req : Holds(r)

(* The tree of a row is a tree, and so is one edited by hand. *)
LEMMA RenderedTree == ASSUME NEW w \in Row PROVE Rendered(w) \in Tree
BY DEF Rendered, Row, Tree, MaybeCert

LEMMA EditedTree ==
    ASSUME NEW t \in Tree \cup {NoTree} PROVE Edited(t) \in Tree
BY DEF Edited, Tree, MaybeCert

LEMMA NewRowIsGood ==
    ASSUME NEW g \in Cfg
    PROVE  NewRow(g) \in GoodRow /\ NewRow(g).cert = NoCert
BY DEF NewRow, GoodRow, Row, MaybeCert

(* A request that begins holds a typed copy of the row it has loaded. *)
LEMMA BeginTyped ==
    ASSUME TInv, NEW r \in Req, NEW l \in OnSite, NEW j \in SiteJobs,
           Begin(r, l, j), l = "bind" => j.op = "bind" /\ j.row.cert \in Cert,
           rows' \in [Site -> GoodRow \cup {NoRow}], certs' = certs,
           used' \subseteq Site \cup Cert
    PROVE  TInv'
<1>1. /\ pc' = [pc EXCEPT ![r] = l] /\ job' = [job EXCEPT ![r] = j]
      /\ UNCHANGED <<disk, up, left>>
  BY DEF Begin
<1>2. Types'
  BY <1>1 DEF TInv, Types, disk
<1>3. \A q \in Req : Holds(q)'
  BY <1>1 DEF TInv, Types, Holds, OnSite, OnCert
<1> QED BY <1>2, <1>3 DEF TInv

LEMMA BeginTypedCert ==
    ASSUME TInv, NEW r \in Req, NEW l \in OnCert, NEW j \in CertJobs,
           Begin(r, l, j),
           rows' = rows, certs' \in [Cert -> CertRow \cup {NoRow}],
           used' \subseteq Site \cup Cert
    PROVE  TInv'
<1>1. /\ pc' = [pc EXCEPT ![r] = l] /\ job' = [job EXCEPT ![r] = j]
      /\ UNCHANGED <<disk, up, left>>
  BY DEF Begin
<1>2. Types'
  BY <1>1 DEF TInv, Types, disk
<1>3. \A q \in Req : Holds(q)'
  BY <1>1 DEF TInv, Types, Holds, OnSite, OnCert
<1> QED BY <1>2, <1>3 DEF TInv

LEMMA GotoTyped ==
    ASSUME TInv, NEW r \in Req, NEW l, Goto(r, l),
           \/ l = "idle"
           \/ l \in OnSite \ {"bind"} /\ pc[r] \in OnSite
           \/ l \in OnCert /\ pc[r] \in OnCert,
           rows' \in [Site -> GoodRow \cup {NoRow}],
           certs' \in [Cert -> CertRow \cup {NoRow}],
           files' \subseteq Cert,
           live' \in [Site -> Tree \cup {NoTree}],
           backup' \in [Site -> Tree \cup {NoTree}]
    PROVE  TInv'
<1>1. /\ pc' = [pc EXCEPT ![r] = l]
      /\ job' = IF l = "idle" THEN [job EXCEPT ![r] = NoJob] ELSE job
      /\ UNCHANGED <<used, up, left>>
  BY DEF Goto
<1>2. Types'
  BY <1>1 DEF TInv, Types
<1>3. \A q \in Req : Holds(q)'
  BY <1>1 DEF TInv, Types, Holds, OnSite, OnCert
<1> QED BY <1>2, <1>3 DEF TInv

(* The rows the handlers make of the ones they have loaded. *)
LEMMA UpdatedRow ==
    ASSUME NEW w \in GoodRow, NEW g \in Cfg, NEW v, v = [w EXCEPT !.cfg = g, !.raw = FALSE]
    PROVE  v \in GoodRow /\ v.enabled = w.enabled /\ v.cert = w.cert /\ v.tls = w.tls
BY DEF GoodRow, Row

LEMMA ToggledRow ==
    ASSUME NEW w \in GoodRow, NEW v, v = [w EXCEPT !.enabled = ~@, !.raw = @ /\ w.enabled]
    PROVE  /\ v \in GoodRow /\ v.enabled # w.enabled /\ v.cert = w.cert /\ v.tls = w.tls
           /\ v.enabled => ~v.raw
BY DEF GoodRow, Row

LEMMA MarkedRow ==
    ASSUME NEW w \in GoodRow, NEW v, v = [w EXCEPT !.raw = TRUE]
    PROVE  v \in GoodRow /\ v.enabled = w.enabled /\ v.cert = w.cert /\ v.tls = w.tls /\ v.raw
BY DEF GoodRow, Row

LEMMA LockedRow ==
    ASSUME NEW w \in GoodRow, NEW v, v = [w EXCEPT !.locked = ~@]
    PROVE  /\ v \in GoodRow /\ v.enabled = w.enabled /\ v.cert = w.cert /\ v.tls = w.tls
           /\ v.raw = w.raw /\ Rendered(v) = Rendered(w)
BY DEF GoodRow, Row, Rendered

LEMMA UnboundRow ==
    ASSUME NEW w \in GoodRow, NEW v, v = [w EXCEPT !.cert = NoCert, !.tls = FALSE, !.raw = FALSE]
    PROVE  v \in GoodRow /\ v.enabled = w.enabled /\ v.cert = NoCert
BY DEF GoodRow, Row, MaybeCert

LEMMA BoundRow ==
    ASSUME NEW w \in GoodRow, NEW c \in Cert, NEW v, v = [w EXCEPT !.cert = c, !.raw = FALSE]
    PROVE  v \in GoodRow /\ v.enabled = w.enabled /\ v.cert = c
BY PanelAssumption DEF GoodRow, Row, MaybeCert

LEMMA PathedRow ==
    ASSUME NEW w \in GoodRow, w.cert \in Cert, NEW b \in BOOLEAN, NEW v, v = [w EXCEPT !.tls = b]
    PROVE  /\ v \in GoodRow /\ v.enabled = w.enabled /\ v.cert = w.cert /\ v.tls = b
           /\ v.locked = w.locked /\ v.raw = w.raw
BY PanelAssumption DEF GoodRow, Row, MaybeCert

-----------------------------------------------------------------------------
(* How a request on a site begins *)

ServeSite(r, s) ==
    \/ \E g \in Cfg : Create(r, s, g) \/ Update(r, s, g)
    \/ Toggle(r, s) \/ Delete(r, s) \/ SaveFile(r, s) \/ Restore(r, s)
    \/ SetLocked(r, s) \/ Unbind(r, s)
    \/ \E c \in Cert : Bind(r, s, c)

ServeCert(r, c) == NewCert(r, c) \/ Reissue(r, c) \/ DeleteCert(r, c)

(* What the copy in j may change of the row w it was loaded from. *)
Copied(j, w) ==
    /\ w # NoRow
    /\ j.op = "lock" => j.row = [w EXCEPT !.locked = ~@]
    /\ j.op # "lock" => ~w.locked
    /\ j.op = "create" => j.row = w
    /\ j.op = "toggle" <=> j.row.enabled # w.enabled
    /\ j.op = "toggle" /\ j.row.enabled => ~j.row.raw
    /\ j.op \in Edits => j.row.raw

(* The copy names the certificate of the row, or none. *)
Keeps(j, w) == \/ j.row.cert = NoCert
               \/ j.row.cert = w.cert /\ j.row.tls = w.tls

(* What is asked of the service, and when it is not asked at all. *)
Asks(l, j) ==
    /\ l = "call" =>
         /\ j.op # "lock"
         /\ j.op \in {"create", "update", "bind"} => j.row.enabled /\ j.tree = Rendered(j.row)
         /\ j.op = "toggle" => j.tree = IF j.row.enabled THEN Rendered(j.row) ELSE NoTree
         /\ j.op = "delete" => j.tree = NoTree
    /\ l = "save" => j.op = "lock" \/ (j.op \in {"update", "bind"} /\ ~j.row.enabled)

Begun(r, s, l, j) ==
    /\ Begin(r, l, j)
    /\ l \in {"bind", "call", "save"} /\ j \in SiteJobs /\ j.site = s
    /\ certs' = certs
    /\ \/ rows' = rows /\ used' = used /\ j.op # "create"
       \/ /\ s \notin used /\ used' = used \cup {s} /\ j.op = "create" /\ l = "call"
          /\ rows' = [rows EXCEPT ![s] = j.row] /\ j.row.cert = NoCert
    /\ Copied(j, rows'[s])
    /\ Asks(l, j)
    /\ l = "bind" => j.op = "bind" /\ j.row.cert \in Cert
    /\ l # "bind" => Keeps(j, rows'[s])

LEMMA JobParts ==
    ASSUME NEW op \in SiteOp, NEW s \in Site, NEW w \in GoodRow, NEW t \in Tree \cup {NoTree}
    PROVE  /\ Job(op, s, w, t) \in SiteJobs
           /\ Job(op, s, w, t).op = op /\ Job(op, s, w, t).site = s
           /\ Job(op, s, w, t).row = w /\ Job(op, s, w, t).tree = t
BY DEF Job, SiteJobs

LEMMA RowIsRow == ASSUME NEW w \in GoodRow PROVE w \in Row /\ w # NoRow
BY NothingAssumption DEF GoodRow

LEMMA SiteBegins ==
    ASSUME TInv, NEW r \in Req, NEW s \in Site, ServeSite(r, s)
    PROVE  \E l, j : Begun(r, s, l, j)
<1> DEFINE w == rows[s]
<1>0. w # NoRow => w \in GoodRow
  BY DEF TInv, Types
<1>1. ASSUME NEW g \in Cfg, Create(r, s, g) PROVE Begun(r, s, "call", Job("create", s, NewRow(g), Rendered(NewRow(g))))
  <2> DEFINE n == NewRow(g)
             j == Job("create", s, n, Rendered(n))
  <2>1. n \in GoodRow /\ n.cert = NoCert /\ n.enabled /\ ~n.locked /\ n # NoRow
    BY NewRowIsGood, RowIsRow DEF NewRow
  <2>2. j \in SiteJobs /\ j.op = "create" /\ j.site = s /\ j.row = n /\ j.tree = Rendered(n)
    BY <2>1, RenderedTree, RowIsRow, JobParts DEF SiteOp
  <2>3. /\ s \notin used /\ used' = used \cup {s} /\ certs' = certs
        /\ rows' = [rows EXCEPT ![s] = n] /\ Begin(r, "call", j)
    BY <1>1 DEF Create
  <2>4. rows'[s] = n
    BY <2>3 DEF TInv, Types
  <2> HIDE DEF n, j
  <2>5. Copied(j, n) /\ Keeps(j, n) /\ Asks("call", j)
    BY <2>1, <2>2 DEF Copied, Keeps, Asks, Edits
  <2> QED BY <2>1, <2>2, <2>3, <2>4, <2>5 DEF Begun, n, j
<1>2. ASSUME NEW op \in {"update", "bind"}, NEW v \in GoodRow, MayChange(s), SameRows,
             ApplyOrSave(r, op, s, v), v.enabled = w.enabled, Keeps([row |-> v], w)
      PROVE  \E l, j : Begun(r, s, l, j)
  <2> DEFINE l == IF v.enabled THEN "call" ELSE "save"
             j == Job(op, s, v, Rendered(v))
  <2>1. j \in SiteJobs /\ j.op = op /\ j.site = s /\ j.row = v /\ j.tree = Rendered(v)
    BY RenderedTree, RowIsRow, JobParts DEF SiteOp
  <2>2. Begin(r, l, j) /\ rows' = rows /\ certs' = certs /\ used' = used
    BY <1>2 DEF ApplyOrSave, SameRows
  <2>3. w # NoRow /\ ~w.locked
    BY <1>2 DEF MayChange
  <2>4. (v.enabled => l = "call") /\ (~v.enabled => l = "save")
    OBVIOUS
  <2>5. Begun(r, s, l, j)
    <3> HIDE DEF l, j, w
    <3>1. Copied(j, w) /\ Keeps(j, w)
      BY <1>2, <2>1, <2>3 DEF Copied, Keeps, Edits
    <3>2. Asks(l, j)
      BY <1>2, <2>1, <2>4 DEF Asks
    <3>3. l \in {"call", "save"}
      BY DEF l
    <3> QED BY <1>2, <2>1, <2>2, <3>1, <3>2, <3>3 DEF Begun, w
  <2> QED BY <2>5
<1>3. ASSUME NEW op \in SiteOp \ {"create", "update", "bind", "lock"}, NEW v \in GoodRow,
             NEW t \in Tree \cup {NoTree}, MayChange(s), SameRows,
             Begin(r, "call", Job(op, s, v, t)), Keeps([row |-> v], w),
             op = "toggle" <=> v.enabled # w.enabled,
             op = "toggle" => t = IF v.enabled THEN Rendered(v) ELSE NoTree,
             op = "toggle" /\ v.enabled => ~v.raw,
             op = "delete" => t = NoTree,
             op \in Edits => v.raw
      PROVE  Begun(r, s, "call", Job(op, s, v, t))
  <2> DEFINE j == Job(op, s, v, t)
  <2>1. j \in SiteJobs /\ j.op = op /\ j.site = s /\ j.row = v /\ j.tree = t
    BY JobParts
  <2>2. Begin(r, "call", j) /\ rows' = rows /\ certs' = certs /\ used' = used
    BY <1>3 DEF SameRows
  <2>3. w # NoRow /\ ~w.locked
    BY <1>3 DEF MayChange
  <2> HIDE DEF j, w
  <2>4. Copied(j, w) /\ Keeps(j, w) /\ Asks("call", j)
    BY <1>3, <2>1, <2>3 DEF Copied, Keeps, Asks
  <2>5. Begun(r, s, "call", j)
    BY <1>3, <2>1, <2>2, <2>4 DEF Begun, w
  <2> QED BY <2>5 DEF j
<1>4. CASE \E g \in Cfg : Create(r, s, g)
  BY <1>4, <1>1
<1>5. ASSUME NEW g \in Cfg, Update(r, s, g) PROVE \E l, j : Begun(r, s, l, j)
  <2> DEFINE v == [w EXCEPT !.cfg = g, !.raw = FALSE]
  <2>1. MayChange(s) /\ ApplyOrSave(r, "update", s, v) /\ SameRows
    BY <1>5 DEF Update
  <2>2. w \in GoodRow
    BY <1>0, <2>1 DEF MayChange
  <2>3. v \in GoodRow /\ v.enabled = w.enabled /\ v.cert = w.cert /\ v.tls = w.tls
    BY <2>2, UpdatedRow
  <2> HIDE DEF v, w
  <2> QED BY <1>2, <2>1, <2>3 DEF Keeps
<1>6. ASSUME Toggle(r, s) PROVE \E l, j : Begun(r, s, l, j)
  <2> DEFINE v == [w EXCEPT !.enabled = ~@, !.raw = @ /\ w.enabled]
             t == IF v.enabled THEN Rendered(v) ELSE NoTree
  <2>1. MayChange(s) /\ Begin(r, "call", Job("toggle", s, v, t)) /\ SameRows
    BY <1>6 DEF Toggle
  <2>2. w \in GoodRow
    BY <1>0, <2>1 DEF MayChange
  <2>3. /\ v \in GoodRow /\ v.enabled # w.enabled /\ v.cert = w.cert /\ v.tls = w.tls
        /\ v.enabled => ~v.raw
    BY <2>2, ToggledRow
  <2>4. t \in Tree \cup {NoTree}
    BY <2>3, RenderedTree, RowIsRow
  <2> HIDE DEF v, w
  <2> QED BY <1>3, <2>1, <2>3, <2>4 DEF Keeps, SiteOp, Edits
<1>7. ASSUME Delete(r, s) PROVE \E l, j : Begun(r, s, l, j)
  <2>1. MayChange(s) /\ Begin(r, "call", Job("delete", s, w, NoTree)) /\ SameRows
    BY <1>7 DEF Delete
  <2>2. w \in GoodRow
    BY <1>0, <2>1 DEF MayChange
  <2> HIDE DEF w
  <2> QED BY <1>3, <2>1, <2>2 DEF Keeps, SiteOp, Edits
<1>8. ASSUME NEW op \in Edits, NEW t \in Tree \cup {NoTree}, MayChange(s), SameRows,
             Begin(r, "call", Job(op, s, [w EXCEPT !.raw = TRUE], t))
      PROVE  \E l, j : Begun(r, s, l, j)
  <2> DEFINE v == [w EXCEPT !.raw = TRUE]
  <2>1. w \in GoodRow
    BY <1>0, <1>8 DEF MayChange
  <2>2. v \in GoodRow /\ v.enabled = w.enabled /\ v.cert = w.cert /\ v.tls = w.tls /\ v.raw
    BY <2>1, MarkedRow
  <2>3. Begin(r, "call", Job(op, s, v, t))
    BY <1>8
  <2> HIDE DEF v, w
  <2> QED BY <1>3, <1>8, <2>2, <2>3 DEF Keeps, SiteOp, Edits
<1>9. CASE SaveFile(r, s)
  BY <1>8, <1>9 DEF SaveFile, Edits
<1>10. CASE Restore(r, s)
  BY <1>8, <1>10 DEF Restore, Edits, TInv, Types
<1>11. ASSUME SetLocked(r, s) PROVE \E l, j : Begun(r, s, l, j)
  <2> DEFINE v == [w EXCEPT !.locked = ~@]
             j == Job("lock", s, v, NoTree)
  <2>1. w # NoRow /\ Begin(r, "save", j) /\ SameRows
    BY <1>11 DEF SetLocked
  <2>2. w \in GoodRow
    BY <1>0, <2>1
  <2>3. v \in GoodRow /\ v.enabled = w.enabled /\ v.cert = w.cert /\ v.tls = w.tls
    BY <2>2, LockedRow
  <2>4. j \in SiteJobs /\ j.op = "lock" /\ j.site = s /\ j.row = v
    BY <2>3, JobParts DEF SiteOp
  <2>5. j.row = [w EXCEPT !.locked = ~@]
    BY <2>4
  <2> HIDE DEF v, j, w
  <2>6. Copied(j, w) /\ Keeps(j, w) /\ Asks("save", j)
    BY <2>1, <2>3, <2>4, <2>5 DEF Copied, Keeps, Asks, Edits
  <2>7. Begun(r, s, "save", j)
    BY <2>1, <2>4, <2>6 DEF Begun, SameRows, w
  <2> QED BY <2>7
<1>12. ASSUME Unbind(r, s) PROVE \E l, j : Begun(r, s, l, j)
  <2> DEFINE v == [w EXCEPT !.cert = NoCert, !.tls = FALSE, !.raw = FALSE]
  <2>1. MayChange(s) /\ ApplyOrSave(r, "bind", s, v) /\ SameRows
    BY <1>12 DEF Unbind
  <2>2. w \in GoodRow
    BY <1>0, <2>1 DEF MayChange
  <2>3. v \in GoodRow /\ v.enabled = w.enabled /\ v.cert = NoCert
    BY <2>2, UnboundRow
  <2> HIDE DEF v, w
  <2> QED BY <1>2, <2>1, <2>3 DEF Keeps
<1>13. ASSUME NEW c \in Cert, Bind(r, s, c) PROVE \E l, j : Begun(r, s, l, j)
  <2> DEFINE v == [w EXCEPT !.cert = c, !.raw = FALSE]
             j == Job("bind", s, v, NoTree)
  <2>1. w # NoRow /\ ~w.locked /\ Begin(r, "bind", j) /\ SameRows
    BY <1>13 DEF Bind, MayChange
  <2>2. w \in GoodRow
    BY <1>0, <2>1
  <2>3. v \in GoodRow /\ v.enabled = w.enabled /\ v.cert = c
    <3>1. \A u : u = [w EXCEPT !.cert = c, !.raw = FALSE] =>
              u \in GoodRow /\ u.enabled = w.enabled /\ u.cert = c
      BY <2>2, BoundRow, Zenon
    <3> QED BY <3>1
  <2>4. j \in SiteJobs /\ j.op = "bind" /\ j.site = s /\ j.row = v
    BY <2>3, JobParts DEF SiteOp
  <2> HIDE DEF v, j, w
  <2>5. Copied(j, w) /\ Asks("bind", j)
    BY <2>1, <2>3, <2>4 DEF Copied, Asks, Edits
  <2>6. Begun(r, s, "bind", j)
    BY <2>1, <2>3, <2>4, <2>5 DEF Begun, SameRows, w
  <2> QED BY <2>6
<1> QED
  BY <1>4, <1>5, <1>6, <1>7, <1>9, <1>10, <1>11, <1>12, <1>13 DEF ServeSite
-----------------------------------------------------------------------------
(* Types, for requests that overlap *)

LEMMA TypesInit == Init => TInv
<1> SUFFICES ASSUME Init PROVE TInv
  OBVIOUS
<1>1. Types
  BY DEF Init, Types
<1>2. \A r \in Req : Holds(r)
  BY DEF Init, Holds, OnSite, OnCert
<1> QED BY <1>1, <1>2 DEF TInv

LEMMA ServeTyped == ASSUME TInv, NEW r \in Req, Serve(r) PROVE TInv'
<1>1. CASE \E s \in Site : ServeSite(r, s)
  <2>0. PICK s \in Site : ServeSite(r, s)
    BY <1>1
  <2>1. PICK l, j : Begun(r, s, l, j)
    BY <2>0, SiteBegins
  <2>2. l \in OnSite
    BY <2>1 DEF Begun, OnSite
  <2>3. rows' \in [Site -> GoodRow \cup {NoRow}] /\ used' \subseteq Site \cup Cert
    <3>1. j.row \in GoodRow
      BY <2>1 DEF Begun, SiteJobs
    <3> QED BY <2>1, <3>1 DEF Begun, TInv, Types
  <2> QED BY <2>1, <2>2, <2>3, BeginTyped DEF Begun
<1>2. ASSUME NEW c \in Cert, NewCert(r, c) PROVE TInv'
  <2> DEFINE j == CertJob("newcert", c, [paths |-> TRUE])
  <2>1. j \in CertJobs /\ [paths |-> FALSE] \in CertRow
    BY DEF CertJob, CertJobs, CertRow
  <2>2. /\ Begin(r, "issue", j) /\ rows' = rows /\ used' = used \cup {c}
        /\ certs' = [certs EXCEPT ![c] = [paths |-> FALSE]]
    BY <1>2 DEF NewCert
  <2> HIDE DEF j
  <2>3. certs' \in [Cert -> CertRow \cup {NoRow}] /\ used' \subseteq Site \cup Cert
    BY <2>1, <2>2 DEF TInv, Types
  <2> QED BY <2>1, <2>2, <2>3, BeginTypedCert DEF OnCert
<1>3. ASSUME NEW op \in {"reissue", "delcert"}, NEW l \in OnCert, NEW c \in Cert,
             certs[c] # NoRow, Begin(r, l, CertJob(op, c, certs[c])), SameRows
      PROVE  TInv'
  <2> DEFINE j == CertJob(op, c, certs[c])
  <2>1. j \in CertJobs
    BY <1>3 DEF CertJob, CertJobs, TInv, Types
  <2> HIDE DEF j
  <2>2. Begin(r, l, j)
    BY <1>3 DEF j
  <2> QED BY <1>3, <2>1, <2>2, BeginTypedCert DEF SameRows, TInv, Types
<1>4. ASSUME NEW c \in Cert, Reissue(r, c) PROVE TInv'
  BY <1>3, <1>4 DEF Reissue, OnCert
<1>5. ASSUME NEW c \in Cert, DeleteCert(r, c) PROVE TInv'
  BY <1>3, <1>5 DEF DeleteCert, OnCert
<1> QED BY <1>1, <1>2, <1>4, <1>5 DEF Serve, ServeSite

(* BindCert completes its copy with the paths of the certificate it reads. *)
LEMMA BindCertRow ==
    ASSUME TInv, NEW r \in Req, BindCert(r)
    PROVE  LET w == job[r].row
               v == [w EXCEPT !.tls = certs[w.cert].paths]
           IN  /\ pc[r] = "bind" /\ job[r] \in SiteJobs /\ job[r].op = "bind"
               /\ w \in GoodRow /\ w.cert \in Cert /\ certs[w.cert] # NoRow
               /\ v \in GoodRow /\ v.enabled = w.enabled /\ v.cert = w.cert
               /\ v.tls = certs[w.cert].paths /\ v.locked = w.locked /\ v.raw = w.raw
               /\ pc' = [pc EXCEPT ![r] = IF v.enabled THEN "call" ELSE "save"]
               /\ job'[r] = [op |-> "bind", site |-> job[r].site, row |-> v, tree |-> Rendered(v)]
               /\ job'[r] \in SiteJobs
               /\ \A q \in Req \ {r} : job'[q] = job[q]
               /\ job' \in [Req -> {NoJob} \cup SiteJobs \cup CertJobs]
               /\ UNCHANGED <<rows, certs, used, files, live, backup, up, left, apart>>
<1> DEFINE w == job[r].row
           v == [w EXCEPT !.tls = certs[w.cert].paths]
<1>1. pc[r] = "bind" /\ job[r] \in SiteJobs /\ job[r].op = "bind" /\ w.cert \in Cert
  BY DEF BindCert, TInv, Holds, OnSite
<1>2. w \in GoodRow /\ certs[w.cert] # NoRow
  BY <1>1 DEF SiteJobs, BindCert
<1>3. certs[w.cert].paths \in BOOLEAN
  BY <1>1, <1>2 DEF TInv, Types, CertRow
<1>4. /\ v \in GoodRow /\ v.enabled = w.enabled /\ v.cert = w.cert
      /\ v.tls = certs[w.cert].paths /\ v.locked = w.locked /\ v.raw = w.raw
  <2>1. \A b \in BOOLEAN : \A u : u = [w EXCEPT !.tls = b] =>
          /\ u \in GoodRow /\ u.enabled = w.enabled /\ u.cert = w.cert /\ u.tls = b
          /\ u.locked = w.locked /\ u.raw = w.raw
    BY <1>1, <1>2, PathedRow, Zenon
  <2> QED BY <2>1, <1>3
<1>5. /\ pc' = [pc EXCEPT ![r] = IF v.enabled THEN "call" ELSE "save"]
      /\ job' = [job EXCEPT ![r].row = v, ![r].tree = Rendered(v)]
      /\ UNCHANGED <<rows, certs, used, files, live, backup, up, left, apart>>
  BY DEF BindCert, disk
<1> HIDE DEF v
<1>6. Rendered(v) \in Tree
  BY <1>4, RowIsRow, RenderedTree
<1>7. job'[r] = [op |-> "bind", site |-> job[r].site, row |-> v, tree |-> Rendered(v)]
  BY <1>1, <1>5 DEF SiteJobs, TInv, Types
<1>8. job'[r] \in SiteJobs
  BY <1>1, <1>4, <1>6, <1>7 DEF SiteJobs
<1>9. /\ \A q \in Req \ {r} : job'[q] = job[q]
      /\ job' \in [Req -> {NoJob} \cup SiteJobs \cup CertJobs]
  BY <1>5, <1>8 DEF TInv, Types
<1> QED BY <1>1, <1>2, <1>4, <1>5, <1>7, <1>8, <1>9 DEF v

(* The tree a call asks for, and the directories after it. *)
LEMMA WantedTree ==
    ASSUME TInv, NEW r \in Req, pc[r] = "call"
    PROVE  job[r] \in SiteJobs /\ Wanted(r) \in Tree \cup {NoTree}
<1>1. job[r] \in SiteJobs
  BY DEF TInv, Holds, OnSite
<1>2. live[job[r].site] \in Tree \cup {NoTree} /\ job[r].tree \in Tree \cup {NoTree}
  BY <1>1 DEF SiteJobs, TInv, Types
<1> QED BY <1>1, <1>2, EditedTree DEF Wanted

LEMMA BackUpTyped ==
    ASSUME TInv, NEW s \in Site, BackUp(s)
    PROVE  backup' \in [Site -> Tree \cup {NoTree}]
BY DEF BackUp, TInv, Types

LEMMA ProceedTyped == ASSUME TInv, NEW r \in Req, Proceed(r) PROVE TInv'
<1>1. CASE BindCert(r)
  <2>1. Types'
    BY <1>1, BindCertRow DEF TInv, Types, OnSite
  <2>2. \A q \in Req : Holds(q)'
    <3>1. pc'[r] \in {"call", "save"} /\ job'[r] \in SiteJobs
      BY <1>1, BindCertRow DEF TInv, Types
    <3>2. \A q \in Req \ {r} : pc'[q] = pc[q] /\ job'[q] = job[q]
      BY <1>1, BindCertRow DEF TInv, Types
    <3> QED BY <3>1, <3>2 DEF TInv, Holds, OnSite, OnCert
  <2> QED BY <2>1, <2>2 DEF TInv
<1>2. CASE BindCertMissing(r)
  BY <1>2, GotoTyped DEF BindCertMissing, disk, TInv, Types
<1>3. CASE CallOk(r)
  <2>1. job[r] \in SiteJobs /\ job[r].site \in Site /\ Wanted(r) \in Tree \cup {NoTree}
    BY <1>3, WantedTree DEF CallOk, SiteJobs
  <2>2. live' \in [Site -> Tree \cup {NoTree}]
    BY <1>3, <2>1 DEF CallOk, TInv, Types
  <2>3. backup' \in [Site -> Tree \cup {NoTree}]
    BY <1>3, <2>1, BackUpTyped DEF CallOk
  <2>4. /\ pc[r] \in OnSite /\ Goto(r, AfterCall(job[r].op)) /\ rows' = rows
        /\ certs' = certs /\ files' = files
    BY <1>3 DEF CallOk, OnSite
  <2>5. AfterCall(job[r].op) \in {"idle"} \cup (OnSite \ {"bind"})
    BY DEF AfterCall, OnSite
  <2> QED BY <2>2, <2>3, <2>4, <2>5, GotoTyped DEF TInv, Types
<1>4. CASE CallFail(r)
  <2>1. job[r].site \in Site
    BY <1>4, WantedTree DEF CallFail, SiteJobs
  <2>2. backup' \in [Site -> Tree \cup {NoTree}]
    BY <1>4, <2>1, BackUpTyped DEF CallFail
  <2>3. \E l \in {"idle"} \cup (OnSite \ {"bind"}) : Goto(r, l)
    BY <1>4 DEF CallFail, OnSite
  <2> QED BY <1>4, <2>2, <2>3, GotoTyped DEF CallFail, OnSite, TInv, Types
<1>5. CASE Save(r) \/ Drop(r)
  <2>1. pc[r] \in OnSite /\ job[r] \in SiteJobs
    BY <1>5 DEF Save, Drop, TInv, Holds, OnSite
  <2>2. rows' \in [Site -> GoodRow \cup {NoRow}]
    BY <1>5, <2>1 DEF Save, Drop, TInv, Types, SiteJobs
  <2> QED BY <1>5, <2>2, GotoTyped DEF Save, Drop, disk, TInv, Types
<1>6. CASE IssueOk(r) \/ IssueFail(r) \/ Discard(r) \/ Record(r)
           \/ DeleteCertTx(r) \/ DeleteCertRefused(r) \/ RemoveFiles(r)
  <2>1. pc[r] \in OnCert
    BY <1>6 DEF IssueOk, IssueFail, Discard, Record, DeleteCertTx, DeleteCertRefused,
                RemoveFiles, OnCert
  <2>2. job[r].cert \in Cert /\ job[r].row \in CertRow
    BY <2>1 DEF TInv, Holds, CertJobs
  <2>3. /\ rows' = rows /\ live' = live /\ backup' = backup
        /\ certs' \in [Cert -> CertRow \cup {NoRow}]
        /\ files' \subseteq Cert
    BY <1>6, <2>2 DEF IssueOk, IssueFail, Discard, Record, DeleteCertTx, DeleteCertRefused,
                RemoveFiles, disk, TInv, Types
  <2>4. \E l \in {"idle"} \cup OnCert : Goto(r, l)
    BY <1>6 DEF IssueOk, IssueFail, Discard, Record, DeleteCertTx, DeleteCertRefused,
                RemoveFiles, OnCert
  <2> QED BY <2>1, <2>3, <2>4, GotoTyped DEF TInv, Types
<1>7. CASE WriteFail(r)
  BY <1>7, GotoTyped DEF WriteFail, disk, TInv, Types
<1> QED BY <1>1, <1>2, <1>3, <1>4, <1>5, <1>6, <1>7 DEF Proceed

(* What is left of a tree is a tree that says a part, or none. *)
LEMMA FragmentTrees ==
    ASSUME NEW t \in Tree \cup {NoTree}, NEW f \in Fragments(t)
    PROVE  /\ f \in Tree \cup {NoTree}
           /\ f = NoTree \/ IsPart(f)
BY NothingAssumption DEF Fragments, IsPart

(* A death inside a call leaves some tree or none. *)
LEMMA CrashLeaves ==
    ASSUME TInv, Crash
    PROVE  /\ live' \in [Site -> Tree \cup {NoTree}]
           /\ backup' \in [Site -> Tree \cup {NoTree}]
<1>1. CASE UNCHANGED <<live, backup>>
  BY <1>1 DEF TInv, Types
<1>2. ASSUME NEW r \in Req, pc[r] = "call", BackUp(job[r].site),
             NEW t \in {Wanted(r)} \cup Fragments(Wanted(r)),
             live' = [live EXCEPT ![job[r].site] = t]
      PROVE  /\ live' \in [Site -> Tree \cup {NoTree}]
             /\ backup' \in [Site -> Tree \cup {NoTree}]
  <2>1. job[r].site \in Site /\ t \in Tree \cup {NoTree}
    BY <1>2, WantedTree, FragmentTrees DEF SiteJobs
  <2>2. live' \in [Site -> Tree \cup {NoTree}]
    BY <1>2, <2>1 DEF TInv, Types
  <2> QED BY <1>2, <2>1, <2>2, BackUpTyped
<1> QED BY <1>1, <1>2 DEF Crash

LEMMA CrashTyped == ASSUME TInv, Crash PROVE TInv'
<1>1. /\ rows' = rows /\ certs' = certs /\ files' = files /\ used' = used /\ up' = FALSE
      /\ left' = Site /\ pc' = [r \in Req |-> "idle"] /\ job' = [r \in Req |-> NoJob]
  BY DEF Crash
<1>2. Types'
  BY <1>1, CrashLeaves DEF TInv, Types
<1>3. \A r \in Req : Holds(r)'
  BY <1>1 DEF Holds, OnSite, OnCert
<1> QED BY <1>2, <1>3 DEF TInv

(* What the boot renders is a tree. *)
LEMMA WrittenTree ==
    ASSUME TInv, NEW s \in Site, Enabled(s)
    PROVE  Written(s) \in Tree
<1> DEFINE w == rows[s]
           v == [w EXCEPT !.tls = w.tls /\ w.cert \in files]
<1>1. w \in Row
  BY RowIsRow DEF Enabled, TInv, Types
<1>2. v \in Row
  BY <1>1 DEF Row
<1> QED BY <1>2, RenderedTree DEF Written

(* A step of the boot changes one tree at most, and nothing but trees. *)
BootStep == BootDies \/ Boot \/ \E s \in Site : Reconcile(s) \/ ReconcileFail(s)

LEMMA BootTyped == ASSUME TInv, BootStep PROVE TInv'
<1>1. /\ UNCHANGED <<rows, certs, files, backup, used, pc, job>>
      /\ up' \in BOOLEAN /\ left' \subseteq Site
  BY DEF BootStep, Boot, BootDies, Reconcile, ReconcileFail, Booting, disk, TInv, Types
<1>2. live' \in [Site -> Tree \cup {NoTree}]
  <2>1. CASE BootDies \/ Boot
    BY <2>1 DEF BootDies, Boot, disk, TInv, Types
  <2>2. ASSUME NEW s \in Site, NEW t \in Tree \cup {NoTree}, live' = [live EXCEPT ![s] = t]
        PROVE  live' \in [Site -> Tree \cup {NoTree}]
    BY <2>2 DEF TInv, Types
  <2>3. ASSUME NEW s \in Site, Reconcile(s) PROVE live' \in [Site -> Tree \cup {NoTree}]
    BY <2>2, <2>3, WrittenTree DEF Reconcile, Missing, TInv, Types
  <2>4. ASSUME NEW s \in Site, ReconcileFail(s) PROVE live' \in [Site -> Tree \cup {NoTree}]
    <3>1. CASE Disabled(s)
      BY <2>2, <2>4, <3>1, FragmentTrees DEF ReconcileFail, TInv, Types
    <3>2. CASE ~Disabled(s)
      BY <2>2, <2>4, <3>2, FragmentTrees, WrittenTree DEF ReconcileFail, Missing
    <3> QED BY <3>1, <3>2
  <2> QED BY <2>1, <2>3, <2>4 DEF BootStep
<1>3. Types'
  BY <1>1, <1>2 DEF TInv, Types
<1>4. \A r \in Req : Holds(r)'
  BY <1>1 DEF TInv, Holds
<1> QED BY <1>3, <1>4 DEF TInv

LEMMA TypesStep == TInv /\ [Next]_vars => TInv'
<1> SUFFICES ASSUME TInv, [Next]_vars PROVE TInv'
  OBVIOUS
<1>1. CASE UNCHANGED vars
  BY <1>1 DEF vars, TInv, Types, Holds
<1>2. CASE Next
  BY <1>2, ServeTyped, ProceedTyped, CrashTyped, BootTyped DEF Next, BootStep
<1> QED BY <1>1, <1>2

LEMMA TypesAlways == Spec => []TInv
BY TypesInit, TypesStep, PTL DEF Spec

(* Rows, trees and backups have their types, and a row names key files only  *)
(* if it names their certificate, whatever overlaps, fails or dies.          *)
THEOREM PanelTypes == Spec => []TypeOK
<1>1. TInv => TypeOK
  BY DEF TInv, Types, TypeOK, GoodRow
<1> QED BY <1>1, TypesAlways, PTL

-----------------------------------------------------------------------------
(* Requests that are apart: the copy of each stays true to its row *)

(* Any number of requests may be under way, each about another site. *)
SitesApart == \A p, q \in Req :
    p # q /\ pc[p] \in OnSite /\ pc[q] \in OnSite => job[p].site # job[q].site

(* Ids are given out before rows exist, and while a request is on its way    *)
(* the row it has loaded is there, unlocked unless it is about the lock, and *)
(* differs from the copy by what was asked for; of the certificate, only if  *)
(* that is what was asked for.                                               *)
Loaded == /\ \A s \in Site : rows[s] # NoRow => s \in used
          /\ \A r \in Req : pc[r] \in OnSite =>
               /\ Copied(job[r], rows[job[r].site])
               /\ job[r].op = "lock" => pc[r] = "save"
               /\ job[r].op # "bind" => Keeps(job[r], rows[job[r].site])

(* What the steps of a request on a certificate leave alone. *)
CertStep(r) ==
    \/ \E c \in Cert : ServeCert(r, c)
    \/ IssueOk(r) \/ IssueFail(r) \/ Discard(r) \/ Record(r)
    \/ DeleteCertTx(r) \/ DeleteCertRefused(r) \/ RemoveFiles(r)

LEMMA CertStepLeaves ==
    ASSUME TInv, NEW r \in Req, CertStep(r)
    PROVE  /\ rows' = rows /\ live' = live /\ up' = up /\ apart' = apart
           /\ used \subseteq used'
           /\ pc[r] \in {"idle"} \cup OnCert
           /\ pc'[r] \in {"idle"} \cup OnCert
<1>1. CASE \E c \in Cert : ServeCert(r, c)
  BY <1>1 DEF ServeCert, NewCert, Reissue, DeleteCert, Begin, SameRows, disk, TInv, Types, OnCert
<1>2. CASE IssueOk(r) \/ IssueFail(r) \/ Discard(r) \/ Record(r)
           \/ DeleteCertTx(r) \/ DeleteCertRefused(r) \/ RemoveFiles(r)
  BY <1>2 DEF IssueOk, IssueFail, Discard, Record, DeleteCertTx, DeleteCertRefused,
              RemoveFiles, Goto, disk, TInv, Types, OnCert
<1> QED BY <1>1, <1>2 DEF CertStep

(* The steps of a request, by what they are about. *)
LEMMA Steps ==
    ASSUME NEW r \in Req, Serve(r) \/ Proceed(r)
    PROVE  \/ \E s \in Site : ServeSite(r, s)
           \/ BindCert(r) \/ BindCertMissing(r)
           \/ CallOk(r) \/ CallFail(r) \/ Save(r) \/ Drop(r) \/ WriteFail(r)
           \/ CertStep(r)
BY DEF Serve, Proceed, ServeSite, ServeCert, CertStep

(* A step of one request leaves the others where they are. *)
LEMMA Others ==
    ASSUME TInv, NEW r \in Req, Serve(r) \/ Proceed(r), NEW q \in Req, q # r
    PROVE  pc'[q] = pc[q] /\ job'[q] = job[q]
<1>1. CASE \E l, j : Begin(r, l, j)
  BY <1>1 DEF Begin, TInv, Types
<1>2. CASE \E l : Goto(r, l)
  BY <1>2 DEF Goto, TInv, Types
<1>3. CASE BindCert(r)
  BY <1>3 DEF BindCert, TInv, Types
<1>4. CASE Serve(r)
  <2>1. \E l, j : Begin(r, l, j)
    BY <1>4 DEF Serve, Create, Update, Toggle, Delete, SaveFile, Restore, SetLocked, Unbind,
                Bind, ApplyOrSave, NewCert, Reissue, DeleteCert
  <2> QED BY <1>1, <2>1
<1>5. CASE Proceed(r)
  <2>1. BindCert(r) \/ \E l : Goto(r, l)
    BY <1>5 DEF Proceed, BindCertMissing, CallOk, CallFail, Save, Drop, IssueOk, IssueFail,
                Discard, Record, DeleteCertTx, DeleteCertRefused, RemoveFiles, WriteFail
  <2> QED BY <1>2, <1>3, <2>1
<1> QED BY <1>4, <1>5

(* The moves from step to step. *)
LEMMA Moves ==
    ASSUME TInv, NEW r \in Req, NEW l, Goto(r, l)
    PROVE  /\ pc'[r] = l /\ used' = used /\ up' = up
           /\ l # "idle" => job'[r] = job[r]
           /\ job[r].site \in Site /\ l # "idle" => job'[r].site = job[r].site
BY DEF Goto, TInv, Types

(* A step about site s: the copies of the others are of other sites. *)
LEMMA LoadedKept ==
    ASSUME TInv, Loaded, SitesApart, SitesApart', NEW r \in Req, Serve(r) \/ Proceed(r),
           NEW s \in Site, pc[r] \in OnSite \/ pc'[r] \in OnSite,
           pc[r] \in OnSite => job[r].site = s,
           \A q \in Site \ {s} : rows'[q] = rows[q],
           used \subseteq used', rows'[s] # NoRow => s \in used',
           pc'[r] \in OnSite => /\ job'[r].site = s /\ Copied(job'[r], rows'[s])
                                /\ job'[r].op = "lock" => pc'[r] = "save"
                                /\ job'[r].op # "bind" => Keeps(job'[r], rows'[s])
    PROVE  Loaded'
<1>1. \A q \in Site : rows'[q] # NoRow => q \in used'
  BY DEF Loaded
<1>2. ASSUME NEW q \in Req, q # r, pc'[q] \in OnSite
      PROVE  /\ Copied(job'[q], rows'[job'[q].site])
             /\ job'[q].op = "lock" => pc'[q] = "save"
             /\ job'[q].op # "bind" => Keeps(job'[q], rows'[job'[q].site])
  <2>1. pc'[q] = pc[q] /\ job'[q] = job[q]
    BY <1>2, Others
  <2>2. job[q].site # s
    BY <1>2, <2>1 DEF SitesApart
  <2>3. job[q].site \in Site
    BY <1>2, <2>1 DEF TInv, Holds, SiteJobs
  <2>4. rows'[job[q].site] = rows[job[q].site]
    BY <2>2, <2>3
  <2> QED BY <1>2, <2>1, <2>4 DEF Loaded
<1> QED BY <1>1, <1>2 DEF Loaded

(* The copy stays true to its row, from step to step. *)
LEMMA LoadedStep ==
    ASSUME SitesApart, SitesApart', TInv, Loaded, NEW r \in Req, Serve(r) \/ Proceed(r)
    PROVE  Loaded'
<1>1. ASSUME NEW s \in Site, ServeSite(r, s) PROVE Loaded'
  <2>1. PICK l, j : Begun(r, s, l, j)
    BY <1>1, SiteBegins
  <2>2. job'[r] = j /\ j.site = s /\ Copied(j, rows'[s]) /\ pc[r] = "idle"
    BY <2>1 DEF Begun, Begin, TInv, Types
  <2>3. pc'[r] = l /\ l \in OnSite /\ (j.op = "lock" => l = "save")
    BY <2>1 DEF Begun, Begin, Asks, OnSite, TInv, Types
  <2>4. /\ \A q \in Site \ {s} : rows'[q] = rows[q]
        /\ used \subseteq used' /\ (rows'[s] # NoRow => s \in used')
    BY <2>1 DEF Begun, Loaded, TInv, Types
  <2>5. j.op # "bind" => Keeps(j, rows'[s])
    BY <2>1 DEF Begun
  <2> QED BY <2>2, <2>3, <2>4, <2>5, LoadedKept DEF OnSite
<1>2. CASE BindCert(r)
  <2> DEFINE v == [job[r].row EXCEPT !.tls = certs[job[r].row.cert].paths]
  <2>1. /\ rows' = rows /\ used' = used /\ pc[r] \in OnSite /\ job[r].op = "bind"
        /\ job'[r] = [op |-> "bind", site |-> job[r].site, row |-> v, tree |-> Rendered(v)]
        /\ v.enabled = job[r].row.enabled /\ job[r].site \in Site
    BY <1>2, BindCertRow DEF OnSite, SiteJobs
  <2> HIDE DEF v
  <2>2. /\ job'[r].site = job[r].site /\ job'[r].op = "bind"
        /\ job'[r].row.enabled = job[r].row.enabled
    BY <2>1
  <2>3. Copied(job[r], rows[job[r].site])
    BY <2>1 DEF Loaded
  <2>4. Copied(job'[r], rows[job[r].site])
    BY <2>2, <2>3, <2>1 DEF Copied, Edits
  <2> QED BY <2>1, <2>2, <2>4, LoadedKept DEF Loaded
<1>3. CASE (BindCertMissing(r) \/ CallOk(r) \/ CallFail(r) \/ WriteFail(r)) /\ pc[r] \in OnSite
  <2>1. PICK l : Goto(r, l) /\ rows' = rows /\ (l \in OnSite => pc[r] = "call")
    BY <1>3 DEF BindCertMissing, CallOk, CallFail, WriteFail, OnSite
  <2>2. pc'[r] = l /\ used' = used /\ (l \in OnSite => job'[r] = job[r])
    BY <2>1, Moves DEF OnSite
  <2>3. job[r].site \in Site
    BY <1>3 DEF TInv, Holds, SiteJobs
  <2>4. pc'[r] \in OnSite => /\ Copied(job'[r], rows'[job[r].site])
                             /\ job'[r].op # "lock"
                             /\ job'[r].op # "bind" => Keeps(job'[r], rows'[job[r].site])
    BY <1>3, <2>1, <2>2 DEF Loaded
  <2> QED BY <1>3, <2>1, <2>2, <2>3, <2>4, LoadedKept DEF Loaded
<1>4. CASE Save(r) \/ Drop(r)
  <2>1. Goto(r, "idle") /\ pc[r] \in OnSite
    BY <1>4 DEF Save, Drop, OnSite
  <2>2. pc'[r] = "idle" /\ used' = used
    BY <2>1, Moves
  <2>3. job[r].site \in used /\ job[r].site \in Site
    BY <2>1 DEF Loaded, Copied, TInv, Holds, SiteJobs
  <2>4. \A q \in Site \ {job[r].site} : rows'[q] = rows[q]
    BY <1>4 DEF Save, Drop, TInv, Types
  <2>5. pc'[r] \notin OnSite
    BY <2>2 DEF OnSite
  <2> QED BY <2>1, <2>2, <2>3, <2>4, <2>5, LoadedKept
<1>5. CASE CertStep(r) \/ (WriteFail(r) /\ pc[r] \notin OnSite)
  <2>1. rows' = rows /\ used \subseteq used' /\ pc'[r] \notin OnSite
    <3>1. CASE CertStep(r)
      BY <3>1, CertStepLeaves DEF OnSite, OnCert
    <3>2. CASE WriteFail(r)
      <4>1. Goto(r, "idle") /\ rows' = rows
        BY <3>2 DEF WriteFail
      <4> QED BY <4>1, Moves DEF OnSite
    <3> QED BY <1>5, <3>1, <3>2
  <2> QED BY <2>1, Others DEF Loaded
<1>6. BindCertMissing(r) \/ CallOk(r) \/ CallFail(r) => pc[r] \in OnSite
  BY DEF BindCertMissing, CallOk, CallFail, OnSite
<1> QED BY <1>1, <1>2, <1>3, <1>4, <1>5, <1>6, Steps

(* Init, and each step, deaths and boots included. *)
LEMMA LoadedAlways == Spec /\ []SitesApart => []Loaded
<1>1. Init => Loaded
  BY DEF Init, Loaded, OnSite
<1>2. TInv /\ Loaded /\ SitesApart /\ SitesApart' /\ [Next]_vars => Loaded'
  <2> SUFFICES ASSUME TInv, Loaded, SitesApart, SitesApart', [Next]_vars PROVE Loaded'
    OBVIOUS
  <2>1. CASE UNCHANGED vars
    BY <2>1 DEF vars, Loaded
  <2>2. CASE Crash
    BY <2>2 DEF Crash, Loaded, OnSite
  <2>3. CASE BootStep
    <3>1. UNCHANGED <<rows, certs, used, pc, job>>
      BY <2>3 DEF BootStep, Boot, BootDies, Reconcile, ReconcileFail, Booting
    <3> QED BY <3>1 DEF Loaded
  <2> QED BY <2>1, <2>2, <2>3, LoadedStep DEF Next, BootStep
<1> QED BY <1>1, <1>2, TypesAlways, PTL DEF Spec

-----------------------------------------------------------------------------
(* Locked sites *)

(* A step on a site is on one that is not locked, or on its lock alone. *)
Frozen(s) ==
    up /\ rows[s] # NoRow /\ rows[s].locked =>
        /\ rows'[s] # NoRow
        /\ rows'[s] = [rows[s] EXCEPT !.locked = rows'[s].locked]
        /\ live'[s] = live[s]

LEMMA SameRowFrozen ==
    ASSUME TInv, NEW s \in Site, rows'[s] = rows[s], live'[s] = live[s]
    PROVE  Frozen(s)
<1>1. rows[s] # NoRow => rows[s] = [rows[s] EXCEPT !.locked = rows[s].locked]
  BY DEF TInv, Types, GoodRow, Row
<1> QED BY <1>1 DEF Frozen

LEMMA FrozenStep ==
    ASSUME TInv, Loaded, NEW r \in Req, Serve(r) \/ Proceed(r), NEW s \in Site
    PROVE  Frozen(s)
<1>1. ASSUME NEW q \in Site, ServeSite(r, q) PROVE Frozen(s)
  <2>1. PICK l, j : Begun(r, q, l, j)
    BY <1>1, SiteBegins
  <2>2. live' = live
    BY <2>1 DEF Begun, Begin, disk
  <2>3. rows'[s] = rows[s] \/ rows[s] = NoRow
    BY <2>1 DEF Begun, Loaded, TInv, Types
  <2> QED BY <2>2, <2>3, SameRowFrozen DEF Frozen
<1>2. CASE BindCert(r) \/ BindCertMissing(r) \/ CallFail(r) \/ WriteFail(r)
  <2>1. rows' = rows /\ live' = live
    BY <1>2 DEF BindCert, BindCertMissing, CallFail, WriteFail, disk
  <2> QED BY <2>1, SameRowFrozen
<1>3. CASE CallOk(r) \/ Drop(r)
  <2>1. Copied(job[r], rows[job[r].site]) /\ job[r].site \in Site
    BY <1>3 DEF CallOk, Drop, Loaded, OnSite, TInv, Holds, SiteJobs
  <2>2. job[r].op # "lock"
    BY <1>3 DEF CallOk, Drop, Loaded, OnSite
  <2>3. s = job[r].site => ~rows[s].locked
    BY <2>1, <2>2 DEF Copied
  <2>4. s # job[r].site => rows'[s] = rows[s] /\ live'[s] = live[s]
    BY <1>3 DEF CallOk, Drop, disk, TInv, Types
  <2> QED BY <2>3, <2>4, SameRowFrozen DEF Frozen
<1>4. CASE Save(r)
  <2>1. Copied(job[r], rows[job[r].site]) /\ job[r].site \in Site /\ job[r].row \in GoodRow
    BY <1>4 DEF Save, Loaded, OnSite, TInv, Holds, SiteJobs
  <2>2. live' = live /\ rows' = [rows EXCEPT ![job[r].site] = job[r].row]
    BY <1>4 DEF Save, disk
  <2>3. CASE s # job[r].site
    BY <2>2, <2>3, SameRowFrozen DEF TInv, Types
  <2>4. CASE s = job[r].site /\ rows[s].locked
    <3>1. rows[s] # NoRow /\ rows[s] \in Row /\ job[r].row = [rows[s] EXCEPT !.locked = ~@]
      BY <2>1, <2>4 DEF Copied, TInv, Types, GoodRow
    <3>2. rows'[s] = [rows[s] EXCEPT !.locked = ~@] /\ rows'[s] # NoRow
      BY <2>1, <2>2, <2>4, <3>1, RowIsRow DEF TInv, Types
    <3>3. rows'[s] = [rows[s] EXCEPT !.locked = rows'[s].locked]
      BY <3>1, <3>2 DEF Row
    <3> QED BY <2>2, <3>2, <3>3 DEF Frozen
  <2> QED BY <2>3, <2>4 DEF Frozen
<1>5. CASE CertStep(r)
  BY <1>5, CertStepLeaves, SameRowFrozen
<1> QED BY <1>1, <1>2, <1>3, <1>4, <1>5, Steps

(* "A locked site is frozen for everyone": while no two requests are about   *)
(* one site, nothing but SetSiteLocked changes the row or the tree of a      *)
(* locked one.                                                               *)
THEOREM LockedStays == Spec /\ []SitesApart => LockedIsFrozen
<1>1. TInv /\ Loaded /\ [Next]_vars => [\A s \in Site : Frozen(s)]_vars
  <2> SUFFICES ASSUME TInv, Loaded, Next, NEW s \in Site PROVE Frozen(s)
    OBVIOUS
  <2>1. CASE up /\ Crash
    <3>1. rows' = rows
      BY <2>1 DEF Crash
    <3>2. live'[s] = live[s] \/ (Loaded /\ ~rows[s].locked)
      <4>1. ASSUME NEW r \in Req, pc[r] = "call", NEW t, live' = [live EXCEPT ![job[r].site] = t]
            PROVE  live'[s] = live[s] \/ ~rows[s].locked
        <5>1. job[r].site \in Site /\ ~rows[job[r].site].locked
          BY <4>1 DEF Loaded, Copied, OnSite, TInv, Holds, SiteJobs
        <5> QED BY <4>1, <5>1 DEF TInv, Types
      <4> QED BY <2>1, <4>1 DEF Crash
    <3> QED BY <3>1, <3>2, SameRowFrozen DEF Frozen
  <2>2. CASE ~up
    BY <2>2 DEF Frozen
  <2>3. BootStep => ~up
    BY DEF BootStep, Boot, BootDies, Reconcile, ReconcileFail, Booting
  <2> QED BY <2>1, <2>2, <2>3, FrozenStep DEF Next, BootStep
<1>2. Spec /\ []SitesApart => [][\A s \in Site : Frozen(s)]_vars
  BY <1>1, TypesAlways, LoadedAlways, PTL DEF Spec
<1> QED BY <1>2 DEF LockedIsFrozen, Frozen

-----------------------------------------------------------------------------
(* Certificates of rows, and their files *)

(* A request that names certificate c: it works on it, or binds a site to it. *)
Names(r, c) == \/ pc[r] \in OnCert /\ job[r].cert = c
               \/ pc[r] \in OnSite /\ job[r].op = "bind" /\ job[r].row.cert = c

(* While a request creates or deletes a certificate, which may take its row  *)
(* away, no other names it.  Re-issuances may overlap with anything else.    *)
CertsApart == \A p, q \in Req :
    p # q /\ pc[q] \in OnCert /\ job[q].op # "reissue" => ~Names(p, job[q].cert)

(* The certificate w names exists, and so do the files if it names them. *)
Backed(w) == w.cert # NoCert => certs[w.cert] # NoRow /\ (w.tls => w.cert \in files)

(* What a request on a certificate may rely on, step by step. *)
Dealing(r) ==
    LET c == job[r].cert IN
    /\ c \in used
    /\ pc[r] = "discard" => job[r].op = "newcert"
    /\ pc[r] \in {"deltx", "rmfiles"} => job[r].op = "delcert"
    /\ pc[r] \in {"discard", "rmfiles"} => ~InUse(c)
    /\ pc[r] = "issue" /\ job[r].op = "newcert" => ~InUse(c)
    /\ pc[r] = "issue" /\ job[r].op # "newcert" => (job[r].row.paths => c \in files)
    /\ pc[r] = "record" => (job[r].row.paths => c \in files)
    /\ pc[r] = "rmfiles" => certs[c] = NoRow

Linked ==
    /\ \A c \in Cert : certs[c] # NoRow => c \in used /\ (certs[c].paths => c \in files)
    /\ \A s \in Site : rows[s] # NoRow => Backed(rows[s])
    /\ \A r \in Req : pc[r] \in {"call", "save"} => Backed(job[r].row)
    /\ \A r \in Req : pc[r] \in OnCert => Dealing(r)

(* A certificate that a copy to be saved names is named by its row, or the   *)
(* copy is to bind it.                                                       *)
LEMMA CopyNames ==
    ASSUME TInv, Loaded, NEW r \in Req, pc[r] \in OnSite, job[r].row.cert # NoCert
    PROVE  InUse(job[r].row.cert) \/ Names(r, job[r].row.cert)
<1>1. job[r].site \in Site
  BY DEF TInv, Holds, SiteJobs
<1>2. CASE job[r].op = "bind"
  BY <1>2 DEF Names
<1>3. CASE job[r].op # "bind"
  BY <1>1, <1>3 DEF Loaded, Keeps, Copied, InUse
<1> QED BY <1>2, <1>3

(* What certificate steps rely on while a site changes its row. *)
LEMMA DealingKept ==
    ASSUME TInv, Linked, NEW q \in Req, pc[q] \in OnCert,
           pc'[q] = pc[q], job'[q] = job[q], certs' = certs, files' = files,
           used \subseteq used',
           \A c : c = job[q].cert /\ InUse(c)' => InUse(c) \/ job[q].op = "reissue"
    PROVE  Dealing(q)'
<1>1. Dealing(q)
  BY DEF Linked
<1>2. CASE job[q].op = "reissue"
  BY <1>1, <1>2 DEF Dealing
<1>3. CASE job[q].op # "reissue"
  BY <1>1, <1>3 DEF Dealing
<1> QED BY <1>2, <1>3

(* A step on a site: it names the certificate it named, or one that is bound.*)
LEMMA LinkedSiteKept ==
    ASSUME TInv, Linked, NEW r \in Req, Serve(r) \/ Proceed(r),
           certs' = certs, files' = files, used \subseteq used',
           pc'[r] \notin OnCert,
           \A s \in Site : rows'[s] # NoRow => Backed(rows'[s]),
           pc'[r] \in {"call", "save"} => Backed(job'[r].row),
           \A q \in Req \ {r} : pc[q] \in OnCert /\ job[q].op # "reissue" =>
               \A c : c = job[q].cert /\ InUse(c)' => InUse(c)
    PROVE  Linked'
<1>1. \A w : (w.cert # NoCert => certs'[w.cert] # NoRow /\ (w.tls => w.cert \in files')) <=> Backed(w)
  BY DEF Backed
<1>2. \A s \in Site : (rows[s] # NoRow => Backed(rows[s]))'
  BY <1>1 DEF Backed
<1>3. ASSUME NEW q \in Req, pc'[q] \in {"call", "save"} PROVE Backed(job[q].row)'
  <2>1. Backed(job'[q].row)
    BY <1>3, Others DEF Linked
  <2> QED BY <1>1, <2>1 DEF Backed
<1>4. ASSUME NEW q \in Req, pc'[q] \in OnCert PROVE Dealing(q)'
  <2>1. q # r /\ pc'[q] = pc[q] /\ job'[q] = job[q]
    BY <1>4, Others
  <2> QED BY <1>4, <2>1, DealingKept
<1>5. \A c \in Cert : certs'[c] # NoRow => c \in used' /\ (certs'[c].paths => c \in files')
  BY DEF Linked
<1> QED BY <1>2, <1>3, <1>4, <1>5 DEF Linked

(* A row changes its certificate to one that exists and stays. *)
LEMMA LinkedSiteStep ==
    ASSUME SitesApart, CertsApart, TInv, Loaded, Linked, NEW r \in Req, Serve(r) \/ Proceed(r),
           \/ \E s \in Site : ServeSite(r, s)
           \/ BindCert(r) \/ CallOk(r) \/ CallFail(r) \/ Save(r) \/ Drop(r)
           \/ WriteFail(r) \/ BindCertMissing(r)
    PROVE  Linked'
<1>1. ASSUME NEW s \in Site, ServeSite(r, s) PROVE Linked'
  <2>1. PICK l, j : Begun(r, s, l, j)
    BY <1>1, SiteBegins
  <2>2. /\ certs' = certs /\ files' = files /\ pc'[r] = l /\ job'[r] = j
        /\ l \in {"bind", "call", "save"} /\ used \subseteq used'
    BY <2>1 DEF Begun, Begin, disk, TInv, Types
  <2>3. \A q \in Site : rows'[q] # NoRow => Backed(rows'[q])
    BY <2>1 DEF Begun, Linked, Backed, TInv, Types
  <2>4. l # "bind" => Backed(j.row)
    <3>1. rows'[s] # NoRow /\ (l # "bind" => Keeps(j, rows'[s]))
      BY <2>1 DEF Begun, Copied
    <3> QED BY <3>1, <2>3 DEF Keeps, Backed
  <2>5. ASSUME NEW c \in Cert, InUse(c)' PROVE InUse(c)
    <3>1. \A q \in Site : rows'[q] = rows[q] \/ rows'[q].cert = NoCert
      BY <2>1 DEF Begun, TInv, Types
    <3> QED BY <2>5, <3>1, PanelAssumption DEF InUse
  <2>6. \A q \in Req : pc[q] \in OnCert => job[q].cert \in Cert
    BY DEF TInv, Holds, CertJobs
  <2> QED BY <2>2, <2>3, <2>4, <2>5, <2>6, LinkedSiteKept DEF OnCert
<1>2. CASE BindCert(r)
  <2> DEFINE v == [job[r].row EXCEPT !.tls = certs[job[r].row.cert].paths]
  <2>1. /\ job[r].row.cert \in Cert /\ certs[job[r].row.cert] # NoRow
        /\ v.cert = job[r].row.cert /\ v.tls = certs[job[r].row.cert].paths
        /\ pc'[r] \in {"call", "save"}
        /\ job'[r] = [op |-> "bind", site |-> job[r].site, row |-> v, tree |-> Rendered(v)]
        /\ UNCHANGED <<rows, certs, used, files>>
    BY <1>2, BindCertRow DEF TInv, Types
  <2> HIDE DEF v
  <2>2. Backed(v) /\ job'[r].row = v
    BY <2>1 DEF Backed, Linked
  <2>3. \A q \in Site : rows'[q] # NoRow => Backed(rows'[q])
    BY <2>1 DEF Linked
  <2>4. \A c : InUse(c)' => InUse(c)
    BY <2>1 DEF InUse
  <2> QED BY <2>1, <2>2, <2>3, <2>4, LinkedSiteKept DEF OnCert
<1>3. CASE CallOk(r) \/ CallFail(r) \/ WriteFail(r) \/ BindCertMissing(r)
  <2>1. PICK l : /\ Goto(r, l) /\ UNCHANGED <<rows, certs, files>>
                 /\ l \in {"idle", "save", "drop"} /\ (l = "save" => pc[r] = "call")
    BY <1>3 DEF CallOk, CallFail, WriteFail, BindCertMissing, AfterCall, disk
  <2>2. pc'[r] = l /\ used' = used /\ (l = "save" => job'[r] = job[r])
    BY <2>1, Moves
  <2>3. \A q \in Site : rows'[q] # NoRow => Backed(rows'[q])
    BY <2>1 DEF Linked
  <2>4. pc'[r] \in {"call", "save"} => Backed(job'[r].row)
    BY <2>1, <2>2 DEF Linked
  <2>5. \A c : InUse(c)' => InUse(c)
    BY <2>1 DEF InUse
  <2> QED BY <2>1, <2>2, <2>3, <2>4, <2>5, LinkedSiteKept DEF OnCert
<1>4. CASE Save(r) \/ Drop(r)
  <2>1. Goto(r, "idle") /\ UNCHANGED <<certs, files>> /\ pc[r] \in OnSite
    BY <1>4 DEF Save, Drop, disk, OnSite
  <2>2. pc'[r] = "idle" /\ used' = used
    BY <2>1, Moves
  <2>3. \A q \in Site : rows'[q] # NoRow => Backed(rows'[q])
    BY <1>4 DEF Save, Drop, Linked, TInv, Types
  <2>4. ASSUME NEW q \in Req \ {r}, pc[q] \in OnCert, job[q].op # "reissue",
               NEW c, c = job[q].cert, InUse(c)'
        PROVE  InUse(c)
    <3>1. c \in Cert
      BY <2>4 DEF TInv, Holds, CertJobs
    <3>2. ~Names(r, c)
      BY <2>4 DEF CertsApart
    <3>3. PICK s \in Site : rows'[s] # NoRow /\ rows'[s].cert = c
      BY <2>4 DEF InUse
    <3>4. CASE rows'[s] = rows[s]
      BY <3>3, <3>4 DEF InUse
    <3>5. CASE rows'[s] # rows[s]
      <4>1. rows'[s] = job[r].row
        BY <1>4, <3>3, <3>5 DEF Save, Drop, TInv, Types
      <4>2. job[r].row.cert = c /\ job[r].row.cert # NoCert
        BY <3>1, <3>3, <4>1, PanelAssumption
      <4> QED BY <2>1, <3>2, <4>2, CopyNames
    <3> QED BY <3>4, <3>5
  <2> QED BY <2>1, <2>2, <2>3, <2>4, LinkedSiteKept DEF OnCert
<1> QED BY <1>1, <1>2, <1>3, <1>4

(* A certificate is named by no row but as Linked says: so one that no row   *)
(* names may go, with its files.                                             *)
LEMMA LinkedCertStep ==
    ASSUME CertsApart, TInv, Loaded, Linked, NEW r \in Req, Serve(r) \/ Proceed(r), CertStep(r)
    PROVE  Linked'
<1>1. rows' = rows /\ pc'[r] \in {"idle"} \cup OnCert
  BY CertStepLeaves
<1>2. ASSUME NEW c \in Cert,
             \A d \in Cert \ {c} : certs'[d] = certs[d] /\ (d \in files <=> d \in files'),
             used \subseteq used',
             certs'[c] # NoRow => c \in used' /\ (certs'[c].paths => c \in files'),
             \/ (certs[c] # NoRow => certs'[c] # NoRow) /\ (c \in files => c \in files')
             \/ ~InUse(c) /\ \A q \in Req \ {r} : ~Names(q, c),
             \A q \in Req \ {r} : pc[q] \in OnCert /\ job[q].cert = c =>
                 /\ c \in files => c \in files'
                 /\ pc[q] = "rmfiles" => certs'[c] = certs[c],
             pc'[r] = "idle" \/ Dealing(r)'
      PROVE  Linked'
  <2>1. \A d \in Cert : certs'[d] # NoRow => d \in used' /\ (certs'[d].paths => d \in files')
    BY <1>2 DEF Linked
  <2>2. ASSUME NEW w \in GoodRow, Backed(w),
               w.cert = c => InUse(c) \/ \E q \in Req \ {r} : Names(q, c)
        PROVE  Backed(w)'
    <3>1. (Backed(w))' <=> (w.cert # NoCert =>
              certs'[w.cert] # NoRow /\ (w.tls => w.cert \in files'))
      BY DEF Backed
    <3>2. w.cert \in Cert \cup {NoCert}
      BY DEF GoodRow, Row, MaybeCert
    <3>3. CASE w.cert # c
      BY <1>2, <2>2, <3>1, <3>2, <3>3 DEF Backed
    <3>4. CASE w.cert = c
      <4>1. (certs[c] # NoRow => certs'[c] # NoRow) /\ (c \in files => c \in files')
        BY <1>2, <2>2, <3>4
      <4> QED BY <2>2, <3>1, <3>4, <4>1 DEF Backed
    <3> QED BY <3>3, <3>4
  <2>3. ASSUME NEW s \in Site, rows'[s] # NoRow PROVE Backed(rows[s])'
    <3>1. /\ rows'[s] = rows[s] /\ Backed(rows[s]) /\ rows[s] \in GoodRow
          /\ rows[s].cert = c => InUse(c)
      BY <1>1, <2>3 DEF Linked, InUse, TInv, Types
    <3>2. \A w \in GoodRow : Backed(w) /\ (w.cert = c => InUse(c) \/ \E q \in Req \ {r} : Names(q, c))
             => (w.cert # NoCert => certs'[w.cert] # NoRow /\ (w.tls => w.cert \in files'))
      BY <2>2 DEF Backed
    <3> QED BY <3>1, <3>2 DEF Backed
  <2>4. ASSUME NEW q \in Req, pc'[q] \in {"call", "save"} PROVE Backed(job[q].row)'
    <3>1. q # r /\ pc'[q] = pc[q] /\ job'[q] = job[q]
      BY <1>1, <2>4, Others DEF OnCert
    <3>2. pc[q] \in OnSite /\ job[q].row \in GoodRow /\ Backed(job[q].row)
      BY <2>4, <3>1 DEF Linked, OnSite, TInv, Holds, SiteJobs
    <3>3. job[q].row.cert = c => InUse(c) \/ Names(q, c)
      BY <3>2, CopyNames, PanelAssumption
    <3>4. \A w \in GoodRow : Backed(w) /\ (w.cert = c => InUse(c) \/ \E p \in Req \ {r} : Names(p, c))
             => (w.cert # NoCert => certs'[w.cert] # NoRow /\ (w.tls => w.cert \in files'))
      BY <2>2 DEF Backed
    <3> QED BY <3>1, <3>2, <3>3, <3>4 DEF Backed
  <2>5. ASSUME NEW q \in Req, pc'[q] \in OnCert PROVE Dealing(q)'
    <3>1. CASE q = r
      BY <1>2, <2>5, <3>1 DEF OnCert
    <3>2. CASE q # r
      <4>1. pc'[q] = pc[q] /\ job'[q] = job[q]
        BY <3>2, Others
      <4>2. Dealing(q) /\ job[q].cert \in Cert
        BY <2>5, <4>1 DEF Linked, TInv, Holds, CertJobs
      <4>3. InUse(job[q].cert)' <=> InUse(job[q].cert)
        BY <1>1, <4>1 DEF InUse
      <4>4. /\ job[q].cert \in files => job[q].cert \in files'
            /\ pc[q] = "rmfiles" => certs'[job[q].cert] = certs[job[q].cert]
        BY <1>2, <2>5, <3>2, <4>1, <4>2
      <4> QED BY <1>2, <4>1, <4>2, <4>3, <4>4 DEF Dealing
    <3> QED BY <3>1, <3>2
  <2>6. \A s \in Site : (rows[s] # NoRow => Backed(rows[s]))'
    BY <2>3
  <2> QED BY <2>1, <2>4, <2>5, <2>6 DEF Linked
<1>3. ASSUME NEW c \in Cert, NewCert(r, c) PROVE Linked'
  <2>1. /\ c \notin used /\ used' = used \cup {c} /\ files' = files
        /\ certs' = [certs EXCEPT ![c] = [paths |-> FALSE]]
        /\ pc'[r] = "issue" /\ job'[r] = CertJob("newcert", c, [paths |-> TRUE])
    BY <1>3 DEF NewCert, Begin, disk, TInv, Types
  <2>2. certs[c] = NoRow
    BY <2>1 DEF Linked
  <2>3. ~InUse(c)
    BY <2>2, PanelAssumption DEF InUse, Linked, Backed
  <2>4. job'[r].cert = c /\ job'[r].op = "newcert"
    BY <2>1 DEF CertJob
  <2>5. Dealing(r)'
    BY <1>1, <2>1, <2>3, <2>4 DEF Dealing, InUse
  <2>6. certs'[c].paths = FALSE
    BY <2>1 DEF TInv, Types
  <2>7. \A d \in Cert \ {c} : certs'[d] = certs[d]
    BY <2>1 DEF TInv, Types
  <2>8. \A q \in Req : pc[q] \in OnCert => job[q].cert # c
    BY <2>1 DEF Linked, Dealing
  <2> QED BY <1>2, <2>1, <2>2, <2>5, <2>6, <2>7, <2>8
<1>4. ASSUME NEW op \in {"reissue", "delcert"}, NEW l \in {"issue", "deltx"}, NEW c \in Cert,
             certs[c] # NoRow, Begin(r, l, CertJob(op, c, certs[c])), SameRows,
             l = "deltx" => op = "delcert"
      PROVE  Linked'
  <2>1. /\ used' = used /\ files' = files /\ certs' = certs /\ pc'[r] = l
        /\ job'[r] = CertJob(op, c, certs[c])
    BY <1>4 DEF Begin, disk, SameRows, TInv, Types
  <2>2. job'[r].cert = c /\ job'[r].op = op /\ job'[r].row = certs[c]
    BY <2>1 DEF CertJob
  <2>3. Dealing(r)'
    BY <1>4, <2>1, <2>2 DEF Dealing, Linked
  <2> QED BY <1>2, <1>4, <2>1, <2>3 DEF Linked
<1>5. CASE \E c \in Cert : Reissue(r, c) \/ DeleteCert(r, c)
  BY <1>4, <1>5 DEF Reissue, DeleteCert
<1> DEFINE c == job[r].cert
<1>6. ASSUME \/ IssueOk(r) \/ IssueFail(r) \/ Discard(r) \/ Record(r)
             \/ DeleteCertTx(r) \/ DeleteCertRefused(r) \/ RemoveFiles(r)
      PROVE  /\ c \in Cert /\ job[r].row \in CertRow /\ Dealing(r) /\ used' = used
             /\ pc'[r] # "idle" => job'[r] = job[r]
             /\ \A d \in Cert : InUse(d)' <=> InUse(d)
             /\ job[r].op # "reissue" => \A q \in Req \ {r} : ~Names(q, c)
             /\ \A q \in Req \ {r} : ~(pc[q] = "rmfiles" /\ job[q].cert = c)
             /\ \A q \in Req \ {r} : Names(q, c) /\ pc[q] \in OnCert => job[q].op = "reissue"
  <2>1. pc[r] \in OnCert
    BY <1>6 DEF IssueOk, IssueFail, Discard, Record, DeleteCertTx, DeleteCertRefused,
                RemoveFiles, OnCert
  <2>2. \E l : Goto(r, l)
    BY <1>6 DEF IssueOk, IssueFail, Discard, Record, DeleteCertTx, DeleteCertRefused, RemoveFiles
  <2>3. c \in Cert /\ job[r].row \in CertRow /\ Dealing(r)
    BY <2>1 DEF Linked, TInv, Holds, CertJobs
  <2>4. used' = used /\ (pc'[r] # "idle" => job'[r] = job[r])
    BY <2>2, Moves
  <2>5. \A d \in Cert : InUse(d)' <=> InUse(d)
    BY <1>1 DEF InUse
  <2>6. job[r].op # "reissue" => \A q \in Req \ {r} : ~Names(q, c)
    BY <2>1 DEF CertsApart
  <2>7. ASSUME NEW q \in Req \ {r}, pc[q] \in OnCert, job[q].cert = c PROVE job[q].op = "reissue"
    BY <2>1, <2>7 DEF CertsApart, Names
  <2>8. \A q \in Req \ {r} : ~(pc[q] = "rmfiles" /\ job[q].cert = c)
    BY <2>7 DEF Linked, Dealing, OnCert
  <2>9. \A q \in Req \ {r} : Names(q, c) /\ pc[q] \in OnCert => job[q].op = "reissue"
    BY <2>7 DEF Names, OnSite, OnCert
  <2> QED BY <2>3, <2>4, <2>5, <2>6, <2>8, <2>9
<1>7. CASE IssueOk(r)
  <2>1. /\ certs' = certs /\ files' = files \cup {c} /\ pc'[r] = "record"
    BY <1>7, Moves DEF IssueOk
  <2>2. Dealing(r)'
    BY <1>6, <1>7, <2>1 DEF Dealing
  <2>3. certs[c] # NoRow => c \in used
    BY <1>6, <1>7 DEF Linked
  <2>4. InUse(c) => certs[c] # NoRow
    BY <1>6, <1>7, PanelAssumption DEF InUse, Linked, Backed
  <2> QED BY <1>2, <1>6, <1>7, <2>1, <2>2, <2>3, <2>4
<1>8. CASE IssueFail(r) \/ DeleteCertRefused(r)
  <2>1. certs' = certs /\ files' = files
    BY <1>8 DEF IssueFail, DeleteCertRefused, disk
  <2>2. pc'[r] = "idle" \/ Dealing(r)'
    <3>1. CASE DeleteCertRefused(r)
      BY <3>1, Moves DEF DeleteCertRefused
    <3>2. CASE IssueFail(r) /\ job[r].op = "newcert"
      <4>1. pc'[r] = "discard" /\ pc[r] = "issue"
        BY <3>2, Moves DEF IssueFail
      <4> QED BY <1>6, <1>8, <2>1, <3>2, <4>1 DEF Dealing
    <3>3. CASE IssueFail(r) /\ job[r].op # "newcert"
      <4>1. pc'[r] \in {"record", "idle"} /\ pc[r] = "issue"
        BY <3>3, Moves DEF IssueFail
      <4> QED BY <1>6, <1>8, <2>1, <3>3, <4>1 DEF Dealing
    <3> QED BY <1>8, <3>1, <3>2, <3>3
  <2>3. InUse(c) => certs[c] # NoRow
    BY <1>6, <1>8, PanelAssumption DEF InUse, Linked, Backed
  <2> QED BY <1>2, <1>6, <1>8, <2>1, <2>2, <2>3 DEF Linked
<1>9. CASE Discard(r)
  <2>1. /\ certs' = [certs EXCEPT ![c] = NoRow] /\ files' = files /\ pc'[r] = "idle"
        /\ pc[r] = "discard"
    BY <1>9, Moves DEF Discard, disk
  <2>2. ~InUse(c) /\ \A d \in Cert \ {c} : certs'[d] = certs[d]
    BY <1>6, <1>9, <2>1 DEF Dealing, TInv, Types
  <2>3. certs'[c] = NoRow
    BY <1>6, <1>9, <2>1 DEF TInv, Types
  <2>4. \A q \in Req \ {r} : ~Names(q, c)
    BY <1>6, <1>9, <2>1 DEF Dealing
  <2>5. \A q \in Req \ {r} : ~(pc[q] \in OnCert /\ job[q].cert = c)
    BY <2>4 DEF Names
  <2> QED BY <1>2, <1>6, <1>9, <2>1, <2>2, <2>3, <2>4, <2>5
<1>10. CASE Record(r)
  <2>1. /\ certs' = [certs EXCEPT ![c] = job[r].row] /\ files' = files /\ pc'[r] = "idle"
        /\ pc[r] = "record"
    BY <1>10, Moves DEF Record, disk
  <2>2. certs'[c] = job[r].row /\ certs'[c] # NoRow
    BY <1>6, <1>10, <2>1, NothingAssumption DEF TInv, Types
  <2>3. c \in used' /\ (certs'[c].paths => c \in files')
    BY <1>6, <1>10, <2>1, <2>2 DEF Dealing
  <2>4. \A d \in Cert \ {c} : certs'[d] = certs[d]
    BY <2>1 DEF TInv, Types
  <2> QED BY <1>2, <1>6, <1>10, <2>1, <2>2, <2>3, <2>4
<1>11. CASE DeleteCertTx(r)
  <2>1. /\ certs' = [certs EXCEPT ![c] = NoRow] /\ files' = files /\ pc'[r] = "rmfiles"
        /\ ~InUse(c) /\ pc[r] = "deltx"
    BY <1>11, Moves DEF DeleteCertTx, disk
  <2>2. certs'[c] = NoRow /\ \A d \in Cert \ {c} : certs'[d] = certs[d]
    BY <1>6, <1>11, <2>1 DEF TInv, Types
  <2>3. Dealing(r)'
    BY <1>6, <1>11, <2>1, <2>2 DEF Dealing
  <2>4. \A q \in Req \ {r} : ~Names(q, c)
    BY <1>6, <1>11, <2>1 DEF Dealing
  <2>5. \A q \in Req \ {r} : ~(pc[q] \in OnCert /\ job[q].cert = c)
    BY <2>4 DEF Names
  <2> QED BY <1>2, <1>6, <1>11, <2>1, <2>2, <2>3, <2>4, <2>5
<1>12. CASE RemoveFiles(r)
  <2>1. /\ certs' = certs /\ files' = files \ {c} /\ pc'[r] = "idle" /\ pc[r] = "rmfiles"
    BY <1>12, Moves DEF RemoveFiles
  <2>2. ~InUse(c) /\ certs[c] = NoRow
    BY <1>6, <1>12, <2>1 DEF Dealing
  <2>3. \A q \in Req \ {r} : ~Names(q, c)
    BY <1>6, <1>12, <2>1 DEF Dealing
  <2>4. \A q \in Req \ {r} : ~(pc[q] \in OnCert /\ job[q].cert = c)
    BY <2>3 DEF Names
  <2> QED BY <1>2, <1>6, <1>12, <2>1, <2>2, <2>3, <2>4
<1> QED BY <1>3, <1>5, <1>7, <1>8, <1>9, <1>10, <1>11, <1>12 DEF CertStep, ServeCert

(* Init, and each step, deaths and boots included. *)
LEMMA LinkedAlways == Spec /\ []SitesApart /\ []CertsApart => []Linked
<1>1. Init => Linked
  BY DEF Init, Linked, OnCert
<1>2. TInv /\ Loaded /\ Linked /\ SitesApart /\ CertsApart /\ [Next]_vars => Linked'
  <2> SUFFICES ASSUME TInv, Loaded, Linked, SitesApart, CertsApart, [Next]_vars PROVE Linked'
    OBVIOUS
  <2>1. CASE UNCHANGED vars
    BY <2>1 DEF vars, Linked, Dealing, Backed, InUse
  <2>2. CASE Crash
    BY <2>2 DEF Crash, Linked, Backed, OnCert
  <2>3. CASE BootStep
    <3>1. UNCHANGED <<rows, certs, files, used, pc, job>>
      BY <2>3 DEF BootStep, Boot, BootDies, Reconcile, ReconcileFail, Booting, disk
    <3> QED BY <3>1 DEF Linked, Dealing, Backed, InUse
  <2> QED BY <2>1, <2>2, <2>3, LinkedSiteStep, LinkedCertStep, Steps DEF Next, BootStep
<1> QED BY <1>1, <1>2, TypesAlways, LoadedAlways, PTL DEF Spec

(* The transaction of DeleteCert prevents "a dangling cert_id" as long as no *)
(* request binds the certificate meanwhile, and none is about another's      *)
(* site: the certificate of a row exists.                                    *)
THEOREM BoundCertExists == Spec /\ []SitesApart /\ []CertsApart => []NoDanglingCert
<1>1. Linked => NoDanglingCert
  BY DEF Linked, Backed, NoDanglingCert
<1> QED BY <1>1, LinkedAlways, PTL

-----------------------------------------------------------------------------
(* Trees follow rows *)

(* What the properties promise of s between requests. *)
Agrees(s) ==
    s \notin apart =>
        /\ Enabled(s) /\ ~rows[s].raw => live[s] = Rendered(rows[s])
        /\ Disabled(s) => live[s] = NoTree

(* The tree of the site a request is about, at its next step. *)
Midway(r) ==
    LET j == job[r]
        t == live[j.site]
    IN  /\ pc[r] = "bind" => Agrees(j.site)
        /\ pc[r] = "call" => /\ Asks("call", j)
                             /\ IF j.op = "create" THEN t = NoTree ELSE Agrees(j.site)
        /\ pc[r] = "save" =>
             /\ j.op \notin {"create", "delete"}
             /\ j.op \in {"lock", "update", "bind"} /\ (j.op = "lock" \/ ~j.row.enabled) => Agrees(j.site)
             /\ j.op \in {"update", "bind", "toggle"} /\ j.row.enabled => t = Rendered(j.row)
             /\ j.op = "toggle" /\ ~j.row.enabled => t = NoTree
        /\ pc[r] = "drop" => j.op \in {"create", "delete"} /\ t = NoTree

(* What the boot finds of s: the tree of its row, or none to be rendered. *)
Bootable(s) ==
    s \notin apart /\ Enabled(s) /\ ~rows[s].raw => live[s] \in {NoTree, Rendered(rows[s])}

Busy(s) == \E r \in Req : pc[r] \in OnSite /\ job[r].site = s

Followed ==
    /\ \A s \in Site : rows[s] = NoRow => live[s] = NoTree
    /\ up => \A s \in Site : Agrees(s) \/ Busy(s)
    /\ up => \A r \in Req : pc[r] \in OnSite => Midway(r)
    /\ ~up => \A r \in Req : pc[r] = "idle"
    /\ ~up => \A s \in Site : Bootable(s) /\ (s \notin left => Agrees(s))

(* One step of a request that is about q: every other site, and so every     *)
(* other request on a site, is as it was.                                    *)
LEMMA FollowedStep ==
    ASSUME SitesApart, SitesApart', TInv, Followed, up, up',
           NEW r \in Req, Serve(r) \/ Proceed(r), NEW q \in Site,
           pc[r] \in OnSite \/ pc'[r] \in OnSite,
           pc[r] \in OnSite => job[r].site = q,
           \A s \in Site \ {q} : rows'[s] = rows[s] /\ live'[s] = live[s] /\ (s \in apart' <=> s \in apart),
           rows'[q] = NoRow => live'[q] = NoTree,
           \/ pc'[r] \in OnSite /\ job'[r].site = q /\ Midway(r)'
           \/ pc'[r] \notin OnSite /\ Agrees(q)'
    PROVE  Followed'
<1>1. \A s \in Site : rows'[s] = NoRow => live'[s] = NoTree
  BY DEF Followed
<1>2. ASSUME NEW s \in Site, s # q, Agrees(s) PROVE Agrees(s)'
  BY <1>2 DEF Agrees, Enabled, Disabled, Rendered
<1>3. ASSUME NEW s \in Site, s # q, Busy(s) PROVE Busy(s)'
  <2>1. PICK p \in Req : pc[p] \in OnSite /\ job[p].site = s
    BY <1>3 DEF Busy
  <2>2. p # r
    BY <1>3, <2>1
  <2> QED BY <2>1, <2>2, Others DEF Busy
<1>4. Agrees(q)' \/ Busy(q)'
  BY DEF Busy
<1>5. \A s \in Site : (Agrees(s) \/ Busy(s))'
  BY <1>2, <1>3, <1>4 DEF Followed
<1>6. ASSUME NEW p \in Req, p # r, pc'[p] \in OnSite PROVE Midway(p)'
  <2>1. pc'[p] = pc[p] /\ job'[p] = job[p]
    BY <1>6, Others
  <2>2. job[p].site # q /\ job[p].site \in Site
    BY <1>6, <2>1 DEF SitesApart, TInv, Holds, SiteJobs
  <2>3. Midway(p)
    BY <1>6, <2>1 DEF Followed
  <2>4. Agrees(job[p].site) => (Agrees(job[p].site))'
    BY <2>1, <2>2, <1>2 DEF Agrees, Enabled, Disabled, Rendered
  <2>5. live'[job[p].site] = live[job[p].site]
    BY <2>2
  <2>6. Asks("call", job[p]) => (Asks("call", job[p]))'
    BY <2>1 DEF Asks, Rendered
  <2> QED BY <2>1, <2>3, <2>4, <2>5, <2>6 DEF Midway, Rendered
<1> QED BY <1>1, <1>5, <1>6 DEF Followed

LEMMA FollowedServe ==
    ASSUME SitesApart, SitesApart', TInv, Loaded, Followed, up,
           NEW r \in Req, Serve(r) \/ Proceed(r), NEW s \in Site, ServeSite(r, s)
    PROVE  Followed'
<1>1. PICK l, j : Begun(r, s, l, j)
  BY SiteBegins
<1>2. /\ pc[r] = "idle" /\ pc'[r] = l /\ job'[r] = j /\ live' = live /\ apart' = apart /\ up' = up
      /\ l \in {"bind", "call", "save"} /\ j.site = s
  BY <1>1 DEF Begun, Begin, disk, TInv, Types
<1>3. Agrees(s)
  <2>1. ASSUME NEW q \in Req, pc[q] \in OnSite, job[q].site = s PROVE FALSE
    <3>1. q # r /\ pc'[q] = pc[q] /\ job'[q] = job[q]
      BY <1>2, <2>1, Others DEF OnSite
    <3> QED BY <1>2, <2>1, <3>1 DEF SitesApart, OnSite
  <2> QED BY <2>1 DEF Followed, Busy
<1>4. CASE rows' = rows /\ j.op # "create"
  <2>1. Agrees(s)' /\ Asks(l, j)
    BY <1>1, <1>2, <1>3, <1>4 DEF Begun, Agrees, Enabled, Disabled
  <2>2. j.op \notin {"create", "delete"} \/ l # "save"
    BY <1>1 DEF Begun, Asks
  <2>3. l = "save" /\ j.op # "lock" => j.op \in {"update", "bind"} /\ ~j.row.enabled
    BY <2>1 DEF Asks
  <2>4. Asks("call", j)' <=> Asks("call", j)
    BY DEF Asks
  <2>5. (Agrees(job[r].site))'
    BY <1>2, <2>1
  <2>6. l = "call" => (Asks("call", job[r]))'
    BY <1>2, <2>1 DEF Asks
  <2>7. Midway(r)'
    BY <1>2, <1>4, <2>2, <2>3, <2>5, <2>6 DEF Midway
  <2>8. rows'[s] = NoRow => live'[s] = NoTree
    BY <1>2, <1>4 DEF Followed
  <2> QED BY <1>2, <1>4, <2>7, <2>8, FollowedStep DEF OnSite
<1>5. CASE j.op = "create"
  <2>1. /\ s \notin used /\ rows' = [rows EXCEPT ![s] = j.row] /\ l = "call" /\ Asks(l, j)
        /\ Copied(j, rows'[s])
    BY <1>1, <1>5 DEF Begun
  <2>2. rows[s] = NoRow /\ live[s] = NoTree
    BY <2>1 DEF Loaded, Followed
  <2>3. (Asks("call", job[r]))'
    BY <1>2, <2>1 DEF Asks
  <2>4. Midway(r)'
    BY <1>2, <1>5, <2>1, <2>2, <2>3 DEF Midway
  <2>5. \A q \in Site \ {s} : rows'[q] = rows[q]
    BY <2>1 DEF TInv, Types
  <2> QED BY <1>2, <2>1, <2>2, <2>4, <2>5, FollowedStep DEF OnSite
<1> QED BY <1>1, <1>4, <1>5 DEF Begun

LEMMA FollowedBind ==
    ASSUME SitesApart, SitesApart', TInv, Loaded, Followed, up,
           NEW r \in Req, Serve(r) \/ Proceed(r), BindCert(r)
    PROVE  Followed'
<1> DEFINE v == [job[r].row EXCEPT !.tls = certs[job[r].row.cert].paths]
           s == job[r].site
<1>1. /\ pc[r] = "bind" /\ job[r] \in SiteJobs
      /\ pc'[r] = IF v.enabled THEN "call" ELSE "save"
      /\ job'[r] = [op |-> "bind", site |-> s, row |-> v, tree |-> Rendered(v)]
      /\ UNCHANGED <<rows, live, up, apart>>
  BY BindCertRow DEF TInv, Types
<1> HIDE DEF v
<1>2. /\ job'[r].op = "bind" /\ job'[r].site = s /\ job'[r].row = v
      /\ job'[r].tree = Rendered(v) /\ s \in Site
  BY <1>1 DEF SiteJobs
<1>3. Agrees(s)
  BY <1>1 DEF Followed, Midway, OnSite
<1>4. (Agrees(job[r].site))'
  BY <1>1, <1>2, <1>3 DEF Agrees, Enabled, Disabled
<1>5. pc'[r] = "call" => (Asks("call", job[r]))'
  BY <1>1, <1>2 DEF Asks, Rendered
<1>6. Midway(r)'
  BY <1>1, <1>2, <1>4, <1>5 DEF Midway
<1>7. rows'[s] = NoRow => live'[s] = NoTree
  BY <1>1, <1>2 DEF Followed
<1> QED BY <1>1, <1>2, <1>6, <1>7, FollowedStep DEF OnSite

LEMMA FollowedCall ==
    ASSUME SitesApart, SitesApart', TInv, Loaded, Followed, up,
           NEW r \in Req, Serve(r) \/ Proceed(r),
           CallOk(r) \/ CallFail(r) \/ BindCertMissing(r)
    PROVE  Followed'
<1>1. PICK j \in SiteJobs, s \in Site :
        j = job[r] /\ s = j.site /\ j.row \in GoodRow /\ pc[r] \in OnSite
  BY DEF CallOk, CallFail, BindCertMissing, TInv, Holds, OnSite, SiteJobs
<1> USE <1>1
<1>2. Midway(r) /\ Copied(j, rows[s]) /\ (rows[s] = NoRow => live[s] = NoTree)
  BY <1>1 DEF Followed, Loaded
<1>3. CASE CallOk(r)
  <2> DEFINE l == AfterCall(j.op)
  <2>1. /\ pc[r] = "call" /\ rows' = rows /\ apart' = apart /\ Goto(r, l)
        /\ live' = [live EXCEPT ![s] = Wanted(r)]
    BY <1>3 DEF CallOk
  <2>2. pc'[r] = l /\ up' = up /\ (l # "idle" => job'[r] = j)
    BY <2>1, Moves
  <2>3. live'[s] = Wanted(r) /\ \A q \in Site \ {s} : live'[q] = live[q]
    BY <1>1, <2>1 DEF TInv, Types
  <2>4. Asks("call", j) /\ rows[s] # NoRow /\ j.op # "lock"
    BY <1>2, <2>1 DEF Midway, Copied, Asks
  <2>5. CASE j.op = "create"
    <3>1. l = "idle" /\ Wanted(r) = Rendered(rows[s]) /\ rows[s].enabled
      BY <1>2, <2>4, <2>5 DEF AfterCall, Wanted, Asks, Copied
    <3>2. Agrees(s)'
      BY <2>1, <2>3, <3>1 DEF Agrees, Enabled, Disabled, Rendered
    <3> QED BY <1>1, <2>1, <2>2, <2>3, <2>4, <3>1, <3>2, FollowedStep DEF OnSite
  <2>6. CASE j.op = "delete"
    <3>1. l = "drop" /\ Wanted(r) = NoTree
      BY <2>4, <2>6 DEF AfterCall, Wanted, Asks
    <3>2. Midway(r)'
      BY <2>2, <2>3, <2>6, <3>1 DEF Midway
    <3> QED BY <1>1, <2>1, <2>2, <2>3, <2>4, <3>1, <3>2, FollowedStep DEF OnSite
  <2>7. CASE j.op \notin {"create", "delete"}
    <3>1. l = "save"
      BY <2>7 DEF AfterCall
    <3>2. j.op \in {"update", "bind", "toggle"} => live'[s] = IF j.row.enabled THEN Rendered(j.row) ELSE NoTree
      BY <2>3, <2>4 DEF Wanted, Asks
    <3>3. j.op \in {"update", "bind"} => j.row.enabled
      BY <2>4 DEF Asks
    <3>4. Midway(r)'
      BY <2>2, <2>4, <2>7, <3>1, <3>2, <3>3 DEF Midway, Rendered
    <3> QED BY <1>1, <2>1, <2>2, <2>3, <2>4, <3>1, <3>4, FollowedStep DEF OnSite
  <2> QED BY <2>5, <2>6, <2>7
<1>4. CASE CallFail(r) \/ BindCertMissing(r)
  <2>1. /\ UNCHANGED <<rows, live, apart>> /\ pc[r] \in {"call", "bind"}
        /\ Goto(r, IF pc[r] = "call" /\ j.op = "create" THEN "drop" ELSE "idle")
    BY <1>4 DEF CallFail, BindCertMissing, disk
  <2>2. CASE pc[r] = "call" /\ j.op = "create"
    <3>1. pc'[r] = "drop" /\ job'[r] = j /\ up' = up
      <4>1. Goto(r, "drop")
        BY <2>1, <2>2
      <4> QED BY <4>1, Moves
    <3>2. live[s] = NoTree
      BY <1>2, <2>2 DEF Midway
    <3>3. Midway(r)'
      BY <2>1, <2>2, <3>1, <3>2 DEF Midway
    <3> QED BY <1>1, <1>2, <2>1, <3>1, <3>3, FollowedStep DEF OnSite
  <2>3. CASE ~(pc[r] = "call" /\ j.op = "create")
    <3>1. pc'[r] = "idle" /\ up' = up
      BY <2>1, <2>3, Moves
    <3>2. Agrees(s)
      BY <1>2, <2>1, <2>3 DEF Midway
    <3>3. Agrees(s)'
      BY <2>1, <3>2 DEF Agrees, Enabled, Disabled
    <3> QED BY <1>1, <1>2, <2>1, <3>1, <3>3, FollowedStep DEF OnSite
  <2> QED BY <2>2, <2>3
<1> QED BY <1>3, <1>4

LEMMA FollowedSave ==
    ASSUME SitesApart, SitesApart', TInv, Loaded, Followed, up,
           NEW r \in Req, Serve(r) \/ Proceed(r), Save(r)
    PROVE  Followed'
<1>1. PICK j \in SiteJobs, s \in Site :
        j = job[r] /\ s = j.site /\ j.row \in GoodRow /\ pc[r] \in OnSite
  BY DEF Save, TInv, Holds, OnSite, SiteJobs
<1> USE <1>1
<1>2. Midway(r) /\ Copied(j, rows[s])
  BY DEF Followed, Loaded
<1>3. /\ pc[r] = "save" /\ live' = live /\ Goto(r, "idle") /\ Settle(j.op, s, j.row.enabled)
      /\ rows' = [rows EXCEPT ![s] = j.row]
  BY DEF Save, disk
<1>4. pc'[r] = "idle" /\ up' = up
  BY <1>3, Moves
<1>5. /\ rows'[s] = j.row /\ rows'[s] # NoRow
      /\ \A q \in Site \ {s} : rows'[q] = rows[q] /\ (q \in apart' <=> q \in apart)
  BY <1>3, RowIsRow DEF Settle, Together, Apart, TInv, Types
<1>6. Agrees(s)'
  <2>1. CASE j.op = "lock"
    <3>1. apart' = apart /\ Agrees(s) /\ rows[s] \in GoodRow
      <4>1. apart' = apart
        BY <1>3, <2>1 DEF Settle, Edits
      <4>2. Agrees(s)
        BY <1>2, <1>3, <2>1 DEF Midway
      <4> QED BY <1>2, <4>1, <4>2 DEF Copied, TInv, Types
    <3>2. /\ rows'[s].enabled = rows[s].enabled /\ rows'[s].raw = rows[s].raw
          /\ Rendered(rows'[s]) = Rendered(rows[s]) /\ rows[s] # NoRow
      BY <1>2, <1>5, <2>1, <3>1, LockedRow DEF Copied
    <3>3. Rendered(rows[s])' = Rendered(rows'[s])
      BY DEF Rendered
    <3> QED BY <1>3, <3>1, <3>2, <3>3 DEF Agrees, Enabled, Disabled
  <2>2. CASE j.op \in Edits /\ j.row.enabled
    <3>1. rows'[s].raw /\ rows'[s].enabled
      BY <1>2, <1>5, <2>2 DEF Copied
    <3> QED BY <3>1 DEF Agrees, Enabled, Disabled
  <2>3. CASE j.op \in Edits /\ ~j.row.enabled
    <3>1. s \in apart'
      BY <1>3, <2>3 DEF Settle, Apart, Edits
    <3> QED BY <3>1 DEF Agrees
  <2>4. CASE j.op \in {"update", "bind", "toggle"} /\ j.row.enabled
    <3>1. live'[s] = Rendered(j.row) /\ rows'[s].enabled
      BY <1>2, <1>3, <1>5, <2>4 DEF Midway
    <3>2. Rendered(rows[s])' = Rendered(j.row)
      BY <1>5 DEF Rendered
    <3> QED BY <3>1, <3>2 DEF Agrees, Enabled, Disabled
  <2>5. CASE j.op = "toggle" /\ ~j.row.enabled
    <3>1. live'[s] = NoTree /\ ~rows'[s].enabled
      BY <1>2, <1>3, <1>5, <2>5 DEF Midway
    <3> QED BY <3>1 DEF Agrees, Enabled, Disabled
  <2>6. CASE j.op \in {"update", "bind"} /\ ~j.row.enabled
    <3>1. apart' = apart
      BY <1>3, <2>6 DEF Settle, Edits
    <3>2. Agrees(s) /\ rows[s].enabled = j.row.enabled /\ rows[s] # NoRow
      BY <1>2, <1>3, <2>6 DEF Midway, Copied
    <3>3. live'[s] = NoTree \/ s \in apart'
      BY <1>3, <2>6, <3>1, <3>2 DEF Agrees, Disabled
    <3> QED BY <1>5, <2>6, <3>3 DEF Agrees, Enabled
  <2>7. j.op \in SiteOp \ {"create", "delete"}
    BY <1>2, <1>3 DEF Midway, SiteJobs
  <2> QED BY <2>1, <2>2, <2>3, <2>4, <2>5, <2>6, <2>7 DEF SiteOp, Edits
<1> QED BY <1>3, <1>4, <1>5, <1>6, FollowedStep DEF OnSite

LEMMA FollowedDrop ==
    ASSUME SitesApart, SitesApart', TInv, Loaded, Followed, up,
           NEW r \in Req, Serve(r) \/ Proceed(r),
           Drop(r) \/ (WriteFail(r) /\ pc[r] \in OnSite)
    PROVE  Followed'
<1>1. PICK j \in SiteJobs, s \in Site : j = job[r] /\ s = j.site /\ pc[r] \in OnSite
  BY DEF Drop, TInv, Holds, OnSite, SiteJobs
<1> USE <1>1
<1>2. Midway(r) /\ rows[s] # NoRow
  BY DEF Followed, Loaded, Copied
<1>3. CASE Drop(r)
  <2>1. /\ pc[r] = "drop" /\ live' = live /\ Goto(r, "idle") /\ apart' = apart \ {s}
        /\ rows' = [rows EXCEPT ![s] = NoRow]
    BY <1>3 DEF Drop, Together, disk
  <2>2. pc'[r] = "idle" /\ up' = up
    BY <2>1, Moves
  <2>3. rows'[s] = NoRow /\ live'[s] = NoTree /\ \A q \in Site \ {s} : rows'[q] = rows[q]
    BY <1>2, <2>1 DEF Midway, TInv, Types
  <2>4. Agrees(s)'
    BY <2>3 DEF Agrees, Enabled, Disabled
  <2> QED BY <2>1, <2>2, <2>3, <2>4, FollowedStep DEF OnSite
<1>4. CASE WriteFail(r)
  <2>1. /\ live' = live /\ rows' = rows /\ Goto(r, "idle") /\ apart' = apart \cup {s}
    BY <1>4 DEF WriteFail, Apart, disk, OnSite
  <2>2. pc'[r] = "idle" /\ up' = up
    BY <2>1, Moves
  <2>3. Agrees(s)'
    BY <2>1 DEF Agrees
  <2> QED BY <1>2, <2>1, <2>2, <2>3, FollowedStep DEF OnSite
<1> QED BY <1>3, <1>4

LEMMA FollowedElsewhere ==
    ASSUME TInv, Followed, up, NEW r \in Req, Serve(r) \/ Proceed(r),
           CertStep(r) \/ (WriteFail(r) /\ pc[r] \notin OnSite)
    PROVE  Followed'
<1>1. /\ rows' = rows /\ live' = live /\ apart' = apart /\ up' = up
      /\ pc[r] \notin OnSite /\ pc'[r] \notin OnSite
  <2>1. CASE CertStep(r)
    BY <2>1, CertStepLeaves DEF OnSite, OnCert
  <2>2. CASE WriteFail(r) /\ pc[r] \notin OnSite
    <3>1. Goto(r, "idle") /\ rows' = rows /\ live' = live /\ apart' = apart \cup {}
      BY <2>2 DEF WriteFail, Apart, OnSite, disk
    <3>2. pc'[r] = "idle" /\ up' = up
      BY <3>1, Moves
    <3>3. apart' = apart
      BY <3>1
    <3> QED BY <2>2, <3>1, <3>2, <3>3 DEF OnSite
  <2> QED BY <2>1, <2>2
<1>2. ASSUME NEW s \in Site PROVE (Agrees(s) \/ Busy(s))'
  <2>1. CASE Agrees(s)
    BY <1>1, <2>1 DEF Agrees, Enabled, Disabled, Rendered
  <2>2. CASE Busy(s)
    <3>1. PICK p \in Req : pc[p] \in OnSite /\ job[p].site = s
      BY <2>2 DEF Busy
    <3>2. p # r
      BY <1>1, <3>1
    <3> QED BY <3>1, <3>2, Others DEF Busy
  <2> QED BY <2>1, <2>2 DEF Followed
<1>3. ASSUME NEW p \in Req, pc'[p] \in OnSite PROVE Midway(p)'
  <2>1. p # r /\ pc'[p] = pc[p] /\ job'[p] = job[p]
    BY <1>1, <1>3, Others
  <2>2. Midway(p)
    BY <1>3, <2>1 DEF Followed
  <2> QED BY <1>1, <2>1, <2>2 DEF Midway, Agrees, Enabled, Disabled, Rendered, Asks
<1> QED BY <1>1, <1>2, <1>3 DEF Followed

(* A death leaves what the next boot can make good. *)
LEMMA FollowedCrash ==
    ASSUME SitesApart, TInv, Loaded, Followed, up, Crash
    PROVE  Followed'
<1>1. /\ up' = FALSE /\ left' = Site /\ rows' = rows /\ pc' = [r \in Req |-> "idle"]
      /\ apart' = apart
           \cup ({job[r].site : r \in {q \in Req : pc[q] \in {"call", "save"} /\ job[q].op \in Changes}}
                 \cup {s \in Site : IsPart(live'[s])})
  BY DEF Crash, Apart
<1>2. ASSUME NEW s \in Site, ~Busy(s) PROVE live'[s] = live[s]
  <2>1. ASSUME NEW r \in Req, pc[r] = "call", NEW t, live' = [live EXCEPT ![job[r].site] = t]
        PROVE  live'[s] = live[s]
    BY <1>2, <2>1 DEF Busy, OnSite, TInv, Types
  <2> QED BY <2>1 DEF Crash
<1>3. ASSUME NEW r \in Req, NEW s \in Site, pc[r] \in OnSite, job[r].site = s
      PROVE  (rows[s] # NoRow) /\ Bootable(s)'
  <2>1. PICK j \in SiteJobs : j = job[r] /\ j.row \in GoodRow
    BY <1>3 DEF TInv, Holds, SiteJobs
  <2> USE <1>3, <2>1
  <2>2. Midway(r) /\ Copied(j, rows[s])
    BY DEF Followed, Loaded
  <2>3. rows[s] # NoRow
    BY <2>2 DEF Copied
  <2>4. \/ live'[s] \in {live[s], NoTree} \/ IsPart(live'[s])
        \/ pc[r] = "call" /\ live'[s] = Wanted(r)
    <3>1. ASSUME NEW q \in Req, pc[q] = "call", NEW t \in {Wanted(q)} \cup Fragments(Wanted(q)),
                 live' = [live EXCEPT ![job[q].site] = t]
          PROVE  \/ live'[s] \in {live[s], NoTree} \/ IsPart(live'[s])
                 \/ pc[r] = "call" /\ live'[s] = Wanted(r)
      <4>1. CASE q = r
        <5>1. t = Wanted(r) \/ t = NoTree \/ IsPart(t)
          BY <3>1, <4>1, WantedTree, FragmentTrees
        <5> QED BY <3>1, <4>1, <5>1 DEF TInv, Types
      <4>2. CASE q # r
        <5>1. job[q].site # s
          BY <3>1, <4>2 DEF SitesApart, OnSite
        <5> QED BY <3>1, <5>1 DEF TInv, Types
      <4> QED BY <4>1, <4>2
    <3> QED BY <3>1 DEF Crash
  <2>5. SUFFICES ASSUME s \notin apart', rows[s].enabled, ~rows[s].raw
                 PROVE  live'[s] \in {NoTree, Rendered(rows[s])}
    BY <1>1, <2>3 DEF Bootable, Enabled, Rendered
  <2>6. s \notin apart /\ ~IsPart(live'[s]) /\ ~(pc[r] \in {"call", "save"} /\ j.op \in Changes)
    BY <1>1, <2>5
  <2>7. Agrees(s) => live[s] = Rendered(rows[s])
    BY <2>3, <2>5, <2>6 DEF Agrees, Enabled
  <2>8. CASE pc[r] = "bind"
    BY <2>2, <2>4, <2>6, <2>7, <2>8 DEF Midway
  <2>9. CASE pc[r] = "call"
    <3>1. Asks("call", j) /\ j.op \in {"create", "toggle", "delete"}
      BY <2>2, <2>6, <2>9 DEF Midway, Asks, SiteJobs, SiteOp, Changes, Edits
    <3>2. live[s] \in {NoTree, Rendered(rows[s])}
      BY <2>2, <2>7, <2>9 DEF Midway
    <3>3. Wanted(r) \in {NoTree, Rendered(rows[s])}
      BY <2>2, <2>5, <3>1 DEF Wanted, Asks, Copied
    <3> QED BY <2>4, <2>6, <3>2, <3>3
  <2>10. CASE pc[r] = "save"
    <3>1. j.op \in {"lock", "toggle"}
      BY <2>2, <2>6, <2>10 DEF Midway, SiteJobs, SiteOp, Changes, Edits
    <3>2. CASE j.op = "lock"
      BY <2>2, <2>4, <2>6, <2>7, <2>10, <3>2 DEF Midway
    <3>3. CASE j.op = "toggle"
      <4>1. ~j.row.enabled
        BY <2>2, <2>5, <3>3 DEF Copied, GoodRow, Row, TInv, Types
      <4> QED BY <2>2, <2>4, <2>6, <2>10, <3>3, <4>1 DEF Midway
    <3> QED BY <3>1, <3>2, <3>3
  <2>11. CASE pc[r] = "drop"
    BY <2>2, <2>4, <2>6, <2>11 DEF Midway
  <2> QED BY <2>8, <2>9, <2>10, <2>11 DEF OnSite
<1>4. ASSUME NEW s \in Site, ~Busy(s) PROVE Bootable(s)'
  <2>1. Agrees(s) /\ live'[s] = live[s]
    BY <1>2, <1>4 DEF Followed
  <2> QED BY <1>1, <2>1 DEF Agrees, Bootable, Enabled, Rendered
<1>5. \A s \in Site : Bootable(s)'
  BY <1>3, <1>4 DEF Busy
<1>6. \A s \in Site : rows'[s] = NoRow => live'[s] = NoTree
  BY <1>1, <1>2, <1>3 DEF Busy, Followed
<1> QED BY <1>1, <1>5, <1>6 DEF Followed

(* The boot makes good what it does not leave alone, or is unable to. *)
LEMMA FollowedReconcile ==
    ASSUME TInv, Linked, Followed, NEW s \in Site, Reconcile(s)
    PROVE  Followed'
<1>1. /\ ~up /\ up' = up /\ left' = left \ {s} /\ UNCHANGED <<rows, files, pc>>
      /\ live' = [live EXCEPT ![s] = IF Disabled(s) THEN NoTree
                                     ELSE IF Missing(s) THEN Written(s) ELSE @]
      /\ apart' = IF Disabled(s) \/ Missing(s) THEN apart \ {s} ELSE apart
  BY DEF Reconcile, Booting, Together
<1>2. /\ \A q \in Site \ {s} : live'[q] = live[q] /\ (q \in apart' <=> q \in apart)
      /\ live'[s] = IF Disabled(s) THEN NoTree ELSE IF Missing(s) THEN Written(s) ELSE live[s]
  BY <1>1 DEF TInv, Types
<1>3. Agrees(s)'
  <2>1. CASE Disabled(s)
    BY <1>1, <1>2, <2>1 DEF Agrees, Enabled, Disabled
  <2>2. CASE Missing(s)
    <3>1. rows[s] \in GoodRow /\ Backed(rows[s])
      BY <2>2 DEF Missing, Enabled, Linked, TInv, Types
    <3>2. Written(s) = Rendered(rows[s])
      BY <3>1 DEF GoodRow, Row, Backed, Rendered, Written
    <3>3. live'[s] = Rendered(rows[s])
      BY <1>2, <2>2, <3>2 DEF Missing, Enabled, Disabled
    <3> QED BY <1>1, <2>2, <3>3 DEF Missing, Agrees, Enabled, Disabled, Rendered
  <2>3. CASE Enabled(s) /\ live[s] # NoTree
    <3>1. live'[s] = live[s] /\ (s \in apart' <=> s \in apart)
      BY <1>1, <1>2, <2>3 DEF Missing, Enabled, Disabled
    <3>2. Bootable(s)
      BY <1>1 DEF Followed
    <3> QED BY <1>1, <2>3, <3>1, <3>2 DEF Bootable, Agrees, Enabled, Disabled, Rendered
  <2>4. CASE rows[s] = NoRow
    BY <1>1, <2>4 DEF Agrees, Enabled, Disabled
  <2> QED BY <2>1, <2>2, <2>3, <2>4 DEF Missing, Enabled, Disabled
<1>4. Bootable(s)'
  BY <1>3 DEF Agrees, Bootable, Enabled, Rendered
<1>5. ASSUME NEW q \in Site \ {s} PROVE Bootable(q)' /\ (q \notin left' => Agrees(q)')
  BY <1>1, <1>2 DEF Followed, Bootable, Agrees, Enabled, Disabled, Rendered
<1>6. \A q \in Site : rows'[q] = NoRow => live'[q] = NoTree
  BY <1>1, <1>2 DEF Followed, Missing, Enabled, Disabled
<1> QED BY <1>1, <1>3, <1>4, <1>5, <1>6 DEF Followed

LEMMA FollowedBoot == ASSUME TInv, Linked, Followed, BootStep PROVE Followed'
<1>1. CASE Boot
  <2>1. ~up /\ left = {} /\ up' = TRUE /\ UNCHANGED <<rows, live, pc, job, apart>>
    BY <1>1 DEF Boot, disk
  <2> QED BY <2>1 DEF Followed, Agrees, Busy, Enabled, Disabled, Rendered, OnSite
<1>2. CASE BootDies
  <2>1. ~up /\ up' = up /\ left' = Site /\ UNCHANGED <<rows, live, pc, job, apart>>
    BY <1>2 DEF BootDies, disk
  <2> QED BY <2>1 DEF Followed, Bootable, Enabled, Rendered
<1>3. ASSUME NEW s \in Site, ReconcileFail(s) PROVE Followed'
  <2>1. /\ ~up /\ up' = up /\ left' \in {left \ {s}, Site} /\ UNCHANGED <<rows, pc>>
        /\ \E t : live' = [live EXCEPT ![s] = t]
        /\ apart' = apart \cup {s} /\ rows[s] # NoRow
    BY <1>3 DEF ReconcileFail, Booting, Apart, Disabled, Missing, Enabled
  <2>2. \A q \in Site \ {s} : live'[q] = live[q] /\ (q \in apart' <=> q \in apart)
    BY <2>1 DEF TInv, Types
  <2>3. Bootable(s)' /\ Agrees(s)'
    BY <2>1 DEF Bootable, Agrees
  <2>4. ASSUME NEW q \in Site \ {s} PROVE Bootable(q)' /\ (q \notin left' => Agrees(q)')
    BY <2>1, <2>2 DEF Followed, Bootable, Agrees, Enabled, Disabled, Rendered
  <2>5. \A q \in Site : rows'[q] = NoRow => live'[q] = NoTree
    BY <2>1, <2>2 DEF Followed
  <2> QED BY <2>1, <2>3, <2>4, <2>5 DEF Followed
<1> QED BY <1>1, <1>2, <1>3, FollowedReconcile DEF BootStep

(* Init, and each step; a boot needs the files that Linked promises. *)
LEMMA FollowedAlways == Spec /\ []SitesApart /\ []CertsApart => []Followed
<1>1. Init => Followed
  BY DEF Init, Followed, Agrees, Enabled, Disabled, OnSite
<1>2. TInv /\ Loaded /\ Linked /\ Followed /\ SitesApart /\ SitesApart' /\ [Next]_vars => Followed'
  <2> SUFFICES ASSUME TInv, Loaded, Linked, Followed, SitesApart, SitesApart', [Next]_vars
               PROVE  Followed'
    OBVIOUS
  <2>1. CASE UNCHANGED vars
    BY <2>1 DEF vars, Followed, Agrees, Busy, Midway, Bootable, Asks, Enabled, Disabled, Rendered
  <2>2. CASE up /\ Crash
    BY <2>2, FollowedCrash
  <2>3. CASE BootStep
    BY <2>3, FollowedBoot
  <2>4. ASSUME up, NEW r \in Req, Serve(r) \/ Proceed(r) PROVE Followed'
    BY <2>4, Steps, FollowedServe, FollowedBind, FollowedCall, FollowedSave, FollowedDrop,
       FollowedElsewhere
  <2> QED BY <2>1, <2>2, <2>3, <2>4 DEF Next, BootStep
<1> QED BY <1>1, <1>2, TypesAlways, LoadedAlways, LinkedAlways, PTL DEF Spec

(* Requests that are apart keep trees and rows together: whenever none is    *)
(* under way, what is served follows from the rows, over failed calls, failed*)
(* writes, deaths, and boots that fail or die in their turn, but for the     *)
(* sites of which the code has been unable to.                               *)
THEOREM TreesAreKept == Spec /\ []SitesApart /\ []CertsApart => []TreesFollowRows
<1>1. Followed => TreesFollowRows
  <2> SUFFICES ASSUME Followed, AtRest PROVE TreesFollowRows
    BY DEF TreesFollowRows, LiveIsModel, DeletedIsOff, DisabledIsOff
  <2>1. \A s \in Site : ~Busy(s)
    BY DEF AtRest, Busy, OnSite
  <2>2. \A s \in Site : Agrees(s)
    BY <2>1 DEF Followed, AtRest
  <2> QED BY <2>2 DEF Followed, Agrees, TreesFollowRows, LiveIsModel, DeletedIsOff, DisabledIsOff
<1> QED BY <1>1, FollowedAlways, PTL
=============================================================================
