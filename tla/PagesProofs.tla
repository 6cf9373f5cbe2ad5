----------------------------- MODULE PagesProofs -----------------------------
(***************************************************************************)
(* For any rows, any user, any faults and any bounds: types are kept; what *)
(* the server is asked to do is what was confirmed; the list at rest is    *)
(* the server's; what changed a row is told as done.                       *)
(***************************************************************************)
EXTENDS Pages, SequenceTheorems, FiniteSetTheorems, TLAPS

-----------------------------------------------------------------------------
(* Sequences *)

(* An element taken out leaves the others, in their order. *)
LEMMA RemoveAtElements ==
    ASSUME NEW S, NEW w \in Seq(S), NEW k \in 1..Len(w)
    PROVE  /\ RemoveAt(w, k) \in Seq(S)
           /\ Len(RemoveAt(w, k)) = Len(w) - 1
           /\ \A i \in 1..(Len(w) - 1) :
                 RemoveAt(w, k)[i] = w[IF i < k THEN i ELSE i + 1]
<1> DEFINE a == SubSeq(w, 1, k - 1)
           b == SubSeq(w, k + 1, Len(w))
<1>0. Len(w) \in Nat /\ k \in Nat /\ k <= Len(w)
  OBVIOUS
<1>1. a \in Seq(S) /\ Len(a) = k - 1 /\ \A i \in 1..(k-1) : a[i] = w[i]
  BY SubSeqProperties
<1>2. b \in Seq(S) /\ Len(b) = Len(w) - k /\ \A i \in 1..(Len(w) - k) : b[i] = w[k + i]
  BY SubSeqProperties
<1>3. RemoveAt(w, k) = a \o b
  BY DEF RemoveAt
<1> HIDE DEF a, b
<1>4. /\ a \o b \in Seq(S) /\ Len(a \o b) = Len(w) - 1
      /\ \A i \in 1..(Len(w) - 1) : (a \o b)[i] = IF i <= k - 1 THEN a[i] ELSE b[i - (k - 1)]
  <2>1. /\ a \o b \in Seq(S) /\ Len(a \o b) = Len(a) + Len(b)
        /\ \A i \in 1..(Len(a) + Len(b)) : (a \o b)[i] = IF i <= Len(a) THEN a[i] ELSE b[i - Len(a)]
    BY <1>1, <1>2, ConcatProperties
  <2>2. Len(a) + Len(b) = Len(w) - 1
    BY <1>0, <1>1, <1>2
  <2> QED BY <1>1, <2>1, <2>2
<1>5. ASSUME NEW i \in 1..(Len(w) - 1)
      PROVE  (a \o b)[i] = w[IF i < k THEN i ELSE i + 1]
  <2>1. CASE i < k
    <3>1. i <= k - 1 /\ i \in 1..(k-1)
      BY <1>0, <2>1
    <3> QED BY <1>1, <1>4, <2>1, <3>1
  <2>2. CASE ~(i < k)
    <3>1. i - (k - 1) \in 1..(Len(w) - k) /\ ~(i <= k - 1) /\ k + (i - (k - 1)) = i + 1
      BY <1>0, <2>2
    <3>2. (a \o b)[i] = b[i - (k - 1)]
      BY <1>4, <3>1
    <3>3. b[i - (k - 1)] = w[k + (i - (k - 1))]
      BY <1>2, <3>1
    <3> QED BY <2>2, <3>1, <3>2, <3>3
  <2> QED BY <2>1, <2>2
<1> QED BY <1>3, <1>4, <1>5

-----------------------------------------------------------------------------
(* The tables of the pages *)

PageIs == page \in {"sites", "users", "certs"}

(* A mutation that reads its dialog when it runs is asked for by a dialog    *)
(* that waits for it; so is one with a field to fill in; only the lock of a  *)
(* site reads the dialog in its onSuccess; and only a new password asks for  *)
(* no new list.                                                              *)
LEMMA Tables ==
    ASSUME PageIs
    PROVE  /\ DOMAIN Mutation \subseteq Requests
           /\ DOMAIN Mutation = CASE page = "sites" -> SiteRequests
                                  [] page = "users" -> UserRequests
                                  [] page = "certs" -> CertRequests
           /\ \A d \in DOMAIN Mutation :
                /\ Mutation[d].fromDialog => Mutation[d].closes
                /\ Mutation[d].fromDialog <=> d \notin AtOnce \cup Creates \cup {"stop"}
                                               /\ ~(page = "sites" /\ d = "remove")
                /\ Mutation[d].typed => Mutation[d].fromDialog
                /\ Mutation[d].reads <=> d \in {"lock", "unlock"}
                /\ Mutation[d].clears <=> d \in {"lock", "unlock", "resetPassword"}
                /\ Mutation[d].forgets <=> d \in {"lock", "unlock"}
                /\ Mutation[d].typed <=> d \in {"lock", "unlock", "resetPassword", "update"}
                /\ Mutation[d].closes <=> d \notin AtOnce \cup {"stop"}
                /\ Mutation[d].lists <=> d # "resetPassword"
           /\ HeaderButtons \subseteq DOMAIN Mutation
<1> USE DEF Requests, SiteRequests, UserRequests, CertRequests, Creates, AtOnce, HeaderButtons
<1>1. CASE page = "sites"
  <2>1. Mutation = SiteMutations /\ DOMAIN SiteMutations = SiteRequests
    BY <1>1 DEF Mutation, SiteMutations
  <2>2. ASSUME NEW d \in SiteRequests
        PROVE  /\ SiteMutations[d].fromDialog <=> d \in {"lock", "unlock"}
               /\ SiteMutations[d].reads <=> d \in {"lock", "unlock"}
               /\ SiteMutations[d].closes <=> d \in {"remove", "lock", "unlock"}
               /\ SiteMutations[d].lists
               /\ SiteMutations[d].typed <=> d \in {"lock", "unlock"}
               /\ SiteMutations[d].clears <=> d \in {"lock", "unlock"}
               /\ SiteMutations[d].forgets <=> d \in {"lock", "unlock"}
    BY Zenon DEF SiteMutations
  <2> HIDE DEF SiteMutations
  <2>3. HeaderButtons \subseteq SiteRequests
    BY <1>1
  <2> QED BY <1>1, <2>1, <2>2, <2>3
<1>2. CASE page = "users"
  <2>1. Mutation = UserMutations /\ DOMAIN UserMutations = UserRequests
    BY <1>2 DEF Mutation, UserMutations
  <2>2. ASSUME NEW d \in UserRequests
        PROVE  /\ UserMutations[d].fromDialog <=> d \notin {"create", "enable"}
               /\ ~UserMutations[d].reads
               /\ UserMutations[d].closes <=> d # "enable"
               /\ UserMutations[d].lists <=> d # "resetPassword"
               /\ UserMutations[d].typed <=> d = "resetPassword"
               /\ UserMutations[d].clears <=> d = "resetPassword"
               /\ ~UserMutations[d].forgets
    BY Zenon DEF UserMutations
  <2> HIDE DEF UserMutations
  <2>3. HeaderButtons \subseteq UserRequests
    BY <1>2
  <2> QED BY <1>2, <2>1, <2>2, <2>3
<1>3. CASE page = "certs"
  <2>1. Mutation = CertMutations /\ DOMAIN CertMutations = CertRequests
    BY <1>3 DEF Mutation, CertMutations
  <2>2. ASSUME NEW d \in CertRequests
        PROVE  /\ CertMutations[d].fromDialog <=> d \in {"remove", "update"}
               /\ ~CertMutations[d].reads
               /\ CertMutations[d].closes <=> d # "renew"
               /\ CertMutations[d].lists
               /\ CertMutations[d].typed <=> d = "update"
               /\ ~CertMutations[d].clears
               /\ ~CertMutations[d].forgets
    BY Zenon DEF CertMutations
  <2> HIDE DEF CertMutations
  <2>3. HeaderButtons \subseteq CertRequests
    BY <1>3
  <2> QED BY <1>3, <2>1, <2>2, <2>3
<1> QED BY <1>1, <1>2, <1>3 DEF PageIs

(* Requests that share a mutation object are of the same kind. *)
LEMMA SameObject ==
    ASSUME PageIs, NEW d \in DOMAIN Mutation, NEW e \in DOMAIN Mutation, Object(d) = Object(e)
    PROVE  /\ d = e \/ {d, e} \subseteq {"lock", "unlock"} \/ {d, e} \subseteq {"start", "stop"}
           /\ Mutation[d].closes <=> Mutation[e].closes
           /\ Mutation[d].fromDialog <=> Mutation[e].fromDialog
<1>0. d \in Requests /\ e \in Requests
  BY Tables
<1>1. d = e \/ {d, e} \subseteq {"lock", "unlock"} \/ {d, e} \subseteq {"start", "stop"}
  BY <1>0 DEF Object, Requests, SiteRequests, UserRequests, CertRequests
<1>2. CASE d = e
  BY <1>2
<1>3. CASE {d, e} \subseteq {"lock", "unlock"}
  BY <1>3, Tables DEF AtOnce, Creates
<1>4. CASE {d, e} \subseteq {"start", "stop"}
  BY <1>4, Tables DEF AtOnce, Creates
<1> QED BY <1>1, <1>2, <1>3, <1>4

-----------------------------------------------------------------------------
(* Types *)

PageRow == CASE page = "sites" -> SiteRow
             [] page = "users" -> UserRow
             [] page = "certs" -> CertRow

PageRows == [Items -> PageRow \cup {None, Gone}]

PageCall == [do : DOMAIN Mutation, item : Items \cup {None}, text : Items \cup {None},
             meant : Items \cup {None},
             state : {"paused", "sent", "inserted", "done", "refused", "lost"}, waited : BOOLEAN,
             did : BOOLEAN, watched : BOOLEAN, here : BOOLEAN, open : BOOLEAN]

(* The server's rows and what the page has of them. *)
DataOK ==
    /\ rows \in PageRows /\ list \in PageRows /\ loaded \in BOOLEAN
    /\ fetch \in [state : {"idle", "owed", "asked", "answered"}, rows : PageRows]

DialogOK ==
    /\ dialog \in [do : DOMAIN Mutation \cup {"none"}, item : Items \cup {None}]
    /\ text \in Items \cup {None}

RestOK ==
    /\ power \in BOOLEAN /\ online \in BOOLEAN /\ acts \in 0..MaxActs
    /\ misled \subseteq Requests /\ missed \in BOOLEAN /\ seen \subseteq Faults

(* The calls of which the server has not heard, and what they and the acts   *)
(* that are left can still add to the version of a certificate.              *)
Waiting(w) == {k \in DOMAIN w : w[k].state \in {"paused", "sent", "inserted"}}
Due        == Cardinality(Waiting(calls)) + acts

Budget ==
    /\ Due <= MaxActs
    /\ page = "certs" => \A i \in Items :
          rows[i] \notin {None, Gone} => rows[i].version + Due <= MaxActs

Types == PageIs /\ DataOK /\ DialogOK /\ RestOK /\ calls \in Seq(PageCall) /\ Budget

(* The page stays the same, and so do its tables. *)
LEMMA PageStays == Next => UNCHANGED world
BY DEF Next, User, Progress, Environment, OpenDialog, ClickRow, ConfirmSite, ConfirmUser,
       CreateCert, ConfirmCert, Ask, Type, Enter, Cancel, Away, Serve, Refuse, ServeThenFail,
       Insert, Fill, Withdraw, Acted, Answer, FetchServe, FetchArrives, FetchOwed, Offline, Online, LoseList, Lose, OtherAdmin

LEMMA TablesStay ==
    ASSUME UNCHANGED world
    PROVE  /\ page' = page /\ power' = power /\ PageIs' = PageIs
           /\ Mutation' = Mutation /\ PageRow' = PageRow
           /\ PageRows' = PageRows /\ PageCall' = PageCall
BY DEF world, PageIs, Mutation, PageRow, PageRows, PageCall

(* What the types say of a call. *)
LEMMA CallParts ==
    ASSUME NEW c \in PageCall
    PROVE  /\ c.do \in DOMAIN Mutation
           /\ c.item \in Items \cup {None} /\ c.text \in Items \cup {None}
           /\ c.meant \in Items \cup {None}
           /\ c.state \in {"paused", "sent", "inserted", "done", "refused", "lost"}
           /\ c.waited \in BOOLEAN /\ c.did \in BOOLEAN /\ c.watched \in BOOLEAN
           /\ c.here \in BOOLEAN /\ c.open \in BOOLEAN
BY DEF PageCall

(* A call that the page lets go of. *)
LEMMA FrozenParts ==
    ASSUME DialogOK, NEW c \in PageCall
    PROVE  /\ Frozen(c) \in PageCall
           /\ Frozen(c).do = c.do /\ Frozen(c).meant = c.meant /\ Frozen(c).state = c.state
           /\ Frozen(c).waited = c.waited /\ Frozen(c).did = c.did /\ Frozen(c).here = c.here
           /\ ~c.watched => Frozen(c) = c
           /\ c.watched => ~Frozen(c).watched
           /\ ~Mutation[c.do].fromDialog \/ c.state # "paused" => Frozen(c).item = c.item
           /\ c.state # "paused" => Frozen(c).text = c.text
<1>1. CASE ~c.watched
  BY <1>1 DEF Frozen
<1>2. CASE c.watched
  <2> DEFINE i == IF c.state # "paused" \/ ~Mutation[c.do].fromDialog THEN c.item
                  ELSE IF DialogOf(c.do) THEN dialog.item ELSE None
             t == IF c.state = "paused" THEN text ELSE c.text
             o == DialogOf(c.do)
  <2>1. Frozen(c) = [c EXCEPT !.watched = FALSE, !.open = o, !.item = i, !.text = t]
    BY <1>2 DEF Frozen
  <2>2. i \in Items \cup {None} /\ t \in Items \cup {None}
    BY CallParts DEF DialogOK
  <2>3. o \in BOOLEAN
    BY DEF DialogOf
  <2>4. /\ ~Mutation[c.do].fromDialog \/ c.state # "paused" => i = c.item
        /\ c.state # "paused" => t = c.text
    OBVIOUS
  <2> HIDE DEF i, t, o
  <2> QED BY <1>2, <2>1, <2>2, <2>3, <2>4 DEF PageCall
<1> QED BY <1>1, <1>2, CallParts

(* A waiting call that runs when the connection is back. *)
LEMMA ResumedParts ==
    ASSUME PageIs, DialogOK, NEW c \in PageCall
    PROVE  /\ Resumed(c) \in PageCall
           /\ Resumed(c).meant = c.meant /\ Resumed(c).waited = c.waited
           /\ Resumed(c).did = c.did /\ Resumed(c).watched = c.watched
           /\ c.state # "paused" => Resumed(c) = c
           /\ c.state = "paused" => Resumed(c).state \in {"sent", "refused"}
           /\ IF c.state = "paused" /\ c.watched /\ Mutation[c.do].fromDialog
              THEN /\ Resumed(c).text = text
                   /\ Resumed(c).item = IF DialogOf(c.do) THEN dialog.item ELSE None
                   /\ Resumed(c).do = IF DialogOf(c.do) THEN dialog.do ELSE c.do
              ELSE /\ Resumed(c).text = c.text /\ Resumed(c).item = c.item
                   /\ Resumed(c).do = c.do
<1>1. CASE c.state # "paused"
  BY <1>1 DEF Resumed
<1>2. CASE c.state = "paused"
  <2> DEFINE w == c.watched /\ Mutation[c.do].fromDialog
             i == IF w THEN IF DialogOf(c.do) THEN dialog.item ELSE None ELSE c.item
             t == IF w THEN text ELSE c.text
             d == IF w /\ DialogOf(c.do) THEN dialog.do ELSE c.do
             s == IF Mutation[c.do].fromDialog /\ i = None THEN "refused" ELSE "sent"
  <2>1. Resumed(c) = [c EXCEPT !.item = i, !.text = t, !.do = d, !.state = s]
    <3>1. CASE w
      <4> DEFINE now == [c EXCEPT !.item = i, !.text = t, !.do = d]
      <4>1. Resumed(c) = [now EXCEPT !.state = IF Mutation[c.do].fromDialog /\ now.item = None
                                              THEN "refused" ELSE "sent"]
        BY <1>2, <3>1 DEF Resumed
      <4>2. now.item = i
        BY DEF PageCall
      <4> HIDE DEF i, t, d, w
      <4> QED BY <4>1, <4>2
    <3>2. CASE ~w
      <4>1. Resumed(c) = [c EXCEPT !.state = IF Mutation[c.do].fromDialog /\ c.item = None
                                             THEN "refused" ELSE "sent"]
        BY <1>2, <3>2 DEF Resumed
      <4>2. i = c.item /\ t = c.text /\ d = c.do
        BY <3>2
      <4> HIDE DEF i, t, d, w
      <4> QED BY <4>1, <4>2 DEF PageCall
    <3> QED BY <3>1, <3>2
  <2>2. i \in Items \cup {None} /\ t \in Items \cup {None} /\ s \in {"sent", "refused"}
    BY CallParts DEF DialogOK
  <2>3. d \in DOMAIN Mutation
    BY CallParts DEF DialogOK, DialogOf
  <2>4. IF w
        THEN /\ t = text /\ i = IF DialogOf(c.do) THEN dialog.item ELSE None
             /\ d = IF DialogOf(c.do) THEN dialog.do ELSE c.do
        ELSE t = c.text /\ i = c.item /\ d = c.do
    OBVIOUS
  <2>5. w <=> c.watched /\ Mutation[c.do].fromDialog
    OBVIOUS
  <2> HIDE DEF w, i, t, d, s
  <2>6. /\ Resumed(c) \in PageCall
        /\ Resumed(c).meant = c.meant /\ Resumed(c).waited = c.waited
        /\ Resumed(c).did = c.did /\ Resumed(c).watched = c.watched
        /\ Resumed(c).state = s /\ Resumed(c).text = t /\ Resumed(c).item = i
        /\ Resumed(c).do = d
    BY <2>1, <2>2, <2>3 DEF PageCall
  <2> QED BY <1>2, <2>2, <2>4, <2>5, <2>6
<1> QED BY <1>1, <1>2, CallParts

(* Sequences of calls, and how many of them wait *)

LEMMA WaitingFinite ==
    ASSUME NEW w \in Seq(PageCall)
    PROVE  /\ DOMAIN w = 1..Len(w) /\ Len(w) \in Nat
           /\ Waiting(w) \subseteq 1..Len(w)
           /\ IsFiniteSet(Waiting(w)) /\ Cardinality(Waiting(w)) \in Nat
<1>1. DOMAIN w = 1..Len(w) /\ Len(w) \in Nat
  BY LenProperties
<1>2. Waiting(w) \subseteq 1..Len(w)
  BY <1>1 DEF Waiting
<1>3. IsFiniteSet(1..Len(w))
  BY <1>1, FS_Interval
<1>4. IsFiniteSet(Waiting(w))
  BY <1>2, <1>3, FS_Subset
<1> QED BY <1>1, <1>2, <1>4, FS_CardinalityType

(* Each call replaced by one that does not wait unless it did. *)
LEMMA SameLength ==
    ASSUME NEW w \in Seq(PageCall), NEW v, v = [k \in DOMAIN w |-> v[k]],
           \A k \in 1..Len(w) : v[k] \in PageCall
    PROVE  /\ v \in Seq(PageCall) /\ Len(v) = Len(w)
           /\ (\A k \in 1..Len(w) : v[k].state \in {"paused", "sent", "inserted"} =>
                                      w[k].state \in {"paused", "sent", "inserted"})
              => Cardinality(Waiting(v)) <= Cardinality(Waiting(w))
<1>1. DOMAIN w = 1..Len(w) /\ Len(w) \in Nat
  BY LenProperties
<1>2. v \in [1..Len(w) -> PageCall]
  BY <1>1
<1>3. v \in Seq(PageCall) /\ Len(v) = Len(w)
  <2>1. v \in Seq(PageCall)
    BY <1>1, <1>2, SeqDef
  <2>2. DOMAIN v = 1..Len(v) /\ DOMAIN v = 1..Len(w) /\ Len(v) \in Nat
    BY <1>2, <2>1, LenProperties
  <2> QED BY <1>1, <2>1, <2>2
<1>4. ASSUME \A k \in 1..Len(w) : v[k].state \in {"paused", "sent", "inserted"} =>
                                    w[k].state \in {"paused", "sent", "inserted"}
      PROVE  Cardinality(Waiting(v)) <= Cardinality(Waiting(w))
  <2>1. Waiting(v) \in SUBSET Waiting(w)
    BY <1>1, <1>2, <1>4 DEF Waiting
  <2> QED BY <2>1, WaitingFinite, FS_Subset
<1> QED BY <1>3, <1>4

(* A call added at the end. *)
LEMMA OneMore ==
    ASSUME NEW w \in Seq(PageCall), NEW c \in PageCall
    PROVE  /\ Append(w, c) \in Seq(PageCall) /\ Len(Append(w, c)) = Len(w) + 1
           /\ \A k \in 1..Len(w) : Append(w, c)[k] = w[k]
           /\ Append(w, c)[Len(w) + 1] = c
           /\ Cardinality(Waiting(Append(w, c))) <= Cardinality(Waiting(w)) + 1
<1> DEFINE v == Append(w, c)
<1>1. /\ v \in Seq(PageCall) /\ Len(v) = Len(w) + 1
      /\ \A k \in 1..Len(w) : v[k] = w[k]
      /\ v[Len(w) + 1] = c
  BY AppendProperties
<1> HIDE DEF v
<1>2. DOMAIN v = 1..Len(v) /\ DOMAIN w = 1..Len(w) /\ Len(w) \in Nat
  BY <1>1, LenProperties
<1>3. Waiting(v) \in SUBSET (Waiting(w) \cup {Len(w) + 1})
  BY <1>1, <1>2 DEF Waiting
<1>4. /\ IsFiniteSet(Waiting(w) \cup {Len(w) + 1})
      /\ Cardinality(Waiting(w) \cup {Len(w) + 1}) <= Cardinality(Waiting(w)) + 1
  <2>1. IsFiniteSet(Waiting(w)) /\ Cardinality(Waiting(w)) \in Nat
    BY WaitingFinite
  <2> DEFINE n == Len(w) + 1
  <2> HIDE DEF n
  <2>2. /\ IsFiniteSet(Waiting(w) \cup {n})
        /\ Cardinality(Waiting(w) \cup {n}) =
             IF n \in Waiting(w) THEN Cardinality(Waiting(w)) ELSE Cardinality(Waiting(w)) + 1
    BY <2>1, FS_AddElement
  <2>3. Cardinality(Waiting(w) \cup {n}) <= Cardinality(Waiting(w)) + 1
    BY <2>1, <2>2
  <2> QED BY <2>2, <2>3 DEF n
<1>5. /\ Cardinality(Waiting(v)) <= Cardinality(Waiting(w) \cup {Len(w) + 1})
      /\ Cardinality(Waiting(w) \cup {Len(w) + 1}) \in Nat
      /\ Cardinality(Waiting(v)) \in Nat /\ Cardinality(Waiting(w)) \in Nat
  BY <1>1, <1>3, <1>4, WaitingFinite, FS_Subset, FS_CardinalityType
<1>6. Cardinality(Waiting(v)) <= Cardinality(Waiting(w)) + 1
  BY <1>4, <1>5
<1> QED BY <1>1, <1>6 DEF v

(* A call changed in place; one that waits no more makes room. *)
LEMMA OneChanged ==
    ASSUME NEW w \in Seq(PageCall), NEW k \in 1..Len(w), NEW c \in PageCall
    PROVE  /\ [w EXCEPT ![k] = c] \in Seq(PageCall) /\ Len([w EXCEPT ![k] = c]) = Len(w)
           /\ \A j \in 1..Len(w) : [w EXCEPT ![k] = c][j] = IF j = k THEN c ELSE w[j]
           /\ c.state \notin {"paused", "sent", "inserted"} =>
                IF w[k].state \in {"paused", "sent", "inserted"}
                THEN Cardinality(Waiting([w EXCEPT ![k] = c])) = Cardinality(Waiting(w)) - 1
                ELSE Cardinality(Waiting([w EXCEPT ![k] = c])) = Cardinality(Waiting(w))
           /\ c.state \in {"paused", "sent", "inserted"} /\ w[k].state \in {"paused", "sent", "inserted"} =>
                Cardinality(Waiting([w EXCEPT ![k] = c])) = Cardinality(Waiting(w))
<1> DEFINE v == [w EXCEPT ![k] = c]
<1>1. /\ v \in Seq(PageCall) /\ Len(v) = Len(w)
      /\ \A j \in 1..Len(w) : v[j] = IF j = k THEN c ELSE w[j]
  BY ExceptSeq, LenProperties
<1> HIDE DEF v
<1>2. DOMAIN v = 1..Len(w) /\ DOMAIN w = 1..Len(w) /\ Len(w) \in Nat
  BY <1>1, LenProperties
<1>3. ASSUME c.state \notin {"paused", "sent", "inserted"}
      PROVE  Waiting(v) = Waiting(w) \ {k}
  BY <1>1, <1>2, <1>3 DEF Waiting
<1>4. k \in Waiting(w) <=> w[k].state \in {"paused", "sent", "inserted"}
  BY <1>2 DEF Waiting
<1>5. Cardinality(Waiting(w) \ {k}) =
        IF k \in Waiting(w) THEN Cardinality(Waiting(w)) - 1 ELSE Cardinality(Waiting(w))
  BY WaitingFinite, FS_RemoveElement
<1>6. ASSUME c.state \in {"paused", "sent", "inserted"}, w[k].state \in {"paused", "sent", "inserted"}
      PROVE  Waiting(v) = Waiting(w)
  BY <1>1, <1>2, <1>6 DEF Waiting
<1> QED BY <1>1, <1>3, <1>4, <1>5, <1>6 DEF v

(* A call taken out. *)
LEMMA OneLess ==
    ASSUME NEW w \in Seq(PageCall), NEW k \in 1..Len(w)
    PROVE  Cardinality(Waiting(RemoveAt(w, k))) <= Cardinality(Waiting(w))
<1> DEFINE v == RemoveAt(w, k)
<1>0. Len(w) \in Nat
  BY LenProperties
<1>1. /\ v \in Seq(PageCall) /\ Len(v) = Len(w) - 1
      /\ \A i \in 1..(Len(w) - 1) : v[i] = w[IF i < k THEN i ELSE i + 1]
  BY ONLY RemoveAtElements, w \in Seq(PageCall), k \in 1..Len(w)
<1> DEFINE S == Waiting(v)
           T == Waiting(w)
<1>2. DOMAIN v = 1..(Len(w) - 1) /\ DOMAIN w = 1..Len(w)
  BY <1>0, <1>1, LenProperties
<1> HIDE DEF v
<1>3. \A i \in S : i \in 1..(Len(w) - 1) /\ (IF i < k THEN i ELSE i + 1) \in T
  BY <1>0, <1>1, <1>2 DEF Waiting
<1>4. IsFiniteSet(T)
  BY WaitingFinite
<1> HIDE DEF S, T
<1> DEFINE f == [i \in S |-> IF i < k THEN i ELSE i + 1]
<1>5. f \in Injection(S, T)
  <2>1. f \in [S -> T]
    BY <1>3
  <2>2. \A a, b \in S : f[a] = f[b] => a = b
    BY <1>3
  <2> HIDE DEF f
  <2> QED BY <2>1, <2>2 DEF Injection, IsInjective
<1>6. Cardinality(S) <= Cardinality(T)
  BY <1>4, <1>5, FS_Injection
<1> QED BY <1>6 DEF S, T, v

(* What the server has acted on. *)
Acts(k) == Serve(k) \/ ServeThenFail(k) \/ Insert(k) \/ Fill(k) \/ Withdraw(k)

ActedCall(c, s, i) == [c EXCEPT !.state = s, !.item = i, !.did = TRUE]

LEMMA ActedParts ==
    ASSUME NEW c \in PageCall, NEW s \in {"inserted", "done", "refused"}, NEW i \in Items \cup {None}
    PROVE  /\ ActedCall(c, s, i) \in PageCall
           /\ ActedCall(c, s, i).do = c.do /\ ActedCall(c, s, i).text = c.text
           /\ ActedCall(c, s, i).meant = c.meant /\ ActedCall(c, s, i).waited = c.waited
           /\ ActedCall(c, s, i).watched = c.watched /\ ActedCall(c, s, i).state = s
           /\ ActedCall(c, s, i).item = i /\ ActedCall(c, s, i).did
BY DEF ActedCall, PageCall

(* How far a request is after the server's step, and what of it is new. *)
LEMMA ActsParts ==
    ASSUME calls \in Seq(PageCall), NEW k \in DOMAIN calls, Acts(k)
    PROVE  \E s \in {"inserted", "done", "refused"}, i \in Items \cup {None} :
              /\ Acted(k, s, i)
              /\ s = "done" => \/ calls[k].state = "sent" /\ i = calls[k].item
                               \/ calls[k].do \in Inserts /\ i = calls[k].meant
              /\ s = "refused" => calls[k].do \in Halfway
<1>1. calls[k] \in PageCall
  BY LenProperties
<1>2. calls[k].item \in Items \cup {None} /\ calls[k].meant \in Items \cup {None}
  BY <1>1, CallParts
<1>3. CASE Serve(k)
  BY <1>2, <1>3 DEF Serve
<1>4. CASE ServeThenFail(k)
  BY <1>2, <1>4 DEF ServeThenFail, Halfway
<1>5. CASE Insert(k)
  BY <1>5 DEF Insert
<1>6. CASE Fill(k)
  BY <1>2, <1>6 DEF Fill, Halfway
<1>7. CASE Withdraw(k)
  BY <1>2, <1>7 DEF Withdraw, Halfway
<1> QED BY <1>3, <1>4, <1>5, <1>6, <1>7 DEF Acts

LEMMA ActedCalls ==
    ASSUME calls \in Seq(PageCall), NEW k \in DOMAIN calls,
           NEW s \in {"inserted", "done", "refused"}, NEW i \in Items \cup {None}, Acted(k, s, i)
    PROVE  /\ calls' = [calls EXCEPT ![k] = ActedCall(calls[k], s, i)]
           /\ calls[k] \in PageCall
<1>1. calls[k] \in PageCall
  BY LenProperties
<1>2. calls' = [calls EXCEPT ![k].state = s, ![k].item = i, ![k].did = TRUE]
  BY DEF Acted
<1>3. calls' = [calls EXCEPT ![k] = [calls[k] EXCEPT !.state = s, !.item = i, !.did = TRUE]]
  BY <1>2
<1> QED BY <1>1, <1>3 DEF ActedCall

LEMMA ActedOne ==
    ASSUME calls \in Seq(PageCall), NEW k \in DOMAIN calls,
           NEW s \in {"inserted", "done", "refused"}, NEW i \in Items \cup {None}, Acted(k, s, i)
    PROVE  \E e : /\ calls' = [calls EXCEPT ![k] = e]
                  /\ e.do = calls[k].do /\ e.text = calls[k].text /\ e.meant = calls[k].meant
                  /\ e.waited = calls[k].waited /\ e.watched = calls[k].watched
                  /\ e.state = s /\ e.item = i /\ e.did
<1>1. PICK c \in PageCall : c = calls[k]
  BY ActedCalls
<1>2. PICK e : e = ActedCall(c, s, i)
  OBVIOUS
<1>3. /\ e.do = c.do /\ e.text = c.text /\ e.meant = c.meant
      /\ e.waited = c.waited /\ e.watched = c.watched
      /\ e.state = s /\ e.item = i /\ e.did
  BY <1>2, ActedParts
<1>4. calls' = [calls EXCEPT ![k] = e]
  BY <1>1, <1>2, ActedCalls
<1> QED BY <1>1, <1>3, <1>4

(* A new call, after those of its mutation object were let go of. *)
NewCall(d, i) ==
    [do |-> d, item |-> i, text |-> text, meant |-> i,
     state |-> IF online THEN "sent" ELSE "paused", waited |-> ~online,
     did |-> FALSE, watched |-> TRUE, here |-> TRUE, open |-> FALSE]

LEMMA NewCallParts ==
    ASSUME DialogOK, online \in BOOLEAN, NEW d \in DOMAIN Mutation, NEW i \in Items \cup {None}
    PROVE  NewCall(d, i) \in PageCall
<1>1. text \in Items \cup {None}
  BY DEF DialogOK
<1> DEFINE s == IF online THEN "sent" ELSE "paused"
           w == ~online
<1>2. s \in {"paused", "sent", "inserted", "done", "refused", "lost"} /\ w \in BOOLEAN
  OBVIOUS
<1>3. NewCall(d, i) = [do |-> d, item |-> i, text |-> text, meant |-> i, state |-> s, waited |-> w,
                       did |-> FALSE, watched |-> TRUE, here |-> TRUE, open |-> FALSE]
  BY DEF NewCall
<1> HIDE DEF s, w
<1> QED BY <1>1, <1>2, <1>3 DEF PageCall

LEMMA MutateCalls ==
    ASSUME DialogOK, online \in BOOLEAN, calls \in Seq(PageCall),
           NEW d \in DOMAIN Mutation, NEW i \in Items \cup {None}, Mutate(d, i)
    PROVE  /\ calls' \in Seq(PageCall) /\ Len(calls') = Len(calls) + 1
           /\ \A k \in 1..Len(calls) :
                calls'[k] = IF Object(calls[k].do) = Object(d) THEN Frozen(calls[k]) ELSE calls[k]
           /\ calls'[Len(calls) + 1] = NewCall(d, i)
           /\ Cardinality(Waiting(calls')) <= Cardinality(Waiting(calls)) + 1
<1> DEFINE one(c) == IF Object(c.do) = Object(d) THEN Frozen(c) ELSE c
           v == [k \in DOMAIN calls |-> one(calls[k])]
<1>1. calls' = Append(v, NewCall(d, i))
  BY DEF Mutate, NewCall
<1>2. DOMAIN calls = 1..Len(calls) /\ Len(calls) \in Nat
  BY LenProperties
<1>3. \A k \in 1..Len(calls) : calls[k] \in PageCall
  BY <1>2
<1>4. \A c \in PageCall : one(c) \in PageCall /\ one(c).state = c.state
  BY FrozenParts
<1>5. \A k \in 1..Len(calls) : v[k] = one(calls[k])
  BY <1>2
<1>6. v = [k \in DOMAIN calls |-> v[k]]
  OBVIOUS
<1> HIDE DEF one
<1>7. \A k \in 1..Len(calls) : v[k] \in PageCall /\ v[k].state = calls[k].state
  BY <1>3, <1>4, <1>5
<1> HIDE DEF v
<1>8. /\ v \in Seq(PageCall) /\ Len(v) = Len(calls)
      /\ Cardinality(Waiting(v)) <= Cardinality(Waiting(calls))
  BY <1>6, <1>7, SameLength
<1>9. NewCall(d, i) \in PageCall
  BY NewCallParts
<1>10. /\ Append(v, NewCall(d, i)) \in Seq(PageCall)
       /\ Len(Append(v, NewCall(d, i))) = Len(v) + 1
       /\ \A k \in 1..Len(v) : Append(v, NewCall(d, i))[k] = v[k]
       /\ Append(v, NewCall(d, i))[Len(v) + 1] = NewCall(d, i)
       /\ Cardinality(Waiting(Append(v, NewCall(d, i)))) <= Cardinality(Waiting(v)) + 1
  BY <1>8, <1>9, OneMore
<1>11. calls' \in Seq(PageCall) /\ Len(calls') = Len(calls) + 1
  BY <1>1, <1>8, <1>10
<1>12. Cardinality(Waiting(calls')) <= Cardinality(Waiting(calls)) + 1
  <2>1. /\ Cardinality(Waiting(calls')) \in Nat /\ Cardinality(Waiting(v)) \in Nat
        /\ Cardinality(Waiting(calls)) \in Nat
    BY <1>8, <1>11, WaitingFinite
  <2>2. Cardinality(Waiting(calls')) <= Cardinality(Waiting(v)) + 1
    BY <1>1, <1>10
  <2> QED BY ONLY <1>8, <2>1, <2>2
<1>13. ASSUME NEW k \in 1..Len(calls) PROVE calls'[k] = one(calls[k])
  <2>1. Append(v, NewCall(d, i))[k] = v[k]
    BY <1>8, <1>10
  <2> QED BY <1>1, <1>5, <2>1
<1>14. calls'[Len(calls) + 1] = NewCall(d, i)
  BY <1>1, <1>8, <1>10
<1> QED BY <1>11, <1>12, <1>13, <1>14 DEF one

(* A step that leaves the rows alone. *)
LEMMA TypesKept ==
    ASSUME Types, UNCHANGED <<world, rows>>,
           list' \in PageRows, loaded' \in BOOLEAN,
           fetch' \in [state : {"idle", "owed", "asked", "answered"}, rows : PageRows],
           dialog' \in [do : DOMAIN Mutation \cup {"none"}, item : Items \cup {None}],
           text' \in Items \cup {None}, online' \in BOOLEAN, acts' \in 0..acts,
           misled' \subseteq Requests, missed' \in BOOLEAN, seen' \subseteq Faults,
           calls' \in Seq(PageCall),
           Cardinality(Waiting(calls')) + acts' <= Cardinality(Waiting(calls)) + acts
    PROVE  Types'
<1>1. /\ page' = page /\ power' = power /\ PageIs' = PageIs /\ Mutation' = Mutation
      /\ PageRow' = PageRow /\ PageRows' = PageRows /\ PageCall' = PageCall
  BY TablesStay DEF world
<1>2. /\ PageIs /\ DataOK /\ RestOK /\ calls \in Seq(PageCall) /\ Budget
  BY DEF Types
<1>3. acts \in 0..MaxActs /\ MaxActs \in Nat /\ acts' \in 0..MaxActs
  BY <1>2, BoundsAssumption DEF RestOK
<1>4. DataOK'
  BY <1>1, <1>2 DEF DataOK
<1>5. DialogOK'
  BY <1>1 DEF DialogOK
<1>6. RestOK'
  BY <1>1, <1>2, <1>3 DEF RestOK
<1>7. Due' \in Nat /\ Due \in Nat /\ Due' <= Due
  BY <1>2, <1>3, WaitingFinite DEF Due
<1>8. Budget'
  <2>1. Due' <= MaxActs
    BY <1>2, <1>3, <1>7 DEF Budget
  <2>2. ASSUME page = "certs", NEW i \in Items, rows[i] \notin {None, Gone}
        PROVE  rows[i].version + Due' <= MaxActs
    <3>1. rows[i].version \in 0..MaxActs
      BY <1>2, <2>2 DEF DataOK, PageRows, PageRow, CertRow
    <3>2. rows[i].version + Due <= MaxActs
      BY <1>2, <2>2 DEF Budget
    <3> QED BY ONLY <1>3, <1>7, <3>1, <3>2
  <2> QED BY <1>1, <2>1, <2>2 DEF Budget
<1> QED BY <1>1, <1>2, <1>4, <1>5, <1>6, <1>8 DEF Types

(* A row that a request changes, and one it creates. *)
LEMMA RowChanged ==
    ASSUME PageIs, NEW d \in DOMAIN Mutation, d \notin Creates, NEW r \in PageRow,
           page = "certs" => r.version + 1 <= MaxActs
    PROVE  /\ Changed(d, r) \in PageRow \cup {None, Gone}
           /\ page = "certs" /\ Changed(d, r) \notin {None, Gone}
                => Changed(d, r).version <= r.version + 1
<1>0. MaxActs \in Nat
  BY BoundsAssumption
<1>1. CASE page = "sites"
  <2>1. d \in SiteRequests
    BY <1>1, Tables
  <2>2. r \in SiteRow /\ PageRow = SiteRow
    BY <1>1 DEF PageRow
  <2>3. (~r.enabled) \in BOOLEAN
    OBVIOUS
  <2>4. /\ [r EXCEPT !.enabled = ~@] \in SiteRow
        /\ [r EXCEPT !.locked = TRUE] \in SiteRow /\ [r EXCEPT !.locked = FALSE] \in SiteRow
    BY <2>2, <2>3, Zenon DEF SiteRow
  <2>5. CASE d \in {"start", "stop"}
    BY <1>1, <2>2, <2>4, <2>5 DEF Changed
  <2>6. CASE d = "lock"
    BY <1>1, <2>2, <2>4, <2>6 DEF Changed
  <2>7. CASE d = "unlock"
    BY <1>1, <2>2, <2>4, <2>7 DEF Changed
  <2>8. CASE d = "remove"
    BY <1>1, <2>8 DEF Changed
  <2> QED BY <2>1, <2>5, <2>6, <2>7, <2>8 DEF SiteRequests
<1>2. CASE page = "users"
  <2>1. d \in UserRequests
    BY <1>2, Tables
  <2>2. r \in UserRow /\ PageRow = UserRow
    BY <1>2 DEF PageRow
  <2>3. /\ [r EXCEPT !.totpEnabled = FALSE] \in UserRow
        /\ [r EXCEPT !.disabled = TRUE] \in UserRow /\ [r EXCEPT !.disabled = FALSE] \in UserRow
    BY <2>2 DEF UserRow
  <2> QED BY <1>2, <2>1, <2>2, <2>3 DEF Changed, UserRequests, Creates
<1>3. CASE page = "certs"
  <2>1. d \in CertRequests
    BY <1>3, Tables
  <2>2. r \in CertRow /\ PageRow = CertRow
    BY <1>3 DEF PageRow
  <2>3. r.version \in Nat /\ r.version + 1 \in 0..MaxActs
    BY <1>0, <1>3, <2>2 DEF CertRow
  <2>4. /\ [r EXCEPT !.version = @ + 1] \in CertRow
        /\ [r EXCEPT !.version = @ + 1].version = r.version + 1
    BY <2>2, <2>3 DEF CertRow
  <2>5. CASE d \in {"renew", "update"}
    <3>1. Changed(d, r) = [r EXCEPT !.version = @ + 1]
      BY <2>5 DEF Changed
    <3>2. Changed(d, r).version <= r.version + 1
      BY <2>3, <2>4, <3>1
    <3> QED BY <1>3, <2>2, <2>4, <3>1, <3>2
  <2>6. CASE d = "remove"
    BY <1>3, <2>6 DEF Changed
  <2> QED BY <2>1, <2>5, <2>6 DEF CertRequests, Creates
<1> QED BY <1>1, <1>2, <1>3 DEF PageIs

LEMMA RowCreated ==
    ASSUME PageIs, power \in BOOLEAN, NEW d \in DOMAIN Mutation, d \in Creates,
           NEW r \in Created(d)
    PROVE  r \in PageRow /\ (page = "certs" => r.version = 0)
<1>0. 0 \in 0..MaxActs
  BY BoundsAssumption
<1>1. CASE page = "sites"
  BY <1>1, Tables DEF SiteRequests, Creates
<1>2. CASE page = "users"
  <2>1. d = "create"
    BY <1>2, Tables DEF UserRequests, Creates
  <2> QED BY <1>2, <2>1 DEF Created, PageRow, UserRow
<1>3. CASE page = "certs"
  <2>1. d \in {"createManual", "issueAcme"}
    BY <1>3, Tables DEF CertRequests, Creates
  <2> QED BY <1>0, <1>3, <2>1 DEF Created, PageRow, CertRow
<1> QED BY <1>1, <1>2, <1>3 DEF PageIs

LEMMA Sums ==
    ASSUME NEW a \in Nat, NEW b \in Nat, NEW c \in Nat, NEW m \in Nat, c + 1 <= b, a + b <= m
    PROVE  a + 1 + c <= m
OBVIOUS

(* A request done: the rows keep their types, the versions their bound. *)
LEMMA RowsDone ==
    ASSUME Types, NEW d \in DOMAIN Mutation, NEW i \in Items \cup {None},
           Accepts(d, i), Done(d, i), UNCHANGED world, Due' \in Nat, Due' + 1 <= Due
    PROVE  rows' \in PageRows /\ Budget'
<1>0. /\ PageIs /\ DataOK /\ RestOK /\ Budget /\ MaxActs \in Nat
      /\ rows \in PageRows
  BY BoundsAssumption DEF Types, DataOK
<1>1. /\ page' = page /\ PageRow' = PageRow /\ PageRows' = PageRows
  BY TablesStay
<1>2. Due \in Nat
  BY WaitingFinite, <1>0 DEF Due, Types, RestOK
<1>3. Due' <= MaxActs
  BY <1>0, <1>2 DEF Budget
<1>4. ASSUME page = "certs", NEW j \in Items, rows[j] \notin {None, Gone}
      PROVE  /\ rows[j].version \in Nat
             /\ rows[j].version + 1 + Due' <= MaxActs
  <2>1. rows[j].version \in 0..MaxActs
    BY <1>0, <1>4 DEF PageRows, PageRow, CertRow
  <2>2. rows[j].version + Due <= MaxActs
    BY <1>0, <1>4 DEF Budget
  <2>3. rows[j].version \in Nat
    BY <1>0, <2>1
  <2> QED BY <1>0, <1>2, <2>2, <2>3, Sums
<1>5. CASE d \in Creates
  <2>1. PICK j \in Items, r \in Created(d) : rows[j] = None /\ rows' = [rows EXCEPT ![j] = r]
    BY <1>5 DEF Done
  <2>2. r \in PageRow /\ (page = "certs" => r.version = 0)
    BY <1>0, <1>5, RowCreated DEF RestOK
  <2>3. rows' \in PageRows
    BY <1>0, <2>1, <2>2 DEF PageRows
  <2>4. ASSUME page = "certs", NEW m \in Items, rows'[m] \notin {None, Gone}
        PROVE  rows'[m].version + Due' <= MaxActs
    <3>1. CASE m = j
      <4>1. rows'[m].version = 0
        BY <1>0, <2>1, <2>2, <2>4, <3>1 DEF PageRows
      <4> QED BY <1>3, <4>1
    <3>2. CASE m # j
      <4>1. rows'[m] = rows[m]
        BY <1>0, <2>1, <3>2 DEF PageRows
      <4> QED BY <1>4, <2>4, <4>1, <1>0
    <3> QED BY <3>1, <3>2
  <2> QED BY <1>1, <1>3, <2>3, <2>4 DEF Budget
<1>6. CASE d \notin Creates
  <2>1. rows' = [rows EXCEPT ![i] = Changed(d, rows[i])] /\ rows[i] \notin {None, Gone}
    BY <1>6 DEF Done, Accepts
  <2>2. CASE i \in Items
    <3>1. rows[i] \in PageRow
      BY <1>0, <2>1, <2>2 DEF PageRows
    <3>2. page = "certs" => rows[i].version + 1 <= MaxActs
      BY <1>0, <1>4, <2>1, <2>2
    <3>3. /\ Changed(d, rows[i]) \in PageRow \cup {None, Gone}
          /\ page = "certs" /\ Changed(d, rows[i]) \notin {None, Gone}
               => Changed(d, rows[i]).version <= rows[i].version + 1
      BY <1>0, <1>6, <3>1, <3>2, RowChanged
    <3> DEFINE c == Changed(d, rows[i])
    <3>4. rows' = [rows EXCEPT ![i] = c]
      BY <2>1
    <3> HIDE DEF c
    <3>5. rows' \in PageRows
      BY <1>0, <3>3, <3>4 DEF PageRows, c
    <3>6. ASSUME page = "certs", NEW m \in Items, rows'[m] \notin {None, Gone}
          PROVE  rows'[m].version + Due' <= MaxActs
      <4>1. CASE m = i
        <5>1. rows'[m] = c
          BY <1>0, <2>2, <3>4, <4>1 DEF PageRows
        <5>2. rows'[m] \in CertRow
          BY <3>5, <3>6 DEF PageRows, PageRow
        <5>3. rows'[m].version \in 0..MaxActs
          BY <5>2 DEF CertRow
        <5>4. rows'[m].version <= rows[i].version + 1
          BY <3>3, <3>6, <5>1 DEF c
        <5>5. rows[i].version \in Nat /\ rows[i].version + 1 + Due' <= MaxActs
          BY <1>4, <2>1, <2>2, <3>6
        <5> QED BY ONLY <5>3, <5>4, <5>5, <1>0, Due' \in Nat
      <4>2. CASE m # i
        <5>1. rows'[m] = rows[m]
          BY <1>0, <3>4, <4>2 DEF PageRows
        <5>2. rows[m].version \in Nat /\ rows[m].version + 1 + Due' <= MaxActs
          BY <1>4, <3>6, <5>1
        <5> QED BY <1>0, <5>1, <5>2
      <4> QED BY <4>1, <4>2
    <3> QED BY <1>1, <1>3, <3>5, <3>6 DEF Budget
  <2>3. CASE i \notin Items
    <3>1. rows' = rows
      BY <1>0, <2>1, <2>3 DEF PageRows
    <3>2. ASSUME page = "certs", NEW m \in Items, rows'[m] \notin {None, Gone}
          PROVE  rows'[m].version + Due' <= MaxActs
      <4>1. rows[m].version \in Nat /\ rows[m].version + 1 + Due' <= MaxActs
        BY <1>4, <3>1, <3>2
      <4> QED BY <1>0, <3>1, <4>1
    <3> QED BY <1>0, <1>1, <1>3, <3>1, <3>2 DEF Budget
  <2> QED BY <2>2, <2>3
<1> QED BY <1>5, <1>6

(* One row set to another, whose version leaves room for what is due. *)
LEMMA RowsSet ==
    ASSUME Types, NEW i \in Items \cup {None}, NEW c, i \in Items => c \in PageRow \cup {None, Gone},
           rows' = [rows EXCEPT ![i] = c], UNCHANGED world, Due' \in Nat, Due' <= Due,
           i \in Items /\ page = "certs" /\ c \notin {None, Gone} => c.version + Due' <= MaxActs
    PROVE  rows' \in PageRows /\ Budget'
<1>0. /\ PageIs /\ DataOK /\ RestOK /\ Budget /\ MaxActs \in Nat
      /\ rows \in PageRows
  BY BoundsAssumption DEF Types, DataOK
<1>1. /\ page' = page /\ PageRow' = PageRow /\ PageRows' = PageRows
  BY TablesStay
<1>2. Due \in Nat
  BY WaitingFinite, <1>0 DEF Due, Types, RestOK
<1>3. Due' <= MaxActs
  BY <1>0, <1>2 DEF Budget
<1>4. rows' \in PageRows
  <2>1. CASE i \in Items
    BY <1>0, <2>1 DEF PageRows
  <2>2. CASE i \notin Items
    BY <1>0, <2>2 DEF PageRows
  <2> QED BY <2>1, <2>2
<1>5. ASSUME page = "certs", NEW m \in Items, rows'[m] \notin {None, Gone}
      PROVE  rows'[m].version + Due' <= MaxActs
  <2>1. CASE m = i
    <3>1. rows'[m] = c
      BY <1>0, <2>1 DEF PageRows
    <3> QED BY <1>5, <2>1, <3>1
  <2>2. CASE m # i
    <3>1. rows'[m] = rows[m]
      BY <1>0, <2>2 DEF PageRows
    <3>2. rows[m].version \in 0..MaxActs
      BY <1>0, <1>5, <3>1 DEF PageRows, PageRow, CertRow
    <3>3. rows[m].version + Due <= MaxActs
      BY <1>0, <1>5, <3>1 DEF Budget
    <3> QED BY ONLY <1>0, <1>2, <3>1, <3>2, <3>3, Due' \in Nat, Due' <= Due
  <2> QED BY <2>1, <2>2
<1> QED BY <1>1, <1>3, <1>4, <1>5 DEF Budget

(* Faults are only added, acts only spent. *)
LEMMA Drift ==
    ASSUME Next, RestOK
    PROVE  seen \subseteq seen' /\ seen' \subseteq Faults /\ acts' \in 0..acts
<1>1. UNCHANGED seen \/ \E f \in Faults : seen' = seen \cup {f}
  <2>1. ASSUME NEW b, NEW f, If(b, f)
        PROVE  UNCHANGED seen \/ \E g \in Faults : seen' = seen \cup {g}
    BY <2>1 DEF If, Happens
  <2>2. ASSUME NEW f, Happens(f)
        PROVE  UNCHANGED seen \/ \E g \in Faults : seen' = seen \cup {g}
    BY <2>2 DEF Happens
  <2>3. CASE User
    BY <2>1, <2>2, <2>3 DEF User, OpenDialog, ClickRow, ConfirmSite, ConfirmUser, CreateCert,
           ConfirmCert, Ask, Type, Enter, Cancel, Away
  <2>4. CASE Progress
    BY <2>4 DEF Progress, Serve, Refuse, ServeThenFail, Insert, Fill, Withdraw, Acted, Answer, FetchServe,
           FetchArrives, FetchOwed
  <2>5. CASE Environment
    BY <2>1, <2>2, <2>5 DEF Environment, Offline, Online, LoseList, Lose, OtherAdmin
  <2> QED BY <2>3, <2>4, <2>5 DEF Next
<1>2. acts' = acts \/ (acts > 0 /\ acts' = acts - 1)
  <2>1. CASE User
    BY <2>1 DEF User, OpenDialog, ClickRow, ConfirmSite, ConfirmUser, CreateCert, ConfirmCert,
           Ask, Type, Enter, Cancel, Away, Act
  <2>2. CASE Progress
    BY <2>2 DEF Progress, Serve, Refuse, ServeThenFail, Insert, Fill, Withdraw, Acted, Answer, FetchServe,
           FetchArrives, FetchOwed
  <2>3. CASE Environment
    BY <2>3 DEF Environment, Offline, Online, LoseList, Lose, OtherAdmin, Act
  <2> QED BY <2>1, <2>2, <2>3 DEF Next
<1>3. acts \in Nat
  BY BoundsAssumption DEF RestOK
<1> QED BY <1>1, <1>2, <1>3 DEF RestOK

LEMMA AskedType ==
    ASSUME DataOK
    PROVE  Asked \in [state : {"idle", "owed", "asked", "answered"}, rows : PageRows]
BY DEF Asked, DataOK

(* A call of which one field, or two, are set. *)
LEMMA CallSet ==
    ASSUME NEW c \in PageCall, NEW s \in {"paused", "sent", "inserted", "done", "refused", "lost"}
    PROVE  /\ [c EXCEPT !.state = s] \in PageCall /\ [c EXCEPT !.state = s].state = s
           /\ [c EXCEPT !.state = s, !.did = TRUE] \in PageCall
           /\ [c EXCEPT !.state = s, !.did = TRUE].state = s
BY DEF PageCall

LEMMA AwayCalls ==
    ASSUME DialogOK, NEW c \in PageCall
    PROVE  /\ [Frozen(c) EXCEPT !.here = FALSE] \in PageCall
           /\ [Frozen(c) EXCEPT !.here = FALSE].state = c.state
<1>1. Frozen(c) \in PageCall /\ Frozen(c).state = c.state
  BY FrozenParts
<1> QED BY <1>1 DEF PageCall

(* A mutation is asked for. *)
LEMMA TypesMutate ==
    ASSUME Types, Next, Act, NEW d \in DOMAIN Mutation, NEW i \in Items \cup {None}, Mutate(d, i),
           UNCHANGED <<world, rows, query, text, online, misled, missed>>,
           dialog' \in [do : DOMAIN Mutation \cup {"none"}, item : Items \cup {None}]
    PROVE  Types'
<1>1. /\ calls' \in Seq(PageCall)
      /\ Cardinality(Waiting(calls')) <= Cardinality(Waiting(calls)) + 1
  BY MutateCalls DEF Types, RestOK
<1>2. Cardinality(Waiting(calls')) \in Nat /\ Cardinality(Waiting(calls)) \in Nat
  BY <1>1, WaitingFinite DEF Types
<1>3. seen' \subseteq Faults /\ acts' \in 0..acts
  BY Drift DEF Types
<1>4. acts \in Nat /\ acts' = acts - 1
  BY BoundsAssumption DEF Act, Types, RestOK
<1>5. Cardinality(Waiting(calls')) + acts' <= Cardinality(Waiting(calls)) + acts
  BY ONLY <1>1, <1>2, <1>4
<1> QED BY <1>1, <1>3, <1>5, TypesKept DEF Types, DataOK, DialogOK, RestOK, query, world

(* A step that leaves the calls alone as well as the rows. *)
LEMMA TypesQuiet ==
    ASSUME Types, Next, UNCHANGED <<world, rows, calls>>,
           list' \in PageRows, loaded' \in BOOLEAN,
           fetch' \in [state : {"idle", "owed", "asked", "answered"}, rows : PageRows],
           dialog' \in [do : DOMAIN Mutation \cup {"none"}, item : Items \cup {None}],
           text' \in Items \cup {None}, online' \in BOOLEAN,
           misled' \subseteq Requests, missed' \in BOOLEAN
    PROVE  Types'
<1>1. seen' \subseteq Faults /\ acts' \in 0..acts
  BY Drift DEF Types
<1>2. Cardinality(Waiting(calls)) \in Nat /\ acts \in Nat
  BY WaitingFinite, BoundsAssumption DEF Types, RestOK
<1>3. Cardinality(Waiting(calls')) + acts' <= Cardinality(Waiting(calls)) + acts
  BY <1>1, <1>2
<1> QED BY <1>1, <1>3, TypesKept DEF Types

(* A step that changes calls, or takes one out, and no row. *)
LEMMA TypesCalls ==
    ASSUME Types, Next, UNCHANGED <<world, rows, list, loaded>>,
           calls' \in Seq(PageCall),
           Cardinality(Waiting(calls')) <= Cardinality(Waiting(calls)),
           fetch' \in [state : {"idle", "owed", "asked", "answered"}, rows : PageRows],
           dialog' \in [do : DOMAIN Mutation \cup {"none"}, item : Items \cup {None}],
           text' \in Items \cup {None}, online' \in BOOLEAN,
           misled' \subseteq Requests, missed' \in BOOLEAN
    PROVE  Types'
<1>1. seen' \subseteq Faults /\ acts' \in 0..acts
  BY Drift DEF Types
<1>2. /\ Cardinality(Waiting(calls)) \in Nat /\ acts \in Nat
      /\ Cardinality(Waiting(calls')) \in Nat
  BY WaitingFinite, BoundsAssumption DEF Types, RestOK
<1>3. Cardinality(Waiting(calls')) + acts' <= Cardinality(Waiting(calls)) + acts
  BY <1>1, <1>2
<1> QED BY <1>1, <1>3, TypesKept DEF Types, DataOK

LEMMA TypesUser == Types /\ User => Types'
<1> SUFFICES ASSUME Types, User PROVE Types'
  OBVIOUS
<1> USE DEF Types
<1>0. Next /\ UNCHANGED world
  BY PageStays DEF Next
<1>1. NoDialog \in [do : DOMAIN Mutation \cup {"none"}, item : Items \cup {None}]
  BY DEF NoDialog
<1>2. ASSUME NEW d \in DOMAIN Mutation, NEW i \in Items \cup {None}, OpenDialog(d, i) PROVE Types'
  <2>1. dialog' \in [do : DOMAIN Mutation \cup {"none"}, item : Items \cup {None}]
    BY <1>2 DEF OpenDialog
  <2>2. text' \in Items \cup {None}
    <3>1. d = "update" => i \in Items
      BY <1>2 DEF OpenDialog, HeaderButtons, PageIs
    <3> QED BY <1>2, <3>1 DEF OpenDialog, DialogOK
  <2> QED BY <1>0, <1>2, <2>1, <2>2, TypesQuiet DEF OpenDialog, query, DataOK, RestOK
<1>3. ASSUME NEW d \in DOMAIN Mutation, NEW i \in Items, ClickRow(d, i) PROVE Types'
  <2>1. Mutate(d, i) /\ Act
    BY <1>3 DEF ClickRow
  <2> QED BY <1>0, <1>3, <2>1, TypesMutate DEF ClickRow, DialogOK
<1>4. ASSUME Ask, dialog.do # "none", dialog' \in {dialog, NoDialog} PROVE Types'
  <2>1. dialog.do \in DOMAIN Mutation /\ dialog.item \in Items \cup {None}
    BY <1>4 DEF DialogOK
  <2>2. dialog' \in [do : DOMAIN Mutation \cup {"none"}, item : Items \cup {None}]
    BY <1>1, <1>4 DEF DialogOK
  <2>3. Act /\ Mutate(dialog.do, dialog.item)
    BY <1>4 DEF Ask
  <2> QED BY <1>0, <1>4, <2>1, <2>2, <2>3, TypesMutate DEF Ask
<1>5. CASE ConfirmSite \/ ConfirmUser \/ CreateCert \/ ConfirmCert
  BY <1>4, <1>5 DEF ConfirmSite, ConfirmUser, CreateCert, ConfirmCert, Enabled
<1>6. CASE Type
  <2>1. text' \in Items \cup {None}
    BY <1>6 DEF Type, DialogOK
  <2> QED BY <1>0, <1>6, <2>1, TypesQuiet DEF Type, query, DataOK, DialogOK, RestOK
<1>7. CASE Enter
  <2>1. dialog.do \in DOMAIN Mutation /\ dialog.item \in Items \cup {None}
    BY <1>7 DEF DialogOK, Enter
  <2>2. Act /\ Mutate(dialog.do, dialog.item)
    BY <1>7 DEF Enter
  <2> QED BY <1>0, <1>7, <2>1, <2>2, TypesMutate DEF Enter, DialogOK
<1>8. CASE Cancel
  <2>1. text' \in Items \cup {None}
    BY <1>8 DEF Cancel, DialogOK
  <2> QED BY <1>0, <1>1, <1>8, <2>1, TypesQuiet DEF Cancel, query, DataOK, RestOK
<1>9. CASE Away
  <2>1. calls' = [k \in DOMAIN calls |-> [Frozen(calls[k]) EXCEPT !.here = FALSE]]
    BY <1>9 DEF Away
  <2>2. DOMAIN calls = 1..Len(calls)
    BY LenProperties
  <2>3. ASSUME NEW k \in 1..Len(calls)
        PROVE  calls'[k] \in PageCall /\ calls'[k].state = calls[k].state
    <3>1. calls[k] \in PageCall
      BY <2>2
    <3>2. calls'[k] = [Frozen(calls[k]) EXCEPT !.here = FALSE]
      BY <2>1, <2>2
    <3>3. /\ [Frozen(calls[k]) EXCEPT !.here = FALSE] \in PageCall
          /\ [Frozen(calls[k]) EXCEPT !.here = FALSE].state = calls[k].state
      BY <3>1, AwayCalls
    <3> QED BY <3>2, <3>3
  <2>4. /\ calls' \in Seq(PageCall)
        /\ Cardinality(Waiting(calls')) <= Cardinality(Waiting(calls))
    <3>1. calls' = [k \in DOMAIN calls |-> calls'[k]]
      BY <2>1
    <3> QED BY <2>3, <3>1, SameLength
  <2>5. fetch' \in [state : {"idle", "owed", "asked", "answered"}, rows : PageRows]
    BY <1>9, AskedType DEF Away, DataOK
  <2>6. /\ dialog' \in [do : DOMAIN Mutation \cup {"none"}, item : Items \cup {None}]
        /\ text' \in Items \cup {None}
    BY <1>9 DEF Away, DialogOK
  <2> QED BY <1>0, <1>9, <2>4, <2>5, <2>6, TypesCalls DEF Away, RestOK
<1> QED BY <1>2, <1>3, <1>5, <1>6, <1>7, <1>8, <1>9 DEF User

(* The server acts: no more is due than before, and less unless a row was    *)
(* only inserted; the rest is a matter of the rows.                          *)
LEMMA ActedDue ==
    ASSUME Types, NEW k \in DOMAIN calls, calls[k].state \in {"sent", "inserted"},
           NEW s \in {"inserted", "done", "refused"}, NEW i \in Items \cup {None}, Acted(k, s, i)
    PROVE  /\ Due' \in Nat /\ Due \in Nat /\ Due' <= Due /\ Due <= MaxActs
           /\ s # "inserted" => Due' + 1 <= Due
           /\ UNCHANGED world
           /\ rows' \in PageRows /\ Budget' => Types'
<1>1. /\ calls \in Seq(PageCall) /\ DOMAIN calls = 1..Len(calls) /\ k \in 1..Len(calls)
      /\ calls[k] \in PageCall
  BY LenProperties DEF Types
<1>2. PICK e \in PageCall : calls' = [calls EXCEPT ![k] = e] /\ e.state = s
  <2>1. PICK c \in PageCall : c = calls[k]
    BY <1>1
  <2>2. ActedCall(c, s, i) \in PageCall /\ ActedCall(c, s, i).state = s
    BY ActedParts
  <2>3. calls' = [calls EXCEPT ![k] = ActedCall(c, s, i)]
    BY <1>1, <2>1, ActedCalls
  <2> QED BY <2>2, <2>3
<1>3. calls' \in Seq(PageCall)
  BY <1>1, <1>2, OneChanged
<1>4. Cardinality(Waiting(calls')) =
        IF s = "inserted" THEN Cardinality(Waiting(calls)) ELSE Cardinality(Waiting(calls)) - 1
  BY <1>1, <1>2, OneChanged
<1>5. acts' = acts /\ acts \in Nat
  BY BoundsAssumption DEF Acted, Types, RestOK
<1>6. Cardinality(Waiting(calls')) \in Nat /\ Cardinality(Waiting(calls)) \in Nat
  BY <1>1, <1>3, WaitingFinite
<1>7. Due' \in Nat /\ Due \in Nat /\ Due' <= Due /\ (s # "inserted" => Due' + 1 <= Due)
  BY <1>4, <1>5, <1>6 DEF Due
<1>8. Due <= MaxActs
  BY DEF Types, Budget
<1>9. UNCHANGED world
  BY DEF Acted
<1>10. ASSUME rows' \in PageRows, Budget' PROVE Types'
  <2>1. /\ page' = page /\ power' = power /\ PageIs' = PageIs /\ Mutation' = Mutation
        /\ PageRows' = PageRows /\ PageCall' = PageCall
    BY <1>9, TablesStay
  <2>2. DataOK'
    BY <1>10, <2>1 DEF Acted, Types, DataOK, query
  <2>3. DialogOK' /\ RestOK'
    BY <2>1 DEF Acted, Types, DialogOK, RestOK
  <2> QED BY <1>3, <1>10, <2>1, <2>2, <2>3 DEF Types
<1> QED BY <1>7, <1>8, <1>9, <1>10

LEMMA LessDue ==
    ASSUME NEW b \in Nat, NEW c \in Nat, NEW m \in Nat, c + 1 <= b, b <= m
    PROVE  /\ c <= b
           /\ \A v \in 0..m : v + b <= m => v + 1 \in 0..m /\ v + 1 + c <= m
           /\ \A v \in 0..m : v + b <= m => v + c <= m
           /\ 1 + c <= m /\ 1 \in 0..m
OBVIOUS

LEMMA TypesActs ==
    ASSUME Types, NEW k \in DOMAIN calls, Acts(k)
    PROVE  Types'
<1>0. /\ PageIs /\ MaxActs \in Nat /\ rows \in PageRows
      /\ calls[k].do \in DOMAIN Mutation
      /\ calls[k].item \in Items \cup {None} /\ calls[k].meant \in Items \cup {None}
  <2>1. calls[k] \in PageCall
    BY LenProperties DEF Types
  <2> QED BY <2>1, CallParts, BoundsAssumption DEF Types, DataOK
<1>1. CASE Serve(k) \/ ServeThenFail(k)
  <2>1. /\ Accepts(calls[k].do, calls[k].item) /\ Done(calls[k].do, calls[k].item)
        /\ calls[k].state \in {"sent", "inserted"}
    BY <1>1 DEF Serve, ServeThenFail
  <2>2. PICK s \in {"done", "refused"} : Acted(k, s, calls[k].item)
    BY <1>1 DEF Serve, ServeThenFail
  <2>3. /\ Due' \in Nat /\ Due' + 1 <= Due /\ UNCHANGED world
        /\ rows' \in PageRows /\ Budget' => Types'
    BY <1>0, <2>1, <2>2, ActedDue
  <2> QED BY <1>0, <2>1, <2>3, RowsDone
<1>2. CASE Insert(k)
  <2>1. PICK j \in Items, r \in Created(calls[k].do) :
           rows' = [rows EXCEPT ![j] = r] /\ Acted(k, "inserted", j)
    BY <1>2 DEF Insert
  <2>2. /\ Due' \in Nat /\ Due \in Nat /\ Due' <= Due /\ Due <= MaxActs /\ UNCHANGED world
        /\ rows' \in PageRows /\ Budget' => Types'
    BY <1>2, <2>1, ActedDue DEF Insert
  <2>3. r \in PageRow /\ (page = "certs" => r.version = 0)
    BY <1>0, <1>2, RowCreated DEF Insert, Inserts, Creates, Types, RestOK
  <2>4. page = "certs" => r.version + Due' <= MaxActs
    BY <1>0, <2>2, <2>3
  <2> QED BY <2>1, <2>2, <2>3, <2>4, RowsSet
<1>3. CASE Fill(k)
  <2>1. page = "certs" /\ PageRow = CertRow /\ calls[k].state \in {"sent", "inserted"}
    BY <1>0, <1>3, Tables DEF Fill, Inserts, PageIs, SiteRequests, UserRequests, PageRow
  <2>2. PICK s \in {"done", "refused"} : Acted(k, s, calls[k].meant)
    BY <1>3 DEF Fill
  <2>3. UNCHANGED world /\ (rows' \in PageRows /\ Budget' => Types')
    BY <1>0, <2>1, <2>2, ActedDue
  <2>7. Due' \in Nat /\ Due \in Nat /\ Due' + 1 <= Due /\ Due <= MaxActs
    BY <1>0, <2>1, <2>2, ActedDue
  <2>6. /\ Due' <= Due
        /\ \A v \in 0..MaxActs : v + Due <= MaxActs => v + 1 \in 0..MaxActs /\ v + 1 + Due' <= MaxActs
        /\ \A v \in 0..MaxActs : v + Due <= MaxActs => v + Due' <= MaxActs
        /\ 1 + Due' <= MaxActs /\ 1 \in 0..MaxActs
    BY <1>0, <2>7, LessDue
  <2> DEFINE i == calls[k].item
             n == IF rows' = rows THEN rows[i] ELSE Stored(calls[k].do, rows[i])
  <2>4. rows' = [rows EXCEPT ![i] = n]
    <3>1. CASE rows' = rows
      BY <1>0, <3>1 DEF PageRows
    <3>2. CASE rows' # rows
      BY <1>3, <3>2 DEF Fill
    <3> QED BY <3>1, <3>2
  <2>5. ASSUME i \in Items
        PROVE  /\ n \in PageRow \cup {None, Gone}
               /\ n \notin {None, Gone} => n.version + Due' <= MaxActs
    <3>1. rows[i] \in CertRow \cup {None, Gone}
      BY <1>0, <2>1, <2>5 DEF PageRows
    <3>2. rows[i] \notin {None, Gone} =>
             rows[i].version \in 0..MaxActs /\ rows[i].version + Due <= MaxActs
      BY <2>1, <2>5, <3>1 DEF CertRow, Types, Budget
    <3>3. CASE rows' = rows
      <4>1. n = rows[i]
        BY <3>3
      <4>2. rows[i] \notin {None, Gone} => rows[i].version + Due' <= MaxActs
        BY <2>6, <3>2
      <4> QED BY <2>1, <3>1, <4>1, <4>2
    <3>4. CASE rows' # rows /\ rows[i] \in {None, Gone}
      <4>1. n = [source |-> IF calls[k].do = "issueAcme" THEN "acme" ELSE "manual", version |-> 1]
        BY <3>4 DEF Stored
      <4>2. n.version = 1 /\ n \in CertRow
        BY <2>6, <4>1 DEF CertRow
      <4> QED BY <2>1, <2>6, <4>2
    <3>5. CASE rows' # rows /\ rows[i] \notin {None, Gone}
      <4>1. PICK r \in CertRow : r = rows[i]
        BY <3>1, <3>5
      <4>2. n = [r EXCEPT !.version = @ + 1]
        BY <3>5, <4>1 DEF Stored
      <4>3. r.version \in 0..MaxActs /\ r.version + Due <= MaxActs
        BY <3>2, <3>5, <4>1
      <4>4. r.version + 1 + Due' <= MaxActs /\ r.version + 1 \in 0..MaxActs
        BY <2>6, <4>3
      <4>5. n.version = r.version + 1 /\ n \in CertRow
        BY <4>2, <4>4 DEF CertRow
      <4> QED BY <2>1, <4>4, <4>5
    <3> QED BY <3>3, <3>4, <3>5
  <2> HIDE DEF n
  <2> QED BY <1>0, <2>3, <2>4, <2>5, <2>6, <2>7, RowsSet
<1>4. CASE Withdraw(k)
  <2>1. /\ rows' = [rows EXCEPT ![calls[k].item] = Gone] /\ Acted(k, "refused", calls[k].meant)
        /\ calls[k].state \in {"sent", "inserted"}
    BY <1>4 DEF Withdraw
  <2>2. /\ Due' \in Nat /\ Due' <= Due /\ UNCHANGED world
        /\ rows' \in PageRows /\ Budget' => Types'
    BY <1>0, <2>1, ActedDue
  <2> QED BY <1>0, <2>1, <2>2, RowsSet
<1> QED BY <1>1, <1>2, <1>3, <1>4 DEF Acts

LEMMA TypesProgress == Types /\ Progress => Types'
<1> SUFFICES ASSUME Types, Progress PROVE Types'
  OBVIOUS
<1> USE DEF Types
<1>0. Next /\ UNCHANGED world
  BY PageStays DEF Next
<1>1. DOMAIN calls = 1..Len(calls) /\ \A k \in 1..Len(calls) : calls[k] \in PageCall
  BY LenProperties
<1>2. ASSUME NEW k \in DOMAIN calls, Acts(k) PROVE Types'
  BY <1>2, TypesActs
<1>3. ASSUME NEW k \in DOMAIN calls, NEW s \in {"refused", "lost"},
             calls' = [calls EXCEPT ![k].state = s]
      PROVE  /\ calls' \in Seq(PageCall)
             /\ Cardinality(Waiting(calls')) <= Cardinality(Waiting(calls))
  <2> DEFINE c == [calls[k] EXCEPT !.state = s]
  <2>1. k \in 1..Len(calls) /\ c \in PageCall /\ c.state = s
    <3>1. k \in 1..Len(calls) /\ calls[k] \in PageCall
      BY <1>1
    <3>2. s \in {"paused", "sent", "inserted", "done", "refused", "lost"}
      OBVIOUS
    <3> QED BY ONLY <3>1, <3>2, CallSet
  <2>2. calls' = [calls EXCEPT ![k] = c]
    BY <1>3
  <2> HIDE DEF c
  <2>3. calls' \in Seq(PageCall)
    BY <2>1, <2>2, OneChanged
  <2>4. Cardinality(Waiting(calls')) \in {Cardinality(Waiting(calls)) - 1, Cardinality(Waiting(calls))}
    BY <2>1, <2>2, OneChanged
  <2>5. Cardinality(Waiting(calls')) \in Nat /\ Cardinality(Waiting(calls)) \in Nat
    BY <2>3, WaitingFinite
  <2> QED BY <2>3, <2>4, <2>5
<1>4. ASSUME NEW k \in DOMAIN calls, Refuse(k) PROVE Types'
  <2>1. calls' = [calls EXCEPT ![k].state = "refused"]
    BY <1>4 DEF Refuse
  <2> QED BY <1>0, <1>3, <1>4, <2>1, TypesCalls DEF Refuse, query, DataOK, DialogOK, RestOK
<1>5. ASSUME NEW k \in DOMAIN calls, Answer(k) PROVE Types'
  <2>1. k \in 1..Len(calls) /\ calls[k] \in PageCall
    BY <1>1
  <2>2. calls' = RemoveAt(calls, k) /\ UNCHANGED <<world, rows, list, loaded, online>>
    BY <1>5 DEF Answer
  <2>3. /\ calls' \in Seq(PageCall)
        /\ Cardinality(Waiting(calls')) <= Cardinality(Waiting(calls))
    BY <2>1, <2>2, RemoveAtElements, OneLess
  <2>4. calls[k].do \in Requests
    BY <2>1, CallParts, Tables
  <2>5. fetch' \in [state : {"idle", "owed", "asked", "answered"}, rows : PageRows]
    BY <1>5, AskedType DEF Answer, Success, Failure, DataOK
  <2>6. /\ dialog' \in [do : DOMAIN Mutation \cup {"none"}, item : Items \cup {None}]
        /\ text' \in Items \cup {None}
    BY <1>5 DEF Answer, Success, Failure, DialogOK, NoDialog
  <2>7. misled' \subseteq Requests
    BY <1>5, <2>4 DEF Answer, Success, Failure, RestOK
  <2>8. missed' \in BOOLEAN
    <3>1. CASE Success(k)
      BY <3>1, Zenon DEF Success
    <3>2. CASE Failure(k)
      BY <3>2, Zenon DEF Failure
    <3> QED BY <1>5, <3>1, <3>2 DEF Answer
  <2>9. online' \in BOOLEAN
    BY <2>2 DEF RestOK
  <2> QED BY <1>0, <2>2, <2>3, <2>5, <2>6, <2>7, <2>8, <2>9, TypesCalls
<1>6. CASE FetchServe
  BY <1>0, <1>6, TypesQuiet DEF FetchServe, DataOK, DialogOK, RestOK
<1>7. CASE FetchArrives
  BY <1>0, <1>7, TypesQuiet DEF FetchArrives, DataOK, DialogOK, RestOK
<1>8. CASE FetchOwed
  BY <1>0, <1>8, TypesQuiet DEF FetchOwed, DataOK, DialogOK, RestOK
<1> QED BY <1>2, <1>4, <1>5, <1>6, <1>7, <1>8 DEF Progress, Acts

LEMMA TypesEnvironment == Types /\ Environment => Types'
<1> SUFFICES ASSUME Types, Environment PROVE Types'
  OBVIOUS
<1> USE DEF Types
<1>0. Next /\ UNCHANGED world
  BY PageStays DEF Next
<1>1. DOMAIN calls = 1..Len(calls) /\ \A k \in 1..Len(calls) : calls[k] \in PageCall
  BY LenProperties
<1>2. CASE Offline
  BY <1>0, <1>2, TypesQuiet DEF Offline, query, DataOK, DialogOK, RestOK
<1>3. CASE LoseList
  BY <1>0, <1>3, TypesQuiet DEF LoseList, DataOK, DialogOK, RestOK
<1>4. CASE Online
  <2>1. calls' = [k \in DOMAIN calls |-> Resumed(calls[k])]
    BY <1>4 DEF Online
  <2>2. ASSUME NEW k \in 1..Len(calls)
        PROVE  /\ calls'[k] \in PageCall
               /\ calls'[k].state \in {"paused", "sent", "inserted"} => calls[k].state \in {"paused", "sent", "inserted"}
    <3>1. calls'[k] = Resumed(calls[k])
      BY <1>1, <2>1
    <3> QED BY <1>1, <3>1, ResumedParts
  <2>3. /\ calls' \in Seq(PageCall)
        /\ Cardinality(Waiting(calls')) <= Cardinality(Waiting(calls))
    <3>1. calls' = [k \in DOMAIN calls |-> calls'[k]]
      BY <2>1
    <3> QED BY <2>2, <3>1, SameLength
  <2> QED BY <1>0, <1>4, <2>3, TypesCalls DEF Online, DataOK, DialogOK, RestOK
<1>5. ASSUME NEW k \in DOMAIN calls, Lose(k) PROVE Types'
  <2> DEFINE c == [calls[k] EXCEPT !.state = "lost"]
  <2>1. k \in 1..Len(calls) /\ c \in PageCall /\ c.state = "lost"
    BY <1>1, CallSet
  <2>2. calls' = [calls EXCEPT ![k] = c]
    BY <1>5 DEF Lose
  <2> HIDE DEF c
  <2>3. calls' \in Seq(PageCall)
    BY <2>1, <2>2, OneChanged
  <2>4. Cardinality(Waiting(calls')) \in {Cardinality(Waiting(calls)) - 1, Cardinality(Waiting(calls))}
    BY <2>1, <2>2, OneChanged
  <2>5. Cardinality(Waiting(calls')) \in Nat /\ Cardinality(Waiting(calls)) \in Nat
    BY <2>3, WaitingFinite
  <2>6. Cardinality(Waiting(calls')) <= Cardinality(Waiting(calls))
    BY <2>4, <2>5
  <2> QED BY <1>0, <1>5, <2>3, <2>6, TypesCalls DEF Lose, query, DataOK, DialogOK, RestOK
<1>6. ASSUME NEW d \in Requests, NEW i \in Items, OtherAdmin(d, i) PROVE Types'
  <2>1. /\ d \in DOMAIN Mutation /\ Accepts(d, i) /\ Done(d, i)
        /\ calls' = calls /\ acts > 0 /\ acts' = acts - 1
    BY <1>6 DEF OtherAdmin, Act
  <2>2. Cardinality(Waiting(calls)) \in Nat /\ acts \in Nat
    BY WaitingFinite, BoundsAssumption DEF RestOK
  <2>3. Due' \in Nat /\ Due' + 1 <= Due
    BY <2>1, <2>2 DEF Due
  <2>4. rows' \in PageRows /\ Budget'
    BY <1>0, <2>1, <2>3, RowsDone
  <2>5. /\ page' = page /\ power' = power /\ PageIs' = PageIs /\ Mutation' = Mutation
        /\ PageRows' = PageRows /\ PageCall' = PageCall
    BY <1>0, TablesStay
  <2>6. DataOK'
    BY <1>6, <2>4, <2>5 DEF OtherAdmin, DataOK, query
  <2>7. seen' \subseteq Faults /\ acts' \in 0..MaxActs
    <3>1. seen' \subseteq Faults /\ acts' \in 0..acts
      BY <1>0, Drift
    <3> QED BY <3>1, BoundsAssumption DEF RestOK
  <2>8. DialogOK' /\ RestOK'
    BY <1>6, <2>5, <2>7 DEF OtherAdmin, DialogOK, RestOK
  <2> QED BY <2>1, <2>4, <2>5, <2>6, <2>8
<1> QED BY <1>2, <1>3, <1>4, <1>5, <1>6 DEF Environment

LEMMA TypesStep == Types /\ [Next]_vars => Types'
<1>1. Types /\ UNCHANGED vars => Types'
  BY DEF Types, vars, PageIs, DataOK, DialogOK, RestOK, Budget, Due, PageRows, PageRow, PageCall,
         Mutation
<1> QED BY <1>1, TypesUser, TypesProgress, TypesEnvironment DEF Next

LEMMA TypesInit == Init => Types
<1> SUFFICES ASSUME Init PROVE Types
  OBVIOUS
<1>0. MaxActs \in Nat /\ 0 \in 0..MaxActs
  BY BoundsAssumption
<1>1. PageIs
  BY DEF Init, PageIs
<1>2. FirstRows \subseteq PageRow \cup {None}
  BY <1>0, <1>1 DEF FirstRows, PageRow, PageIs, SiteRow, UserRow, CertRow
<1>3. rows \in [Items -> FirstRows]
  BY DEF Init
<1>4. list \in PageRows
  BY DEF Init, PageRows
<1>5. DataOK
  <2>1. rows \in PageRows
    BY <1>2, <1>3 DEF PageRows
  <2> QED BY <1>4, <2>1 DEF Init, DataOK
<1>6. DialogOK
  BY DEF Init, DialogOK, NoDialog
<1>7. RestOK
  <2>1. power \in BOOLEAN /\ online \in BOOLEAN /\ missed \in BOOLEAN
    BY DEF Init
  <2>2. acts \in 0..MaxActs
    BY <1>0 DEF Init
  <2>3. misled \subseteq Requests /\ seen \subseteq Faults
    BY DEF Init
  <2> QED BY <2>1, <2>2, <2>3 DEF RestOK
<1>8. calls = << >> /\ calls \in Seq(PageCall)
  BY EmptySeq DEF Init
<1>9. Budget
  <2>1. DOMAIN calls = {}
    BY <1>8, LenProperties, EmptySeq
  <2>2. Waiting(calls) = {}
    BY <2>1 DEF Waiting
  <2>3. Due = MaxActs
    <3>1. Cardinality(Waiting(calls)) = 0
      BY <2>2, FS_EmptySet
    <3>2. acts = MaxActs
      BY DEF Init
    <3> QED BY <1>0, <3>1, <3>2 DEF Due
  <2>4. ASSUME page = "certs", NEW i \in Items, rows[i] \notin {None, Gone}
        PROVE  rows[i].version + MaxActs <= MaxActs
    <3>1. rows[i] \in [source : {"manual", "acme"}, version : {0}]
      BY <1>3, <2>4 DEF FirstRows
    <3> QED BY <1>0, <3>1
  <2> QED BY <1>0, <2>3, <2>4 DEF Budget
<1> QED BY <1>1, <1>5, <1>6, <1>7, <1>8, <1>9 DEF Types

(* TypeOK: the lists, the dialogs and the calls hold rows and requests of    *)
(* their page, and no certificate is renewed more often than there are acts. *)
THEOREM TypesAreKept == Spec => []TypeOK
<1>1. Types => TypeOK
  <2> SUFFICES ASSUME Types PROVE TypeOK
    OBVIOUS
  <2>0. DOMAIN Mutation \subseteq Requests
    BY Tables DEF Types
  <2>1. PageRows \subseteq Rows
    BY DEF Types, PageIs, PageRows, PageRow, Rows
  <2> DEFINE Call == [do : Requests, item : Items \cup {None}, text : Items \cup {None},
                      meant : Items \cup {None},
                      state : {"paused", "sent", "inserted", "done", "refused", "lost"}, waited : BOOLEAN,
                      did : BOOLEAN, watched : BOOLEAN, here : BOOLEAN, open : BOOLEAN]
  <2>2. PageCall \subseteq Call
    BY <2>0 DEF PageCall
  <2> HIDE DEF Call
  <2>3. calls \in Seq(Call)
    <3>1. calls \in [1..Len(calls) -> PageCall] /\ Len(calls) \in Nat
      BY LenProperties DEF Types
    <3>2. calls \in [1..Len(calls) -> Call]
      BY <2>2, <3>1
    <3> QED BY <3>1, <3>2, SeqDef
  <2>4. rows \in Rows /\ list \in Rows /\ fetch.rows \in Rows
    BY <2>1 DEF Types, DataOK
  <2> QED BY <2>0, <2>3, <2>4 DEF TypeOK, Types, PageIs, DataOK, DialogOK, RestOK, Call
<1> QED BY <1>1, TypesInit, TypesStep, PTL DEF Spec

-----------------------------------------------------------------------------
(* What is asked for is what was confirmed *)

(* What the server is told, in a call that has not been refused or lost: the *)
(* row that was meant, and what was typed for it; unless it waited off line  *)
(* to read a dialog that may have been closed.  The table of the page is m.  *)
Meaning(c, m) ==
    /\ c.item = c.meant
    /\ m[c.do].typed /\ c.do # "resetPassword" => c.text = c.meant

Sound(c, m, closed) ==
    /\ c.state = "paused" => c.waited
    /\ c.did => \/ c.state \in {"inserted", "done", "lost"}
                \/ c.state = "refused" /\ c.do \in Halfway
    /\ c.state \in {"paused", "sent", "done"} =>
          Meaning(c, m) \/ (c.waited /\ closed /\ m[c.do].fromDialog)

(* The dialog that waits for a call is the call's own, as it was confirmed.  *)
Own(c, m) == /\ c.watched /\ dialog.do = c.do /\ dialog.item = c.meant
             /\ m[c.do].typed /\ c.do # "resetPassword" => text = c.meant

Closes(k) == Mutation[calls[k].do].closes

Matched == /\ \A k \in DOMAIN calls : Closes(k) => Own(calls[k], Mutation)
           /\ \A j, k \in DOMAIN calls : Closes(j) /\ Closes(k) => j = k

(* What was typed for a lock or an update is for its dialog's item. *)
TextFits ==
    /\ dialog.do \in {"lock", "unlock"} => text \in {None, dialog.item}
    /\ dialog.do = "update" => text = dialog.item
    /\ page = "sites" /\ dialog.do \notin {"lock", "unlock"} => text = None

Meant == /\ TextFits
         /\ ~Closed => Matched
         /\ \A k \in DOMAIN calls : Sound(calls[k], Mutation, Closed)
         /\ DoneIsTold

(* Where a request belongs. *)
LEMMA PageOf ==
    ASSUME PageIs, NEW d \in DOMAIN Mutation
    PROVE  /\ d # "none"
           /\ d = "update" => page = "certs"
           /\ d \in {"lock", "unlock"} => page = "sites"
           /\ d = "resetPassword" => page = "users"
BY Tables DEF PageIs, SiteRequests, UserRequests, CertRequests

LEMMA FrozenSound ==
    ASSUME PageIs, DialogOK, NEW c \in PageCall, NEW x \in BOOLEAN, NEW y \in BOOLEAN,
           Sound(c, Mutation, x), x => y,
           y \/ ~c.watched \/ c.state # "paused" \/ ~Mutation[c.do].fromDialog
    PROVE  Sound(Frozen(c), Mutation, y)
<1> DEFINE f == Frozen(c)
<1>1. /\ f.do = c.do /\ f.meant = c.meant /\ f.state = c.state
      /\ f.waited = c.waited /\ f.did = c.did
      /\ ~c.watched => f = c
      /\ ~Mutation[c.do].fromDialog \/ c.state # "paused" => f.item = c.item
      /\ c.state # "paused" => f.text = c.text
  BY FrozenParts
<1>2. Mutation[c.do].typed => Mutation[c.do].fromDialog
  BY CallParts, Tables
<1> SUFFICES Sound(f, Mutation, y)
  OBVIOUS
<1> HIDE DEF f
<1>3. CASE c.state # "paused"
  BY <1>1, <1>3 DEF Sound, Meaning
<1>4. CASE c.state = "paused" /\ ~c.watched
  BY <1>1, <1>4 DEF Sound, Meaning
<1>5. CASE c.state = "paused" /\ ~Mutation[c.do].fromDialog
  BY <1>1, <1>2, <1>5 DEF Sound, Meaning
<1>6. CASE c.state = "paused" /\ y /\ Mutation[c.do].fromDialog
  BY <1>1, <1>6 DEF Sound
<1> QED BY <1>3, <1>4, <1>5, <1>6

LEMMA ResumedSound ==
    ASSUME PageIs, DialogOK, NEW c \in PageCall, NEW x \in BOOLEAN, Sound(c, Mutation, x),
           ~x /\ Mutation[c.do].closes => Own(c, Mutation)
    PROVE  Sound(Resumed(c), Mutation, x)
<1> DEFINE r == Resumed(c)
<1>1. /\ r.meant = c.meant /\ r.waited = c.waited /\ r.did = c.did
      /\ c.state # "paused" => r = c
      /\ c.state = "paused" => r.state \in {"sent", "refused"}
      /\ IF c.state = "paused" /\ c.watched /\ Mutation[c.do].fromDialog
         THEN /\ r.text = text
              /\ r.item = IF DialogOf(c.do) THEN dialog.item ELSE None
              /\ r.do = IF DialogOf(c.do) THEN dialog.do ELSE c.do
         ELSE r.text = c.text /\ r.item = c.item /\ r.do = c.do
  BY ResumedParts
<1>2. c.do \in DOMAIN Mutation /\ c.do # "none"
  BY CallParts, PageOf
<1> SUFFICES Sound(r, Mutation, x)
  OBVIOUS
<1> HIDE DEF r
<1>3. CASE c.state # "paused"
  BY <1>1, <1>3
<1>4. CASE c.state = "paused" /\ ~(c.watched /\ Mutation[c.do].fromDialog)
  BY <1>1, <1>4 DEF Sound, Meaning
<1>5. CASE c.state = "paused" /\ c.watched /\ Mutation[c.do].fromDialog
  <2>1. c.waited /\ ~c.did
    BY <1>5 DEF Sound
  <2>2. CASE x
    <3>1. Mutation[r.do].fromDialog
      <4>1. CASE DialogOf(c.do)
        <5>1. dialog.do \in DOMAIN Mutation /\ Object(dialog.do) = Object(c.do)
          BY <4>1 DEF DialogOf, DialogOK
        <5>2. Mutation[dialog.do].fromDialog
          BY <1>2, <1>5, <5>1, SameObject
        <5> QED BY <1>1, <1>5, <4>1, <5>2
      <4>2. CASE ~DialogOf(c.do)
        BY <1>1, <1>5, <4>2
      <4> QED BY <4>1, <4>2
    <3> QED BY <1>1, <1>5, <2>1, <2>2, <3>1 DEF Sound
  <2>3. CASE ~x
    <3>1. Own(c, Mutation)
      BY <1>2, <1>5, <2>3, Tables
    <3>2. DialogOf(c.do)
      BY <1>2, <3>1 DEF Own, DialogOf
    <3>3. r.item = c.meant /\ r.do = c.do /\ r.text = text
      BY <1>1, <1>5, <3>1, <3>2 DEF Own
    <3>4. Meaning(r, Mutation)
      BY <1>1, <3>1, <3>3 DEF Own, Meaning
    <3> QED BY <1>1, <1>5, <2>1, <3>4 DEF Sound
  <2> QED BY <2>2, <2>3
<1> QED BY <1>3, <1>4, <1>5

LEMMA TextStep == Types /\ TextFits /\ Next => TextFits'
<1> SUFFICES ASSUME Types, TextFits, Next PROVE TextFits'
  OBVIOUS
<1>0. page' = page /\ PageIs /\ DialogOK
  BY PageStays DEF world, Types
<1>1. ASSUME UNCHANGED <<dialog, text>> PROVE TextFits'
  BY <1>0, <1>1 DEF TextFits
<1>2. dialog.do = "none" \/ dialog.do \in DOMAIN Mutation
  BY <1>0 DEF DialogOK
<1>3. ASSUME NEW d \in DOMAIN Mutation, NEW i \in Items \cup {None}, OpenDialog(d, i)
      PROVE TextFits'
  <2>1. dialog.do = "none" /\ dialog'.do = d /\ dialog'.item = i
        /\ text' = (IF d = "update" THEN i ELSE text)
    BY <1>3 DEF OpenDialog, NoDialog
  <2>2. /\ d = "update" => page = "certs"
        /\ d \in {"lock", "unlock"} => page = "sites"
    BY <1>0, PageOf
  <2> QED BY <1>0, <2>1, <2>2 DEF TextFits
<1>4. CASE ConfirmSite
  <2>1. dialog.do = "stop" => dialog' = NoDialog
    BY <1>4 DEF ConfirmSite
  <2>2. dialog.do # "stop" => UNCHANGED dialog
    BY <1>4 DEF ConfirmSite
  <2>3. text' = text
    BY <1>4 DEF ConfirmSite, Ask
  <2> QED BY <1>0, <1>1, <2>1, <2>2, <2>3 DEF TextFits, NoDialog
<1>5. CASE Type
  <2>1. /\ text' = dialog.item /\ UNCHANGED dialog /\ dialog.do \in DOMAIN Mutation
        /\ Mutation[dialog.do].typed
    BY <1>2, <1>5 DEF Type
  <2>2. dialog.do \in {"lock", "unlock", "resetPassword", "update"}
    BY <1>0, <2>1, Tables
  <2>3. page = "sites" => dialog.do \in {"lock", "unlock"}
    BY <1>0, <2>1, <2>2, PageOf
  <2> QED BY <1>0, <2>1, <2>3 DEF TextFits
<1>6. CASE Cancel
  <2>1. /\ dialog.do \in DOMAIN Mutation /\ dialog' = NoDialog
        /\ text' = IF Mutation[dialog.do].forgets THEN None ELSE text
    BY <1>2, <1>6 DEF Cancel
  <2>2. Mutation[dialog.do].forgets <=> dialog.do \in {"lock", "unlock"}
    BY <1>0, <2>1, Tables
  <2> QED BY <1>0, <2>1, <2>2 DEF TextFits, NoDialog
<1>7. CASE Away
  BY <1>0, <1>7 DEF Away, TextFits, NoDialog
<1>8. ASSUME NEW k \in DOMAIN calls, Answer(k) PROVE TextFits'
  <2>1. CASE Failure(k)
    BY <1>1, <2>1 DEF Failure
  <2>2. CASE Success(k)
    <3> DEFINE c == calls[k]
    <3>1. c.do \in DOMAIN Mutation
      BY LenProperties, CallParts DEF Types
    <3>2. /\ Mutation[c.do].clears <=> c.do \in {"lock", "unlock", "resetPassword"}
          /\ c.do = "update" => page = "certs"
          /\ c.do \in {"lock", "unlock"} => page = "sites"
          /\ c.do = "resetPassword" => page = "users"
      BY <1>0, <3>1, Tables, PageOf
    <3>3. /\ text' = IF c.here /\ Mutation[c.do].clears THEN None ELSE text
          /\ dialog' = IF c.here /\ Mutation[c.do].closes /\ DialogOf(c.do) THEN NoDialog ELSE dialog
      BY <2>2 DEF Success
    <3>4. dialog.do = "update" => page = "certs"
      BY <1>0, <1>2, PageOf
    <3> HIDE DEF c
    <3>5. CASE c.here /\ Mutation[c.do].clears
      <4>1. text' = None /\ page # "certs" /\ dialog' \in {dialog, NoDialog}
        BY <3>2, <3>3, <3>5
      <4> QED BY <1>0, <3>4, <4>1 DEF TextFits, NoDialog
    <3>6. CASE ~(c.here /\ Mutation[c.do].clears) /\ c.here /\ Mutation[c.do].closes /\ DialogOf(c.do)
      <4>1. text' = text /\ dialog' = NoDialog /\ c.do \notin {"lock", "unlock"}
        BY <3>2, <3>3, <3>6
      <4>2. dialog.do \notin {"lock", "unlock"}
        BY <1>0, <1>2, <3>1, <3>6, <4>1, SameObject DEF DialogOf
      <4> QED BY <1>0, <4>1, <4>2 DEF TextFits, NoDialog
    <3>7. CASE ~(c.here /\ Mutation[c.do].clears) /\ ~(c.here /\ Mutation[c.do].closes /\ DialogOf(c.do))
      BY <1>1, <3>3, <3>7
    <3> QED BY <3>5, <3>6, <3>7
  <2> QED BY <1>8, <2>1, <2>2 DEF Answer
<1>9. CASE User
  BY <1>1, <1>3, <1>4, <1>5, <1>6, <1>7, <1>9 DEF User, ClickRow, ConfirmUser, CreateCert,
     ConfirmCert, Ask, Enter
<1>10. CASE Progress
  BY <1>1, <1>8, <1>10 DEF Progress, Serve, Refuse, ServeThenFail, Insert, Fill, Withdraw, Acted,
     FetchServe, FetchArrives, FetchOwed
<1>11. CASE Environment
  BY <1>1, <1>11 DEF Environment, Offline, Online, LoseList, Lose, OtherAdmin
<1> QED BY <1>9, <1>10, <1>11 DEF Next

(* A call asked for now is sound, and so are those let go of for it. *)
LEMMA MutateSound ==
    ASSUME Types, Next, \A k \in DOMAIN calls : Sound(calls[k], Mutation, Closed),
           NEW d \in DOMAIN Mutation, NEW i \in Items \cup {None}, Mutate(d, i),
           Mutation[d].typed /\ d # "resetPassword" => text = i,
           Mutation[d].fromDialog /\ Pending(d) => Closed'
    PROVE  \A k \in DOMAIN calls' : Sound(calls'[k], Mutation, Closed')
<1>0. /\ PageIs /\ DialogOK /\ online \in BOOLEAN /\ calls \in Seq(PageCall)
      /\ Closed \in BOOLEAN /\ Closed' \in BOOLEAN
  BY DEF Types, RestOK, Closed
<1>1. Closed => Closed'
  BY Drift DEF Closed, Types
<1>2. /\ calls' \in Seq(PageCall) /\ Len(calls') = Len(calls) + 1
      /\ \A k \in 1..Len(calls) :
           calls'[k] = IF Object(calls[k].do) = Object(d) THEN Frozen(calls[k]) ELSE calls[k]
      /\ calls'[Len(calls) + 1] = NewCall(d, i)
  BY <1>0, MutateCalls
<1>3. DOMAIN calls = 1..Len(calls) /\ DOMAIN calls' = 1..(Len(calls) + 1) /\ Len(calls) \in Nat
  BY <1>0, <1>2, LenProperties
<1>4. ASSUME NEW k \in 1..Len(calls) PROVE Sound(calls'[k], Mutation, Closed')
  <2> DEFINE c == calls[k]
  <2>1. c \in PageCall /\ Sound(c, Mutation, Closed) /\ c.do \in DOMAIN Mutation
    BY <1>0, <1>3, CallParts
  <2>2. calls'[k] = IF Object(c.do) = Object(d) THEN Frozen(c) ELSE c
    BY <1>2
  <2>3. Object(c.do) = Object(d) /\ c.watched => Pending(d)
    BY <1>3 DEF Pending
  <2> HIDE DEF c
  <2>4. CASE Object(c.do) = Object(d)
    <3>1. Mutation[c.do].fromDialog <=> Mutation[d].fromDialog
      BY <1>0, <2>1, <2>4, SameObject
    <3>2. Closed' \/ ~c.watched \/ ~Mutation[c.do].fromDialog
      BY <2>3, <2>4, <3>1
    <3>3. PICK x \in BOOLEAN, y \in BOOLEAN : (x <=> Closed) /\ (y <=> Closed') /\ x = Closed /\ y = Closed'
      BY <1>0
    <3>4. Sound(Frozen(c), Mutation, y)
      BY <1>0, <1>1, <2>1, <3>2, <3>3, FrozenSound
    <3> QED BY <2>2, <2>4, <3>3, <3>4
  <2>5. CASE Object(c.do) # Object(d)
    BY <1>1, <2>1, <2>2, <2>5 DEF Sound
  <2> QED BY <2>4, <2>5
<1>5. Sound(NewCall(d, i), Mutation, Closed')
  <2>1. /\ NewCall(d, i).do = d /\ NewCall(d, i).item = i /\ NewCall(d, i).meant = i
        /\ NewCall(d, i).text = text /\ NewCall(d, i).did = FALSE
        /\ NewCall(d, i).state = (IF online THEN "sent" ELSE "paused")
        /\ NewCall(d, i).waited = ~online
    BY DEF NewCall
  <2>2. Meaning(NewCall(d, i), Mutation)
    BY <2>1 DEF Meaning
  <2>3. NewCall(d, i).state = "paused" => NewCall(d, i).waited
    BY <2>1
  <2> QED BY <2>1, <2>2, <2>3 DEF Sound
<1>6. ASSUME NEW k \in DOMAIN calls' PROVE Sound(calls'[k], Mutation, Closed')
  <2>1. k \in 1..Len(calls) \/ k = Len(calls) + 1
    BY <1>3
  <2> QED BY <1>2, <1>4, <1>5, <2>1
<1> QED BY <1>6

(* What a dialog's field holds when its button can be pressed. *)
LEMMA TypedFits ==
    ASSUME Types, TextFits, dialog.do # "none", Mutation[dialog.do].typed => text # None
    PROVE  /\ dialog.do \in DOMAIN Mutation /\ dialog.item \in Items \cup {None}
           /\ Mutation[dialog.do].typed /\ dialog.do # "resetPassword" => text = dialog.item
<1>1. dialog.do \in DOMAIN Mutation /\ dialog.item \in Items \cup {None}
  BY DEF Types, DialogOK
<1>2. Mutation[dialog.do].typed <=> dialog.do \in {"lock", "unlock", "resetPassword", "update"}
  BY <1>1, Tables DEF Types
<1> QED BY <1>1, <1>2 DEF TextFits

(* A call that the server or the network has moved on. *)
LEMMA SoundEdit ==
    ASSUME NEW c \in PageCall, NEW m, NEW x \in BOOLEAN, Sound(c, m, x), NEW e,
           e.do = c.do, e.text = c.text, e.meant = c.meant, e.waited = c.waited,
           e.state \in {"inserted", "done", "refused", "lost"},
           e.state = "done" => \/ c.state = "sent" /\ e.item = c.item
                               \/ e.item = c.meant /\ ~m[c.do].typed,
           e.state = "refused" => ~e.did \/ e.do \in Halfway
    PROVE  Sound(e, m, x)
BY DEF Sound, Meaning

LEMMA SoundStep ==
    ASSUME Types, Meant, Next
    PROVE  (\A k \in DOMAIN calls : Sound(calls[k], Mutation, Closed))'
<1>0. /\ PageIs /\ DialogOK /\ calls \in Seq(PageCall) /\ TextFits
      /\ Closed \in BOOLEAN /\ Closed' \in BOOLEAN
      /\ \A k \in DOMAIN calls : Sound(calls[k], Mutation, Closed)
  BY DEF Types, Meant, Closed
<1>1. (Closed => Closed') /\ Mutation' = Mutation
  <2>1. seen \subseteq seen'
    BY Drift DEF Types
  <2>2. Mutation' = Mutation
    BY PageStays, TablesStay
  <2> QED BY <2>1, <2>2 DEF Closed
<1>2. SUFFICES \A k \in DOMAIN calls' : Sound(calls'[k], Mutation, Closed')
  BY <1>1
<1>3. DOMAIN calls = 1..Len(calls) /\ Len(calls) \in Nat /\ \A k \in 1..Len(calls) : calls[k] \in PageCall
  BY <1>0, LenProperties
<1>4. ASSUME NEW c, Sound(c, Mutation, Closed) PROVE Sound(c, Mutation, Closed')
  BY <1>1, <1>4 DEF Sound
<1>5. CASE UNCHANGED calls
  BY <1>0, <1>4, <1>5
<1>6. ASSUME NEW d \in DOMAIN Mutation, NEW i \in Items, ClickRow(d, i)
      PROVE  \A k \in DOMAIN calls' : Sound(calls'[k], Mutation, Closed')
  <2>1. Mutate(d, i) /\ d \in AtOnce
    BY <1>6 DEF ClickRow
  <2>2. ~Mutation[d].fromDialog
    BY <1>0, <2>1, Tables
  <2>3. ~Mutation[d].typed
    BY <1>0, <2>2, Tables
  <2> QED BY <1>0, <2>1, <2>2, <2>3, MutateSound
<1>7. CASE ConfirmSite \/ ConfirmUser \/ CreateCert \/ ConfirmCert
  <2>1. Enabled /\ Ask
    BY <1>7 DEF ConfirmSite, ConfirmUser, CreateCert, ConfirmCert
  <2>2. /\ dialog.do \in DOMAIN Mutation /\ dialog.item \in Items \cup {None}
        /\ Mutation[dialog.do].typed /\ dialog.do # "resetPassword" => text = dialog.item
    BY <1>0, <2>1, TypedFits DEF Enabled
  <2>3. ~Pending(dialog.do) /\ Mutate(dialog.do, dialog.item)
    BY <2>1 DEF Enabled, Ask
  <2> QED BY <1>0, <2>2, <2>3, MutateSound
<1>8. CASE Enter
  <2>1. dialog.do # "none" /\ text # None /\ Mutate(dialog.do, dialog.item) /\ Happens("repeat")
    BY <1>8 DEF Enter
  <2>2. /\ dialog.do \in DOMAIN Mutation /\ dialog.item \in Items \cup {None}
        /\ Mutation[dialog.do].typed /\ dialog.do # "resetPassword" => text = dialog.item
    BY <1>0, <2>1, TypedFits
  <2>3. Closed'
    BY <2>1 DEF Happens, Closed
  <2> QED BY <1>0, <2>1, <2>2, <2>3, MutateSound
<1>9. CASE Away
  <2>1. calls' = [k \in DOMAIN calls |-> [Frozen(calls[k]) EXCEPT !.here = FALSE]] /\ dialog = NoDialog
    BY <1>9 DEF Away
  <2>2. ASSUME NEW k \in DOMAIN calls PROVE Sound(calls'[k], Mutation, Closed')
    <3>1. PICK c \in PageCall : c = calls[k]
      BY <1>3
    <3>2. PICK f \in PageCall : f = Frozen(c)
      BY <1>0, FrozenParts
    <3>3. Closed' \/ ~c.watched \/ c.state # "paused" \/ ~Mutation[c.do].fromDialog
      <4>1. ASSUME ~Closed, Mutation[c.do].closes PROVE FALSE
        <5>1. dialog.do = c.do
          BY <3>1, <4>1 DEF Meant, Matched, Closes, Own
        <5> QED BY <1>0, <2>1, <5>1, CallParts, PageOf DEF NoDialog
      <4>2. Mutation[c.do].fromDialog => Mutation[c.do].closes
        BY <1>0, CallParts, Tables
      <4> QED BY <1>1, <4>1, <4>2
    <3>4. PICK x \in BOOLEAN, y \in BOOLEAN : x = Closed /\ y = Closed'
      BY <1>0
    <3>5. Sound(f, Mutation, y)
      <4>1. Sound(c, Mutation, x)
        BY <1>0, <3>1, <3>4
      <4> QED BY <1>0, <1>1, <3>2, <3>3, <3>4, <4>1, FrozenSound
    <3>6. calls'[k] = [f EXCEPT !.here = FALSE]
      BY <2>1, <3>1, <3>2
    <3> DEFINE e == [f EXCEPT !.here = FALSE]
    <3>7. /\ e.do = f.do /\ e.item = f.item /\ e.text = f.text /\ e.meant = f.meant
          /\ e.waited = f.waited /\ e.state = f.state /\ e.did = f.did
      BY DEF PageCall
    <3>8. calls'[k] = e
      BY <3>6
    <3> HIDE DEF e
    <3>9. Sound(e, Mutation, y)
      BY <3>5, <3>7 DEF Sound, Meaning
    <3> QED BY <3>4, <3>8, <3>9
  <2>3. DOMAIN calls' = DOMAIN calls
    BY <2>1
  <2> QED BY <2>2, <2>3
<1>10. CASE Online
  <2>1. calls' = [k \in DOMAIN calls |-> Resumed(calls[k])] /\ seen' = seen
    BY <1>10 DEF Online
  <2>2. ASSUME NEW k \in DOMAIN calls PROVE Sound(calls'[k], Mutation, Closed')
    <3>1. PICK c \in PageCall : c = calls[k]
      BY <1>3
    <3>2. PICK x \in BOOLEAN : x = Closed /\ x = Closed'
      BY <1>0, <2>1 DEF Closed
    <3>3. Sound(c, Mutation, x)
      BY <1>0, <3>1, <3>2
    <3>4. ~x /\ Mutation[c.do].closes => Own(c, Mutation)
      BY <3>1, <3>2 DEF Meant, Matched, Closes
    <3>5. Sound(Resumed(c), Mutation, x)
      BY <1>0, <3>3, <3>4, ResumedSound
    <3>6. calls'[k] = Resumed(c)
      BY <2>1, <3>1
    <3> QED BY <3>2, <3>5, <3>6
  <2>3. DOMAIN calls' = DOMAIN calls
    BY <2>1
  <2> QED BY <2>2, <2>3
<1>11. ASSUME NEW k \in DOMAIN calls, Acts(k) \/ Refuse(k) \/ Lose(k)
       PROVE  \A j \in DOMAIN calls' : Sound(calls'[j], Mutation, Closed')
  <2>1. PICK c \in PageCall : c = calls[k]
    BY <1>3
  <2>2. PICK x \in BOOLEAN : x = Closed
    BY <1>0
  <2>3. Sound(c, Mutation, x)
    BY <1>0, <2>1, <2>2
  <2>4. PICK e : calls' = [calls EXCEPT ![k] = e] /\ Sound(e, Mutation, x)
    <3>1. CASE Acts(k)
      <4>1. PICK s \in {"inserted", "done", "refused"}, i \in Items \cup {None} :
               /\ Acted(k, s, i)
               /\ s = "done" => \/ c.state = "sent" /\ i = c.item
                                \/ c.do \in Inserts /\ i = c.meant
               /\ s = "refused" => c.do \in Halfway
        BY <1>0, <2>1, <3>1, ActsParts
      <4>2. PICK e :
               /\ calls' = [calls EXCEPT ![k] = e]
               /\ e.do = c.do /\ e.text = c.text /\ e.meant = c.meant /\ e.waited = c.waited
               /\ e.state = s /\ e.item = i
        BY <1>0, <2>1, <4>1, ActedOne
      <4>3. c.do \in Inserts => ~Mutation[c.do].typed
        BY <1>0, CallParts, Tables DEF Inserts
      <4>4. Sound(e, Mutation, x)
        BY <2>3, <4>1, <4>2, <4>3, SoundEdit
      <4> QED BY <4>2, <4>4
    <3>2. ASSUME NEW s \in {"refused", "lost"}, calls' = [calls EXCEPT ![k].state = s],
                 s = "refused" => c.state = "sent"
          PROVE  \E e : calls' = [calls EXCEPT ![k] = e] /\ Sound(e, Mutation, x)
      <4> DEFINE e == [c EXCEPT !.state = s]
      <4>1. calls' = [calls EXCEPT ![k] = e]
        BY <2>1, <3>2
      <4>2. /\ e.do = c.do /\ e.text = c.text /\ e.meant = c.meant /\ e.waited = c.waited
            /\ e.state = s /\ e.did = c.did
        BY DEF PageCall
      <4>3. s = "refused" => ~c.did
        BY <2>3, <3>2 DEF Sound
      <4> HIDE DEF e
      <4>4. Sound(e, Mutation, x)
        BY <2>3, <4>2, <4>3, SoundEdit
      <4> QED BY <4>1, <4>4
    <3>3. CASE Refuse(k)
      BY <2>1, <3>2, <3>3 DEF Refuse
    <3>4. CASE Lose(k)
      BY <2>1, <3>2, <3>4 DEF Lose
    <3> QED BY <1>11, <3>1, <3>3, <3>4
  <2>5. Sound(e, Mutation, Closed)
    BY <2>2, <2>4
  <2>6. DOMAIN calls' = DOMAIN calls /\ \A j \in DOMAIN calls : calls'[j] = IF j = k THEN e ELSE calls[j]
    BY <2>4
  <2> QED BY <1>0, <1>4, <2>5, <2>6
<1>12. ASSUME NEW k \in DOMAIN calls, Answer(k)
       PROVE  \A j \in DOMAIN calls' : Sound(calls'[j], Mutation, Closed')
  <2>1. calls' = RemoveAt(calls, k) /\ k \in 1..Len(calls)
    BY <1>3, <1>12 DEF Answer
  <2>2. /\ calls' \in Seq(PageCall) /\ Len(calls') = Len(calls) - 1
        /\ \A j \in 1..(Len(calls) - 1) : calls'[j] = calls[IF j < k THEN j ELSE j + 1]
    BY <1>0, <2>1, RemoveAtElements
  <2>3. DOMAIN calls' = 1..(Len(calls) - 1)
    BY <2>2, LenProperties
  <2>4. \A j \in 1..(Len(calls) - 1) : (IF j < k THEN j ELSE j + 1) \in DOMAIN calls
    BY <1>3, <2>1
  <2> QED BY <1>0, <1>4, <2>2, <2>3, <2>4
<1>13. CASE User
  BY <1>5, <1>6, <1>7, <1>8, <1>9, <1>13 DEF User, OpenDialog, Type, Cancel
<1>14. CASE Progress
  BY <1>5, <1>11, <1>12, <1>14 DEF Progress, Acts, FetchServe, FetchArrives, FetchOwed
<1>15. CASE Environment
  BY <1>5, <1>10, <1>11, <1>15 DEF Environment, Offline, LoseList, OtherAdmin
<1> QED BY <1>13, <1>14, <1>15 DEF Next

(* Nothing of the page's own closes a dialog that a call waits for. *)
LEMMA NoneCloses ==
    ASSUME Types, ~Closed => Matched, ~Closed,
           dialog = NoDialog \/ (dialog.do # "none" /\ ~Pending(dialog.do))
    PROVE  \A k \in DOMAIN calls : ~Closes(k)
<1> SUFFICES ASSUME NEW k \in DOMAIN calls, Closes(k) PROVE FALSE
  OBVIOUS
<1>1. calls[k].do \in DOMAIN Mutation /\ PageIs
  BY LenProperties, CallParts DEF Types
<1>2. calls[k].watched /\ dialog.do = calls[k].do
  BY DEF Matched, Own
<1>3. dialog.do # "none"
  BY <1>1, <1>2, PageOf
<1>4. Pending(dialog.do)
  BY <1>2 DEF Pending
<1> QED BY <1>3, <1>4 DEF NoDialog

(* A mutation asked for while none that closes a dialog is under way. *)
LEMMA MutateMatched ==
    ASSUME Types, NEW d \in DOMAIN Mutation, NEW i \in Items \cup {None}, Mutate(d, i),
           UNCHANGED <<world, text>>,
           \A k \in DOMAIN calls : ~Closes(k),
           Mutation[d].closes => dialog'.do = d /\ dialog'.item = i,
           Mutation[d].typed /\ d # "resetPassword" => text = i
    PROVE  Matched'
<1>0. /\ PageIs /\ DialogOK /\ online \in BOOLEAN /\ calls \in Seq(PageCall)
      /\ Mutation' = Mutation
  BY TablesStay DEF Types, RestOK
<1>1. /\ calls' \in Seq(PageCall) /\ Len(calls') = Len(calls) + 1
      /\ \A k \in 1..Len(calls) :
           calls'[k] = IF Object(calls[k].do) = Object(d) THEN Frozen(calls[k]) ELSE calls[k]
      /\ calls'[Len(calls) + 1] = NewCall(d, i)
  BY <1>0, MutateCalls
<1>2. DOMAIN calls = 1..Len(calls) /\ DOMAIN calls' = 1..(Len(calls) + 1) /\ Len(calls) \in Nat
  BY <1>0, <1>1, LenProperties
<1>3. ASSUME NEW k \in 1..Len(calls) PROVE ~Mutation[calls'[k].do].closes
  <2>1. calls[k] \in PageCall /\ ~Mutation[calls[k].do].closes
    BY <1>0, <1>2 DEF Closes
  <2>2. calls'[k].do = calls[k].do
    BY <1>0, <1>1, <2>1, FrozenParts
  <2> QED BY <2>1, <2>2
<1>4. \A k \in DOMAIN calls' : Mutation[calls'[k].do].closes => k = Len(calls) + 1
  <2>1. \A k \in DOMAIN calls' : k \in 1..Len(calls) \/ k = Len(calls) + 1
    BY <1>2
  <2> QED BY <1>3, <2>1
<1>5. PICK n : n = calls'[Len(calls) + 1]
  OBVIOUS
<1>6. /\ n.do = d /\ n.meant = i /\ n.watched = TRUE
  BY <1>1, <1>5 DEF NewCall
<1>7. \A k \in DOMAIN calls' : Mutation[calls'[k].do].closes =>
         /\ calls'[k].watched /\ dialog'.do = calls'[k].do /\ dialog'.item = calls'[k].meant
         /\ Mutation[calls'[k].do].typed /\ calls'[k].do # "resetPassword" => text' = calls'[k].meant
  BY <1>4, <1>5, <1>6
<1> QED BY <1>0, <1>4, <1>7 DEF Matched, Own, Closes

(* Calls of which neither the mutation, nor what it was meant for, nor whether *)
(* it is watched changes.                                                      *)
LEMMA SameMatched ==
    ASSUME Matched, UNCHANGED <<world, dialog, text>>, DOMAIN calls' = DOMAIN calls,
           \A k \in DOMAIN calls :
              /\ calls'[k].do = calls[k].do /\ calls'[k].meant = calls[k].meant
              /\ calls'[k].watched = calls[k].watched
    PROVE  Matched'
<1>1. Mutation' = Mutation
  BY TablesStay
<1>2. \A k \in DOMAIN calls : Mutation[calls'[k].do].closes => Own(calls[k], Mutation)
  BY DEF Matched, Closes
<1>3. \A k \in DOMAIN calls' : Mutation[calls'[k].do].closes =>
         /\ calls'[k].watched /\ dialog.do = calls'[k].do /\ dialog.item = calls'[k].meant
         /\ Mutation[calls'[k].do].typed /\ calls'[k].do # "resetPassword" => text = calls'[k].meant
  BY <1>2 DEF Own
<1>4. \A j, k \in DOMAIN calls' : Mutation[calls'[j].do].closes /\ Mutation[calls'[k].do].closes => j = k
  BY DEF Matched, Closes
<1> QED BY <1>1, <1>3, <1>4 DEF Matched, Own, Closes

LEMMA MatchedStep ==
    ASSUME Types, TextFits, ~Closed => Matched, Next, ~Closed'
    PROVE  Matched'
<1>0. /\ PageIs /\ DialogOK /\ calls \in Seq(PageCall)
      /\ DOMAIN calls = 1..Len(calls) /\ Len(calls) \in Nat
      /\ \A k \in DOMAIN calls : calls[k] \in PageCall
  BY LenProperties DEF Types
<1>1. ~Closed /\ Matched
  BY Drift DEF Closed, Types
<1>2. UNCHANGED world /\ Mutation' = Mutation
  BY PageStays, TablesStay
<1>3. ASSUME UNCHANGED calls, \A k \in DOMAIN calls : ~Closes(k) PROVE Matched'
  BY <1>2, <1>3 DEF Matched, Closes
<1>4. CASE UNCHANGED <<calls, dialog, text>>
  BY <1>1, <1>2, <1>4, SameMatched
<1>5. ASSUME NEW d \in DOMAIN Mutation, NEW i \in Items \cup {None}, OpenDialog(d, i) PROVE Matched'
  BY <1>1, <1>3, <1>5, NoneCloses DEF OpenDialog
<1>6. ASSUME NEW d \in DOMAIN Mutation, NEW i \in Items, ClickRow(d, i) PROVE Matched'
  <2>1. Mutate(d, i) /\ d \in AtOnce /\ dialog = NoDialog /\ UNCHANGED <<world, text>>
    BY <1>2, <1>6 DEF ClickRow
  <2>2. ~Mutation[d].closes /\ ~Mutation[d].fromDialog
    BY <1>0, <2>1, Tables
  <2>3. ~Mutation[d].typed
    BY <1>0, <2>2, Tables
  <2>4. \A k \in DOMAIN calls : ~Closes(k)
    BY <1>1, <2>1, NoneCloses
  <2> QED BY <2>1, <2>2, <2>3, <2>4, MutateMatched
<1>7. CASE ConfirmSite \/ ConfirmUser \/ CreateCert \/ ConfirmCert
  <2>1. Enabled /\ Ask /\ dialog.do # "none" /\ ~Pending(dialog.do)
    BY <1>7 DEF ConfirmSite, ConfirmUser, CreateCert, ConfirmCert, Enabled
  <2>2. /\ dialog.do \in DOMAIN Mutation /\ dialog.item \in Items \cup {None}
        /\ Mutation[dialog.do].typed /\ dialog.do # "resetPassword" => text = dialog.item
    BY <2>1, TypedFits DEF Enabled
  <2>3. Mutate(dialog.do, dialog.item) /\ UNCHANGED <<world, text>>
    BY <2>1 DEF Ask
  <2>4. \A k \in DOMAIN calls : ~Closes(k)
    BY <1>1, <2>1, NoneCloses
  <2>5. Mutation[dialog.do].closes => dialog' = dialog
    <3>1. dialog.do = "stop" \/ UNCHANGED dialog
      BY <1>7 DEF ConfirmSite, ConfirmUser, CreateCert, ConfirmCert
    <3>2. dialog.do = "stop" => ~Mutation[dialog.do].closes
      BY <1>0, <2>2, Tables
    <3> QED BY <3>1, <3>2
  <2> QED BY <2>2, <2>3, <2>4, <2>5, MutateMatched
<1>8. CASE Type
  <2>1. text' = dialog.item /\ UNCHANGED <<calls, dialog>>
    BY <1>8 DEF Type
  <2> QED BY <1>1, <1>2, <2>1 DEF Matched, Closes, Own
<1>9. CASE Enter
  BY <1>9 DEF Enter, Happens, Closed
<1>10. CASE Cancel
  <2>1. dialog.do # "none" /\ ~Pending(dialog.do) /\ UNCHANGED calls
    BY <1>10 DEF Cancel, If, Happens, Closed
  <2> QED BY <1>1, <1>3, <2>1, NoneCloses
<1>11. CASE Away
  <2>1. /\ calls' = [k \in DOMAIN calls |-> [Frozen(calls[k]) EXCEPT !.here = FALSE]]
        /\ dialog = NoDialog
    BY <1>11 DEF Away
  <2>2. ASSUME NEW k \in DOMAIN calls PROVE ~Mutation[calls'[k].do].closes
    <3>1. calls'[k].do = calls[k].do
      <4>1. PICK f \in PageCall : f = Frozen(calls[k]) /\ f.do = calls[k].do
        BY <1>0, FrozenParts
      <4>2. calls'[k] = [f EXCEPT !.here = FALSE]
        BY <2>1, <4>1
      <4> QED BY <4>1, <4>2 DEF PageCall
    <3> QED BY <1>1, <2>1, <3>1, NoneCloses DEF Closes
  <2> QED BY <1>2, <2>1, <2>2 DEF Matched, Closes
<1>12. CASE Online
  <2>1. calls' = [k \in DOMAIN calls |-> Resumed(calls[k])] /\ UNCHANGED <<dialog, text>>
    BY <1>12 DEF Online
  <2>2. ASSUME NEW k \in DOMAIN calls
        PROVE  /\ calls'[k].do = calls[k].do /\ calls'[k].meant = calls[k].meant
               /\ calls'[k].watched = calls[k].watched
    <3>1. PICK c \in PageCall : c = calls[k]
      BY <1>0
    <3>2. calls'[k] = Resumed(c)
      BY <2>1, <3>1
    <3>3. Resumed(c).meant = c.meant /\ Resumed(c).watched = c.watched
      BY <1>0, ResumedParts
    <3>4. Resumed(c).do = c.do
      <4>1. CASE c.state = "paused" /\ c.watched /\ Mutation[c.do].fromDialog
        <5>1. Mutation[c.do].closes
          BY <1>0, <4>1, CallParts, Tables
        <5>2. dialog.do = c.do
          BY <1>1, <3>1, <5>1 DEF Matched, Closes, Own
        <5> QED BY <1>0, <4>1, <5>2, ResumedParts
      <4>2. CASE ~(c.state = "paused" /\ c.watched /\ Mutation[c.do].fromDialog)
        BY <1>0, <4>2, ResumedParts
      <4> QED BY <4>1, <4>2
    <3> QED BY <3>1, <3>2, <3>3, <3>4
  <2>3. DOMAIN calls' = DOMAIN calls
    BY <2>1
  <2> QED BY <1>1, <1>2, <2>1, <2>2, <2>3, SameMatched
<1>13. ASSUME NEW k \in DOMAIN calls, Acts(k) \/ Refuse(k) \/ Lose(k) PROVE Matched'
  <2>1. PICK e : /\ calls' = [calls EXCEPT ![k] = e]
                 /\ e.do = calls[k].do /\ e.meant = calls[k].meant /\ e.watched = calls[k].watched
    <3>1. PICK c \in PageCall : c = calls[k]
      BY <1>0
    <3>2. CASE Acts(k)
      <4>1. PICK s \in {"inserted", "done", "refused"}, i \in Items \cup {None} : Acted(k, s, i)
        BY <1>0, <3>2, ActsParts
      <4>2. PICK e : /\ calls' = [calls EXCEPT ![k] = e]
                     /\ e.do = calls[k].do /\ e.meant = calls[k].meant /\ e.watched = calls[k].watched
        BY <1>0, <4>1, ActedOne
      <4> QED BY <4>2
    <3>3. ASSUME NEW s, calls' = [calls EXCEPT ![k].state = s]
          PROVE  \E e : /\ calls' = [calls EXCEPT ![k] = e]
                        /\ e.do = calls[k].do /\ e.meant = calls[k].meant
                        /\ e.watched = calls[k].watched
      <4>1. calls' = [calls EXCEPT ![k] = [c EXCEPT !.state = s]]
        BY <3>1, <3>3
      <4>2. /\ [c EXCEPT !.state = s].do = c.do /\ [c EXCEPT !.state = s].meant = c.meant
            /\ [c EXCEPT !.state = s].watched = c.watched
        BY DEF PageCall
      <4> QED BY <3>1, <4>1, <4>2
    <3>4. CASE Refuse(k)
      BY <3>3, <3>4 DEF Refuse
    <3>5. CASE Lose(k)
      BY <3>3, <3>5 DEF Lose
    <3> QED BY <1>13, <3>2, <3>4, <3>5
  <2>2. DOMAIN calls' = DOMAIN calls /\ \A j \in DOMAIN calls : calls'[j] = IF j = k THEN e ELSE calls[j]
    BY <2>1
  <2>3. UNCHANGED <<dialog, text>>
    BY <1>13 DEF Acts, Serve, ServeThenFail, Insert, Fill, Withdraw, Acted, Refuse, Lose
  <2> QED BY <1>1, <1>2, <2>1, <2>2, <2>3, SameMatched
<1>14. ASSUME NEW k \in DOMAIN calls, Answer(k) PROVE Matched'
  <2>1. calls' = RemoveAt(calls, k) /\ k \in 1..Len(calls)
    BY <1>0, <1>14 DEF Answer
  <2> DEFINE at(j) == IF j < k THEN j ELSE j + 1
  <2>2. /\ calls' \in Seq(PageCall) /\ Len(calls') = Len(calls) - 1
        /\ \A j \in 1..(Len(calls) - 1) : calls'[j] = calls[at(j)]
    BY <1>0, <2>1, RemoveAtElements
  <2>3. DOMAIN calls' = 1..(Len(calls) - 1)
    BY <2>2, LenProperties
  <2>4. /\ \A j \in DOMAIN calls' : at(j) \in DOMAIN calls /\ at(j) # k
        /\ \A i, j \in DOMAIN calls' : at(i) = at(j) => i = j
    BY <1>0, <2>1, <2>3
  <2> HIDE DEF at
  <2>5. \A j \in DOMAIN calls' : calls'[j] = calls[at(j)]
    BY <2>2, <2>3
  <2>6. \A i, j \in DOMAIN calls' : Mutation[calls'[i].do].closes /\ Mutation[calls'[j].do].closes => i = j
    BY <1>1, <2>4, <2>5 DEF Matched, Closes
  <2>7. CASE UNCHANGED <<dialog, text>>
    <3>1. \A j \in DOMAIN calls' : Mutation[calls'[j].do].closes => Own(calls'[j], Mutation)
      BY <1>1, <2>4, <2>5 DEF Matched, Closes, Own
    <3>2. \A j \in DOMAIN calls' : Mutation'[calls'[j].do].closes => Own(calls[at(j)], Mutation)
      BY <1>1, <1>2, <2>4, <2>5 DEF Matched, Closes
    <3> QED BY <1>2, <2>5, <2>6, <2>7, <3>1, <3>2 DEF Matched, Own, Closes
  <2>8. CASE Closes(k)
    <3>1. \A j \in DOMAIN calls' : ~Mutation[calls'[j].do].closes
      BY <1>1, <2>4, <2>5, <2>8 DEF Matched, Closes
    <3> QED BY <1>2, <3>1 DEF Matched, Closes
  <2>9. CASE ~Closes(k)
    <3>1. calls[k].do \in DOMAIN Mutation
      BY <1>0, CallParts
    <3>2. Mutation[calls[k].do].clears => calls[k].do \in {"lock", "unlock", "resetPassword"}
      BY <1>0, <3>1, Tables
    <3>3. ~Mutation[calls[k].do].clears
      <4>1. calls[k].do \in {"lock", "unlock", "resetPassword"} => Mutation[calls[k].do].closes
        BY <1>0, <3>1, Tables DEF AtOnce
      <4> QED BY <2>9, <3>2, <4>1 DEF Closes
    <3>4. UNCHANGED <<dialog, text>>
      BY <1>14, <2>9, <3>3 DEF Answer, Success, Failure, Closes
    <3> QED BY <2>7, <3>4
  <2> QED BY <2>8, <2>9
<1>15. CASE User
  BY <1>5, <1>6, <1>7, <1>8, <1>9, <1>10, <1>11, <1>15 DEF User
<1>16. CASE Progress
  BY <1>4, <1>13, <1>14, <1>16 DEF Progress, Acts, FetchServe, FetchArrives, FetchOwed
<1>17. CASE Environment
  BY <1>4, <1>12, <1>13, <1>17 DEF Environment, Offline, LoseList, OtherAdmin
<1> QED BY <1>15, <1>16, <1>17 DEF Next

(* What its own dialog waits for does not throw. *)
LEMMA ToldStep ==
    ASSUME Types, Meant, Next
    PROVE  DoneIsTold'
<1>0. /\ PageIs /\ DOMAIN calls = 1..Len(calls)
      /\ \A k \in DOMAIN calls : calls[k] \in PageCall
  BY LenProperties DEF Types
<1>1. Closed => Closed'
  BY Drift DEF Closed, Types
<1>2. CASE UNCHANGED misled
  BY <1>1, <1>2 DEF Meant, DoneIsTold
<1>3. ASSUME NEW k \in DOMAIN calls, Failure(k), misled' # misled
      PROVE  DoneIsTold'
  <2>1. PICK c \in PageCall : c = calls[k]
    BY <1>0
  <2>2. c.did /\ c.state # "lost" /\ misled' = misled \cup {c.do}
    BY <1>3, <2>1 DEF Failure
  <2>3. c.state = "done" \/ c.do \in Halfway
    BY <1>3, <2>1, <2>2 DEF Meant, Sound, Failure
  <2>4. ASSUME c.do \notin Halfway PROVE c.do \in {"lock", "unlock"} /\ Closed
    <3>1. Throws(c)
      BY <1>3, <2>1, <2>3, <2>4 DEF Failure
    <3>2. c.do \in {"lock", "unlock"} /\ Mutation[c.do].closes
      BY <1>0, <3>1, CallParts, Tables DEF Throws, AtOnce, Creates
    <3>3. ASSUME ~Closed PROVE FALSE
      <4>1. c.watched /\ dialog.do = c.do
        BY <2>1, <3>2, <3>3 DEF Meant, Matched, Closes, Own
      <4>2. DialogOf(c.do)
        BY <3>2, <4>1 DEF DialogOf
      <4> QED BY <3>1, <4>1, <4>2 DEF Throws
    <3> QED BY <3>2, <3>3
  <2> QED BY <1>1, <2>2, <2>4 DEF Meant, DoneIsTold
<1>4. CASE User
  BY <1>2, <1>4 DEF User, OpenDialog, ClickRow, ConfirmSite, ConfirmUser, CreateCert, ConfirmCert,
         Ask, Type, Enter, Cancel, Away
<1>5. CASE Progress
  BY <1>2, <1>3, <1>5 DEF Progress, Serve, Refuse, ServeThenFail, Insert, Fill, Withdraw, Acted, Answer,
         Success, FetchServe, FetchArrives, FetchOwed
<1>6. CASE Environment
  BY <1>2, <1>6 DEF Environment, Offline, Online, LoseList, Lose, OtherAdmin
<1> QED BY <1>4, <1>5, <1>6 DEF Next

LEMMA MeantInit == Init => Meant
<1> SUFFICES ASSUME Init PROVE Meant
  OBVIOUS
<1>1. DOMAIN calls = {}
  BY EmptySeq, LenProperties DEF Init
<1>2. dialog.do = "none" /\ text = None /\ misled = {}
  BY DEF Init, NoDialog
<1> QED BY <1>1, <1>2 DEF Meant, TextFits, Matched, DoneIsTold

LEMMA MeantStep == Types /\ Meant /\ [Next]_vars => Meant'
<1>1. ASSUME Types, Meant, Next PROVE Meant'
  <2>1. TextFits'
    BY <1>1, TextStep DEF Meant
  <2>2. (~Closed => Matched)'
    BY <1>1, MatchedStep DEF Meant
  <2>3. (\A k \in DOMAIN calls : Sound(calls[k], Mutation, Closed))'
    BY <1>1, SoundStep
  <2>4. DoneIsTold'
    BY <1>1, ToldStep
  <2> QED BY <2>1, <2>2, <2>3, <2>4 DEF Meant
<1>2. ASSUME Meant, UNCHANGED vars PROVE Meant'
  BY <1>2 DEF vars, Meant, TextFits, Matched, Closes, Own, DoneIsTold, Closed, Mutation
<1> QED BY <1>1, <1>2

LEMMA MeantAlways == Spec => [](Types /\ Meant)
BY TypesInit, TypesStep, MeantInit, MeantStep, PTL DEF Spec

(* ConfirmedIsDone: what the server is asked to do, it is asked for the row  *)
(* the user pressed the button on, with what was typed for that row.         *)
THEOREM WhatIsDoneWasConfirmed == Spec => []ConfirmedIsDone
<1>1. Types /\ Meant => ConfirmedIsDone
  BY DEF Meant, Sound, Meaning, ConfirmedIsDone
<1> QED BY <1>1, MeantAlways, PTL

(* DoneIsTold: what is told as failed has changed no row, but the lock of a  *)
(* site whose dialog was closed, and a certificate issued, renewed or        *)
(* replaced.                                                                 *)
THEOREM WhatIsDoneIsTold == Spec => []DoneIsTold
<1>1. Types /\ Meant => DoneIsTold
  BY DEF Meant
<1> QED BY <1>1, MeantAlways, PTL

-----------------------------------------------------------------------------
(* The list at rest is the server's *)

(* A request done whose answer is still to ask for the list. *)
Untold == \E k \in DOMAIN calls : calls[k].did /\ Mutation[calls[k].do].lists

(* Where the change is that the list shown may not have. *)
Fresh == \/ Untold
         \/ fetch.state \in {"owed", "asked"}
         \/ fetch.state = "answered" /\ fetch.rows = rows
         \/ fetch.state = "idle" /\ loaded /\ list = rows

Current == ~missed => Fresh

LEMMA CurrentStep == Types /\ Meant /\ Current /\ [Next]_vars => Current'
<1> SUFFICES ASSUME Types, Meant, Current, [Next]_vars PROVE Current'
  OBVIOUS
<1>1. CASE UNCHANGED vars
  BY <1>1 DEF vars, Current, Fresh, Untold, Mutation
<1> SUFFICES ASSUME Next PROVE Current'
  BY <1>1
<1>0. /\ PageIs /\ calls \in Seq(PageCall) /\ DialogOK /\ online \in BOOLEAN
      /\ DOMAIN calls = 1..Len(calls) /\ Len(calls) \in Nat
      /\ \A k \in DOMAIN calls : calls[k] \in PageCall
  BY LenProperties DEF Types, RestOK
<1>2. UNCHANGED world /\ Mutation' = Mutation
  BY PageStays, TablesStay
<1>3. ASSUME UNCHANGED <<rows, query, missed>>, Untold => Untold' PROVE Current'
  BY <1>3 DEF Current, Fresh, query
<1>4. ASSUME UNCHANGED calls PROVE Untold' = Untold
  BY <1>2, <1>4 DEF Untold
<1>5. CASE UNCHANGED <<rows, query, missed, calls>>
  BY <1>3, <1>4, <1>5
<1>6. ASSUME NEW d \in DOMAIN Mutation, NEW i \in Items \cup {None}, Mutate(d, i),
             UNCHANGED <<rows, query, missed>>
      PROVE  Current'
  <2>1. /\ calls' \in Seq(PageCall) /\ Len(calls') = Len(calls) + 1
        /\ \A k \in 1..Len(calls) :
             calls'[k] = IF Object(calls[k].do) = Object(d) THEN Frozen(calls[k]) ELSE calls[k]
    BY <1>0, <1>6, MutateCalls
  <2>2. DOMAIN calls' = 1..(Len(calls) + 1)
    BY <2>1, LenProperties
  <2>3. \A k \in DOMAIN calls :
           k \in DOMAIN calls' /\ calls'[k].did = calls[k].did /\ calls'[k].do = calls[k].do
    BY <1>0, <2>1, <2>2, FrozenParts
  <2>4. Untold => Untold'
    BY <1>2, <2>3 DEF Untold
  <2> QED BY <1>3, <1>6, <2>4
<1>7. ASSUME NEW d \in DOMAIN Mutation, NEW i \in Items, ClickRow(d, i) PROVE Current'
  BY <1>6, <1>7 DEF ClickRow
<1>8. CASE ConfirmSite \/ ConfirmUser \/ CreateCert \/ ConfirmCert \/ Enter
  <2>1. /\ Mutate(dialog.do, dialog.item) /\ dialog.do # "none"
        /\ UNCHANGED <<rows, query, missed>>
    BY <1>8 DEF ConfirmSite, ConfirmUser, CreateCert, ConfirmCert, Enter, Enabled, Ask
  <2>2. dialog.do \in DOMAIN Mutation /\ dialog.item \in Items \cup {None}
    BY <1>0, <2>1 DEF DialogOK
  <2> QED BY <1>6, <2>1, <2>2
<1>9. CASE Away
  <2>1. /\ calls' = [k \in DOMAIN calls |-> [Frozen(calls[k]) EXCEPT !.here = FALSE]]
        /\ fetch' = IF fetch.state = "idle" THEN Asked ELSE fetch
        /\ UNCHANGED <<rows, list, loaded, missed>>
    BY <1>9 DEF Away
  <2>2. ASSUME NEW k \in DOMAIN calls
        PROVE  calls'[k].did = calls[k].did /\ calls'[k].do = calls[k].do
    <3>1. PICK f \in PageCall : f = Frozen(calls[k]) /\ f.do = calls[k].do /\ f.did = calls[k].did
      BY <1>0, FrozenParts
    <3>2. calls'[k] = [f EXCEPT !.here = FALSE]
      BY <2>1, <3>1
    <3> QED BY <3>1, <3>2 DEF PageCall
  <2>3. Untold => Untold'
    BY <1>2, <2>1, <2>2 DEF Untold
  <2>4. fetch.state = "idle" => fetch'.state \in {"owed", "asked"}
    BY <2>1 DEF Asked, Loading
  <2> QED BY <2>1, <2>3, <2>4 DEF Current, Fresh
<1>10. ASSUME NEW k \in DOMAIN calls, Acts(k) PROVE Current'
  <2>1. PICK s \in {"inserted", "done", "refused"}, i \in Items \cup {None} : Acted(k, s, i)
    BY <1>0, <1>10, ActsParts
  <2>2. PICK e : calls' = [calls EXCEPT ![k] = e] /\ e.do = calls[k].do /\ e.did = TRUE
    BY <1>0, <2>1, ActedOne
  <2>3. UNCHANGED <<query, missed>>
    BY <2>1 DEF Acted
  <2>4. /\ DOMAIN calls' = DOMAIN calls /\ calls'[k].did = TRUE
        /\ \A j \in DOMAIN calls : calls'[j].do = calls[j].do /\ (calls[j].did => calls'[j].did)
    <3>1. \A j \in DOMAIN calls : calls'[j] = IF j = k THEN e ELSE calls[j]
      BY <2>2
    <3> QED BY <2>2, <3>1
  <2>5. CASE Mutation[calls[k].do].lists
    <3>1. Untold'
      BY <1>2, <2>4, <2>5 DEF Untold
    <3> QED BY <3>1 DEF Current, Fresh
  <2>6. CASE ~Mutation[calls[k].do].lists
    <3>1. calls[k].do = "resetPassword"
      BY <1>0, <2>6, CallParts, Tables
    <3>2. rows' = rows
      <4>1. Serve(k)
        BY <1>10, <3>1 DEF Acts, ServeThenFail, Insert, Fill, Withdraw, Inserts
      <4>2. rows' = [rows EXCEPT ![calls[k].item] = Changed("resetPassword", @)]
        BY <3>1, <4>1 DEF Serve, Done, Creates
      <4>3. \A r : Changed("resetPassword", r) = r
        BY DEF Changed
      <4>4. rows \in PageRows
        BY DEF Types, DataOK
      <4>5. rows' = [rows EXCEPT ![calls[k].item] = rows[calls[k].item]]
        BY <4>2, <4>3
      <4> QED BY <4>4, <4>5 DEF PageRows
    <3>3. Untold => Untold'
      BY <1>2, <2>4 DEF Untold
    <3> QED BY <1>3, <2>3, <3>2, <3>3
  <2> QED BY <2>5, <2>6
<1>11. ASSUME NEW k \in DOMAIN calls, NEW s, calls' = [calls EXCEPT ![k].state = s],
              UNCHANGED <<rows, query, missed>>
       PROVE  Current'
  <2>1. PICK c \in PageCall : c = calls[k]
    BY <1>0
  <2>2. PICK e : e = [c EXCEPT !.state = s] /\ e.do = c.do /\ e.did = c.did
    <3>1. [c EXCEPT !.state = s].do = c.do /\ [c EXCEPT !.state = s].did = c.did
      BY DEF PageCall
    <3> QED BY <3>1
  <2>3. \A j \in DOMAIN calls : calls'[j] = IF j = k THEN e ELSE calls[j]
    BY <1>11, <2>1, <2>2
  <2>4. DOMAIN calls' = DOMAIN calls
    BY <1>11
  <2>5. \A j \in DOMAIN calls : calls'[j].do = calls[j].do /\ calls'[j].did = calls[j].did
    BY <2>1, <2>2, <2>3
  <2>6. Untold => Untold'
    BY <1>2, <2>4, <2>5 DEF Untold
  <2> QED BY <1>3, <1>11, <2>6
<1>12. ASSUME NEW k \in DOMAIN calls, Refuse(k) \/ Lose(k) PROVE Current'
  BY <1>11, <1>12 DEF Refuse, Lose
<1>13. ASSUME NEW k \in DOMAIN calls, Answer(k) PROVE Current'
  <2>1. calls' = RemoveAt(calls, k) /\ k \in 1..Len(calls) /\ UNCHANGED <<rows, list, loaded>>
    BY <1>0, <1>13 DEF Answer
  <2>2. /\ calls' \in Seq(PageCall) /\ Len(calls') = Len(calls) - 1
        /\ \A j \in 1..(Len(calls) - 1) : calls'[j] = calls[IF j < k THEN j ELSE j + 1]
    BY <1>0, <2>1, RemoveAtElements
  <2>3. DOMAIN calls' = 1..(Len(calls) - 1)
    BY <2>2, LenProperties
  <2>4. ASSUME NEW j \in DOMAIN calls, j # k PROVE \E i \in DOMAIN calls' : calls'[i] = calls[j]
    <3>1. CASE j < k
      <4>1. j \in 1..(Len(calls) - 1)
        BY <1>0, <2>1, <3>1
      <4> QED BY <2>2, <2>3, <3>1, <4>1
    <3>2. CASE ~(j < k)
      <4>1. j - 1 \in 1..(Len(calls) - 1) /\ ~(j - 1 < k) /\ (j - 1) + 1 = j
        BY <1>0, <2>1, <2>4, <3>2
      <4> QED BY <2>2, <2>3, <4>1
    <3> QED BY <3>1, <3>2
  <2>5. (\E j \in DOMAIN calls : j # k /\ calls[j].did /\ Mutation[calls[j].do].lists) => Untold'
    BY <1>2, <2>4 DEF Untold
  <2>6. CASE Success(k) /\ Mutation[calls[k].do].lists
    <3>1. fetch' = Asked /\ missed' = (missed \/ Loading)
      BY <2>6 DEF Success
    <3>2. ~Loading => fetch'.state \in {"owed", "asked"}
      BY <3>1 DEF Asked
    <3> QED BY <3>1, <3>2 DEF Current, Fresh
  <2>7. CASE Success(k) /\ ~Mutation[calls[k].do].lists
    <3>1. fetch' = fetch /\ (missed' <=> missed)
      BY <2>7 DEF Success
    <3>2. Untold => Untold'
      BY <2>5, <2>7 DEF Untold
    <3> QED BY <2>1, <3>1, <3>2 DEF Current, Fresh
  <2>8. CASE Failure(k)
    <3>1. fetch' = fetch /\ (missed' <=> missed \/ calls[k].did)
      BY <2>8 DEF Failure
    <3>2. ~calls[k].did => (Untold => Untold')
      BY <2>5 DEF Untold
    <3> QED BY <2>1, <3>1, <3>2 DEF Current, Fresh
  <2> QED BY <1>13, <2>6, <2>7, <2>8 DEF Answer
<1>14. CASE FetchServe
  BY <1>14 DEF FetchServe, Current, Fresh
<1>15. CASE FetchArrives
  <2>1. Untold' = Untold
    BY <1>4, <1>15 DEF FetchArrives
  <2> QED BY <1>15, <2>1 DEF FetchArrives, Current, Fresh
<1>16. CASE FetchOwed
  BY <1>16 DEF FetchOwed, Current, Fresh, Types, DataOK
<1>17. CASE Online
  <2>1. /\ calls' = [k \in DOMAIN calls |-> Resumed(calls[k])]
        /\ fetch' = IF fetch.state = "idle" THEN [state |-> "owed", rows |-> list] ELSE fetch
        /\ UNCHANGED <<rows, list, loaded, missed>>
    BY <1>17 DEF Online
  <2>2. ASSUME NEW k \in DOMAIN calls, calls[k].did PROVE calls'[k] = calls[k]
    <3>1. calls[k].state # "paused"
      BY <2>2 DEF Meant, Sound
    <3> QED BY <1>0, <2>1, <3>1, ResumedParts
  <2>3. Untold => Untold'
    BY <1>2, <2>1, <2>2 DEF Untold
  <2>4. fetch.state = "idle" => fetch'.state = "owed"
    BY <2>1
  <2> QED BY <2>1, <2>3, <2>4 DEF Current, Fresh
<1>18. CASE LoseList \/ (\E d \in Requests, i \in Items : OtherAdmin(d, i))
  BY <1>18 DEF LoseList, OtherAdmin, Current
<1>19. CASE User
  BY <1>5, <1>7, <1>8, <1>9, <1>19 DEF User, OpenDialog, Type, Cancel
<1>20. CASE Progress
  BY <1>10, <1>12, <1>13, <1>14, <1>15, <1>16, <1>20 DEF Progress, Acts
<1>21. CASE Environment
  BY <1>5, <1>12, <1>17, <1>18, <1>21 DEF Environment, Offline
<1> QED BY <1>19, <1>20, <1>21 DEF Next

(* RowsAreCurrent: the list at rest is the server's, unless something was    *)
(* changed that nothing asked it again for.                                  *)
THEOREM ListsAreCurrent == Spec => []RowsAreCurrent
<1>1. Init => Current
  BY DEF Init, Current, Fresh
<1>2. Types /\ Meant /\ Current => RowsAreCurrent
  <2> SUFFICES ASSUME Current, Resting, ~missed PROVE list = rows
    BY DEF RowsAreCurrent
  <2>1. DOMAIN calls = {}
    BY EmptySeq, LenProperties DEF Resting
  <2> QED BY <2>1 DEF Current, Fresh, Untold, Resting
<1> QED BY <1>1, <1>2, CurrentStep, MeantAlways, PTL DEF Spec

=============================================================================
