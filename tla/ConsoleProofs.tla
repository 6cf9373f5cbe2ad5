---------------------------- MODULE ConsoleProofs ----------------------------
(***************************************************************************)
(* The tab of the application, for any faults and any bounds: its types    *)
(* are kept; the secret on screen is the stored one; nobody is left on the *)
(* setup page; and, answers arriving in order, a log-out sticks and a      *)
(* login lands.                                                            *)
(***************************************************************************)
EXTENDS Console, SequenceTheorems, FiniteSetTheorems, TLAPS

USE DEF OnScreen

-----------------------------------------------------------------------------
(* Sequences *)

(* An element taken out leaves the others, in their order. *)
LEMMA RemoveAtElements ==
    ASSUME NEW S, NEW w \in Seq(S), NEW k \in 1..Len(w)
    PROVE  /\ RemoveAt(w, k) \in Seq(S)
           /\ Len(RemoveAt(w, k)) = Len(w) - 1
           /\ \A i \in 1..(Len(w) - 1) :
                 RemoveAt(w, k)[i] = w[IF i < k THEN i ELSE i + 1]
<1> DEFINE a == SubSeq(w, 1, k - 1)
           b == SubSeq(w, k + 1, Len(w))
<1>0. Len(w) \in Nat /\ k \in Nat /\ k <= Len(w)
  OBVIOUS
<1>1. a \in Seq(S) /\ Len(a) = k - 1 /\ \A i \in 1..(k-1) : a[i] = w[i]
  BY SubSeqProperties
<1>2. b \in Seq(S) /\ Len(b) = Len(w) - k /\ \A i \in 1..(Len(w) - k) : b[i] = w[k + i]
  BY SubSeqProperties
<1>3. RemoveAt(w, k) = a \o b
  BY DEF RemoveAt
<1> HIDE DEF a, b
<1>4. /\ a \o b \in Seq(S) /\ Len(a \o b) = Len(w) - 1
      /\ \A i \in 1..(Len(w) - 1) : (a \o b)[i] = IF i <= k - 1 THEN a[i] ELSE b[i - (k - 1)]
  <2>1. /\ a \o b \in Seq(S) /\ Len(a \o b) = Len(a) + Len(b)
        /\ \A i \in 1..(Len(a) + Len(b)) : (a \o b)[i] = IF i <= Len(a) THEN a[i] ELSE b[i - Len(a)]
    BY <1>1, <1>2, ConcatProperties
  <2>2. Len(a) + Len(b) = Len(w) - 1
    BY <1>0, <1>1, <1>2
  <2> QED BY <1>1, <2>1, <2>2
<1>5. ASSUME NEW i \in 1..(Len(w) - 1)
      PROVE  (a \o b)[i] = w[IF i < k THEN i ELSE i + 1]
  <2>1. CASE i < k
    <3>1. i <= k - 1 /\ i \in 1..(k-1)
      BY <1>0, <2>1
    <3> QED BY <1>1, <1>4, <2>1, <3>1
  <2>2. CASE ~(i < k)
    <3>1. i - (k - 1) \in 1..(Len(w) - k) /\ ~(i <= k - 1) /\ k + (i - (k - 1)) = i + 1
      BY <1>0, <2>2
    <3>2. (a \o b)[i] = b[i - (k - 1)]
      BY <1>4, <3>1
    <3>3. b[i - (k - 1)] = w[k + (i - (k - 1))]
      BY <1>2, <3>1
    <3> QED BY <2>2, <3>1, <3>2, <3>3
  <2> QED BY <2>1, <2>2
<1> QED BY <1>3, <1>4, <1>5

-----------------------------------------------------------------------------
(* Requests in flight *)

(* Each request replaced by another: the queue is as long as it was. *)
LEMMA Replaced ==
    ASSUME NEW w \in Seq(Exchange), NEW v, v = [i \in DOMAIN w |-> v[i]],
           \A i \in DOMAIN w : v[i] \in Exchange
    PROVE  v \in Seq(Exchange) /\ Len(v) = Len(w) /\ DOMAIN v = DOMAIN w
<1>1. DOMAIN w = 1..Len(w) /\ Len(w) \in Nat
  BY LenProperties
<1>2. v \in [1..Len(w) -> Exchange]
  BY <1>1
<1>3. v \in Seq(Exchange)
  BY <1>1, <1>2, SeqDef
<1>4. DOMAIN v = 1..Len(v) /\ DOMAIN v = 1..Len(w) /\ Len(v) \in Nat
  BY <1>2, <1>3, LenProperties
<1> QED BY <1>1, <1>3, <1>4

(* The fields of a request. *)
LEMMA Fields ==
    ASSUME NEW r \in Exchange
    PROVE  /\ r.kind \in Kind /\ r.page \in Route \cup {"blank"} /\ r.tok \in Token
           /\ r.typed \in Typed /\ r.ans \in Answer /\ r.set \in Token \cup {"keep"}
           /\ r.qr \in OnScreen /\ r.live \in BOOLEAN
  BY DEF Exchange

(* When a page goes, what is in flight stays, but for its listeners. *)
LEMMA OrphanedWire ==
    ASSUME NEW w \in Seq(Exchange)
    PROVE  /\ Orphaned(w) \in Seq(Exchange)
           /\ Len(Orphaned(w)) = Len(w) /\ DOMAIN Orphaned(w) = DOMAIN w
           /\ \A i \in DOMAIN w :
                 /\ Orphaned(w)[i].kind = w[i].kind /\ Orphaned(w)[i].page = w[i].page
                 /\ Orphaned(w)[i].tok = w[i].tok /\ Orphaned(w)[i].typed = w[i].typed
                 /\ Orphaned(w)[i].ans = w[i].ans /\ Orphaned(w)[i].set = w[i].set
                 /\ Orphaned(w)[i].qr = w[i].qr
                 /\ Orphaned(w)[i].live = (w[i].live /\ w[i].kind = "me")
<1> DEFINE v == Orphaned(w)
<1>1. \A i \in DOMAIN w : w[i] \in Exchange
  BY LenProperties, ElementOfSeq
<1>2. /\ v = [i \in DOMAIN w |-> v[i]]
      /\ \A i \in DOMAIN w : v[i] = [w[i] EXCEPT !.live = w[i].live /\ w[i].kind = "me"]
  BY DEF Orphaned
<1> HIDE DEF v
<1>3. ASSUME NEW i \in DOMAIN w
      PROVE  /\ v[i] \in Exchange
             /\ v[i].kind = w[i].kind /\ v[i].page = w[i].page
             /\ v[i].tok = w[i].tok /\ v[i].typed = w[i].typed
             /\ v[i].ans = w[i].ans /\ v[i].set = w[i].set
             /\ v[i].qr = w[i].qr
             /\ v[i].live = (w[i].live /\ w[i].kind = "me")
  <2>1. w[i] \in Exchange /\ v[i] = [w[i] EXCEPT !.live = w[i].live /\ w[i].kind = "me"]
    BY <1>1, <1>2
  <2>2. (w[i].live /\ w[i].kind = "me") \in BOOLEAN
    OBVIOUS
  <2> QED BY <2>1, <2>2 DEF Exchange
<1>4. v \in Seq(Exchange) /\ Len(v) = Len(w) /\ DOMAIN v = DOMAIN w
  BY <1>2, <1>3, Replaced
<1> QED BY <1>3, <1>4 DEF v

(* A revoked token is one of the tokens. *)
LEMMA DeadToken == \A t \in Token : Dead(t) \in Token
  BY DEF Dead, Token

(* A cookie on its way, after the account's sessions were ended. *)
DeadCookie(c) == IF c = "keep" THEN c ELSE Dead(c)

(* Ended sessions change the tokens in flight, and nothing else of them. *)
LEMMA KilledWire ==
    ASSUME NEW w \in Seq(Exchange)
    PROVE  /\ Killed(w) \in Seq(Exchange)
           /\ Len(Killed(w)) = Len(w) /\ DOMAIN Killed(w) = DOMAIN w
           /\ \A i \in DOMAIN w :
                 /\ Killed(w)[i].kind = w[i].kind /\ Killed(w)[i].page = w[i].page
                 /\ Killed(w)[i].tok = Dead(w[i].tok) /\ Killed(w)[i].typed = w[i].typed
                 /\ Killed(w)[i].ans = w[i].ans /\ Killed(w)[i].set = DeadCookie(w[i].set)
                 /\ Killed(w)[i].qr = w[i].qr /\ Killed(w)[i].live = w[i].live
<1> DEFINE v == Killed(w)
<1>1. \A i \in DOMAIN w : w[i] \in Exchange
  BY LenProperties, ElementOfSeq
<1>2. /\ v = [i \in DOMAIN w |-> v[i]]
      /\ \A i \in DOMAIN w : v[i] = [w[i] EXCEPT !.tok = Dead(w[i].tok), !.set = DeadCookie(w[i].set)]
  BY DEF Killed, DeadCookie
<1> HIDE DEF v
<1>3. ASSUME NEW i \in DOMAIN w
      PROVE  /\ v[i] \in Exchange
             /\ v[i].kind = w[i].kind /\ v[i].page = w[i].page
             /\ v[i].tok = Dead(w[i].tok) /\ v[i].typed = w[i].typed
             /\ v[i].ans = w[i].ans /\ v[i].set = DeadCookie(w[i].set)
             /\ v[i].qr = w[i].qr /\ v[i].live = w[i].live
  <2>1. /\ w[i] \in Exchange
        /\ v[i] = [w[i] EXCEPT !.tok = Dead(w[i].tok), !.set = DeadCookie(w[i].set)]
    BY <1>1, <1>2
  <2>2. Dead(w[i].tok) \in Token /\ DeadCookie(w[i].set) \in Token \cup {"keep"}
    BY <2>1, DeadToken DEF Exchange, DeadCookie
  <2> QED BY <2>1, <2>2 DEF Exchange
<1>4. v \in Seq(Exchange) /\ Len(v) = Len(w) /\ DOMAIN v = DOMAIN w
  BY <1>2, <1>3, Replaced
<1> QED BY <1>3, <1>4 DEF v

(* A new secret ages those in flight, and changes nothing else of them. *)
LEMMA RekeyedWire ==
    ASSUME NEW w \in Seq(Exchange)
    PROVE  /\ Rekeyed(w) \in Seq(Exchange)
           /\ Len(Rekeyed(w)) = Len(w) /\ DOMAIN Rekeyed(w) = DOMAIN w
           /\ \A i \in DOMAIN w :
                 /\ Rekeyed(w)[i].kind = w[i].kind /\ Rekeyed(w)[i].page = w[i].page
                 /\ Rekeyed(w)[i].tok = w[i].tok /\ Rekeyed(w)[i].typed = w[i].typed
                 /\ Rekeyed(w)[i].ans = w[i].ans /\ Rekeyed(w)[i].set = w[i].set
                 /\ Rekeyed(w)[i].qr = Aged(w[i].qr) /\ Rekeyed(w)[i].live = w[i].live
<1> DEFINE v == Rekeyed(w)
<1>1. \A i \in DOMAIN w : w[i] \in Exchange
  BY LenProperties, ElementOfSeq
<1>2. /\ v = [i \in DOMAIN w |-> v[i]]
      /\ \A i \in DOMAIN w : v[i] = [w[i] EXCEPT !.qr = Aged(w[i].qr)]
  BY DEF Rekeyed
<1> HIDE DEF v
<1>3. ASSUME NEW i \in DOMAIN w
      PROVE  /\ v[i] \in Exchange
             /\ v[i].kind = w[i].kind /\ v[i].page = w[i].page
             /\ v[i].tok = w[i].tok /\ v[i].typed = w[i].typed
             /\ v[i].ans = w[i].ans /\ v[i].set = w[i].set
             /\ v[i].qr = Aged(w[i].qr) /\ v[i].live = w[i].live
  <2>1. w[i] \in Exchange /\ v[i] = [w[i] EXCEPT !.qr = Aged(w[i].qr)]
    BY <1>1, <1>2
  <2>2. Aged(w[i].qr) \in OnScreen
    BY <2>1 DEF Exchange, Aged
  <2> QED BY <2>1, <2>2 DEF Exchange
<1>4. v \in Seq(Exchange) /\ Len(v) = Len(w) /\ DOMAIN v = DOMAIN w
  BY <1>2, <1>3, Replaced
<1> QED BY <1>3, <1>4 DEF v

(* Another client has replaced the secret. *)
LEMMA OutdatedWire ==
    ASSUME NEW w \in Seq(Exchange)
    PROVE  /\ Outdated(w) \in Seq(Exchange)
           /\ Len(Outdated(w)) = Len(w) /\ DOMAIN Outdated(w) = DOMAIN w
           /\ \A i \in DOMAIN w :
                 /\ Outdated(w)[i].kind = w[i].kind /\ Outdated(w)[i].page = w[i].page
                 /\ Outdated(w)[i].tok = w[i].tok /\ Outdated(w)[i].typed = w[i].typed
                 /\ Outdated(w)[i].ans = w[i].ans /\ Outdated(w)[i].set = w[i].set
                 /\ Outdated(w)[i].qr = Superseded(w[i].qr) /\ Outdated(w)[i].live = w[i].live
<1> DEFINE v == Outdated(w)
<1>1. \A i \in DOMAIN w : w[i] \in Exchange
  BY LenProperties, ElementOfSeq
<1>2. /\ v = [i \in DOMAIN w |-> v[i]]
      /\ \A i \in DOMAIN w : v[i] = [w[i] EXCEPT !.qr = Superseded(w[i].qr)]
  BY DEF Outdated
<1> HIDE DEF v
<1>3. ASSUME NEW i \in DOMAIN w
      PROVE  /\ v[i] \in Exchange
             /\ v[i].kind = w[i].kind /\ v[i].page = w[i].page
             /\ v[i].tok = w[i].tok /\ v[i].typed = w[i].typed
             /\ v[i].ans = w[i].ans /\ v[i].set = w[i].set
             /\ v[i].qr = Superseded(w[i].qr) /\ v[i].live = w[i].live
  <2>1. w[i] \in Exchange /\ v[i] = [w[i] EXCEPT !.qr = Superseded(w[i].qr)]
    BY <1>1, <1>2
  <2>2. Superseded(w[i].qr) \in OnScreen
    BY <2>1 DEF Exchange, Superseded
  <2> QED BY <2>1, <2>2 DEF Exchange
<1>4. v \in Seq(Exchange) /\ Len(v) = Len(w) /\ DOMAIN v = DOMAIN w
  BY <1>2, <1>3, Replaced
<1> QED BY <1>3, <1>4 DEF v

(* A request added at the end. *)
LEMMA OneMore ==
    ASSUME NEW w \in Seq(Exchange), NEW r \in Exchange
    PROVE  /\ Append(w, r) \in Seq(Exchange) /\ Len(Append(w, r)) = Len(w) + 1
           /\ DOMAIN Append(w, r) = DOMAIN w \cup {Len(w) + 1}
           /\ Len(w) + 1 \notin DOMAIN w
           /\ \A i \in DOMAIN w : Append(w, r)[i] = w[i] /\ i < Len(w) + 1
           /\ Append(w, r)[Len(w) + 1] = r
<1>1. /\ Append(w, r) \in Seq(Exchange) /\ Len(Append(w, r)) = Len(w) + 1
      /\ \A i \in 1..Len(w) : Append(w, r)[i] = w[i]
      /\ Append(w, r)[Len(w) + 1] = r
  BY AppendProperties
<1>2. /\ DOMAIN w = 1..Len(w) /\ Len(w) \in Nat
      /\ DOMAIN Append(w, r) = 1..Len(Append(w, r))
  BY <1>1, LenProperties
<1> QED BY <1>1, <1>2

(* Where the request at place j of what is left, without the i-th, was. *)
Was(i, j) == IF j < i THEN j ELSE j + 1

(* A request taken out. *)
LEMMA OneLess ==
    ASSUME NEW w \in Seq(Exchange), NEW i \in DOMAIN w
    PROVE  /\ RemoveAt(w, i) \in Seq(Exchange) /\ Len(RemoveAt(w, i)) = Len(w) - 1
           /\ DOMAIN RemoveAt(w, i) = 1..(Len(w) - 1)
           /\ \A j \in DOMAIN RemoveAt(w, i) :
                 /\ RemoveAt(w, i)[j] = w[Was(i, j)]
                 /\ Was(i, j) \in DOMAIN w /\ Was(i, j) # i
           /\ \A j, k \in DOMAIN RemoveAt(w, i) : j < k <=> Was(i, j) < Was(i, k)
<1>1. DOMAIN w = 1..Len(w) /\ Len(w) \in Nat
  BY LenProperties
<1>2. /\ RemoveAt(w, i) \in Seq(Exchange) /\ Len(RemoveAt(w, i)) = Len(w) - 1
      /\ \A j \in 1..(Len(w) - 1) : RemoveAt(w, i)[j] = w[IF j < i THEN j ELSE j + 1]
  BY <1>1, RemoveAtElements
<1>3. DOMAIN RemoveAt(w, i) = 1..(Len(w) - 1)
  BY <1>2, LenProperties
<1> QED BY <1>1, <1>2, <1>3 DEF Was

-----------------------------------------------------------------------------
(* The server's answers *)

(* What becomes of a token when its account's sessions end, and what the     *)
(* gate of the signed-in routes says of one.                                 *)
LEMMA Tokens ==
    /\ Dead("none") = "none" /\ Dead("dead") = "dead" /\ Dead("spent") = "spent"
    /\ Dead("full") = "dead" /\ Dead("enroll") = "spent" /\ Dead("totp") = "spent"
    /\ Gate("full") = "ok" /\ Gate("none") = "401" /\ Gate("dead") = "401"
    /\ Gate("enroll") = "needsTotp" /\ Gate("totp") = "needsTotp" /\ Gate("spent") = "needsTotp"
  BY DEF Dead, Gate

(* The answers that a request of each kind can have. *)
Answers(k) ==
    CASE k = "me"       -> {"setup", "anon", "user"}
      [] k = "login"    -> {"needsSetup", "401", "totpNext", "enrollNext"}
      [] k = "setup"    -> {"refused", "ok"}
      [] k = "verify"   -> {"401", "ok"}
      [] k = "logout"   -> {"401", "needsTotp", "ok"}
      [] k \in {"enroll", "activate"} -> {"401", "refused", "ok"}
      [] k \in {"load", "init", "confirm", "passwd"} -> {"401", "needsTotp", "refused", "ok"}

(* The answers of each kind, case by case. *)
LEMMA AnswersOf ==
    /\ Answers("me") = {"setup", "anon", "user"}
    /\ Answers("login") = {"needsSetup", "401", "totpNext", "enrollNext"}
    /\ Answers("setup") = {"refused", "ok"}
    /\ Answers("verify") = {"401", "ok"}
    /\ Answers("logout") = {"401", "needsTotp", "ok"}
    /\ \A k \in {"enroll", "activate"} : Answers(k) = {"401", "refused", "ok"}
    /\ \A k \in {"load", "init", "confirm", "passwd"} :
          Answers(k) = {"401", "needsTotp", "refused", "ok"}
  BY DEF Answers

(* The answer, kind by kind. *)
LEMMA Replies ==
    ASSUME NEW r
    PROVE  /\ r.kind = "me" => Reply(r) = MeAnswer(r.tok)
           /\ r.kind = "login" =>
                Reply(r) = IF ~inited THEN "needsSetup"
                           ELSE IF r.typed = "wrong" THEN "401"
                           ELSE IF enrolled THEN "totpNext" ELSE "enrollNext"
           /\ r.kind = "setup" => Reply(r) = IF inited \/ r.typed = "wrong" THEN "refused" ELSE "ok"
           /\ r.kind = "enroll" =>
                Reply(r) = IF r.tok # "enroll" THEN "401" ELSE IF enrolled THEN "refused" ELSE "ok"
           /\ r.kind = "activate" =>
                Reply(r) = IF r.tok # "enroll" THEN "401"
                           ELSE IF enrolled \/ r.typed = "wrong" \/ r.qr # "current"
                                THEN "refused" ELSE "ok"
           /\ r.kind = "verify" =>
                Reply(r) = IF r.tok # "totp" \/ r.typed = "wrong" THEN "401" ELSE "ok"
           /\ r.kind = "logout" => Reply(r) = Gate(r.tok)
           /\ r.kind = "load" => Reply(r) = "refused" \/ Reply(r) = Gate(r.tok)
           /\ r.kind \in {"init", "passwd"} =>
                Reply(r) = IF Gate(r.tok) = "ok" /\ r.typed = "wrong" THEN "refused" ELSE Gate(r.tok)
           /\ r.kind = "confirm" =>
                Reply(r) = IF Gate(r.tok) # "ok" THEN Gate(r.tok)
                           ELSE IF ~pending \/ r.typed = "wrong" \/ r.qr # "current" THEN "refused" ELSE "ok"
  BY DEF Reply

(* The cookies that an answer to a request of a kind can carry, whether or   *)
(* not the account's sessions were ended since.                              *)
Sets(k, a) ==
    CASE a \in {"enrollNext", "totpNext"} -> {"enroll", "totp", "spent"}
      [] k = "setup" /\ a = "ok" -> {"enroll", "spent"}
      [] k \in {"activate", "verify", "passwd"} /\ a = "ok" -> {"full", "dead"}
      [] k = "logout" /\ a = "ok" -> {"none"}
      [] k = "load" /\ a = "ok" -> {"keep", "full", "dead"}
      [] OTHER -> {"keep"}

(* The cookies of each kind, case by case. *)
LEMMA SetsOf ==
    ASSUME NEW k, NEW a
    PROVE  /\ a \in {"enrollNext", "totpNext"} => Sets(k, a) = {"enroll", "totp", "spent"}
           /\ a \notin {"ok", "enrollNext", "totpNext"} => Sets(k, a) = {"keep"}
           /\ k = "setup" => Sets(k, "ok") = {"enroll", "spent"}
           /\ k \in {"activate", "verify", "passwd"} => Sets(k, "ok") = {"full", "dead"}
           /\ k = "logout" => Sets(k, "ok") = {"none"}
           /\ k = "load" => Sets(k, "ok") = {"keep", "full", "dead"}
           /\ k \in {"me", "login", "enroll", "init", "confirm"} => Sets(k, "ok") = {"keep"}
  BY DEF Sets

(* What a request is answered fits its kind, and so does the cookie.         *)
LEMMA Answered ==
    ASSUME NEW r \in Exchange
    PROVE  /\ Reply(r) \in Answers(r.kind) /\ Reply(r) \in Answer
           /\ Reply(r) \notin {"waiting", "lost"}
           /\ Cookies(r, Reply(r)) \subseteq Sets(r.kind, Reply(r))
           /\ Cookies(r, Reply(r)) \subseteq Token \cup {"keep"}
<1>1. r.kind \in Kind /\ r.tok \in Token
  BY Fields
<1>2. MeAnswer(r.tok) \in {"setup", "anon", "user"}
  BY DEF MeAnswer
<1>3. Gate(r.tok) \in {"ok", "401", "needsTotp"}
  BY <1>1, Tokens DEF Token
<1> DEFINE a == Reply(r)
<1>4. a \in Answers(r.kind)
  <2>1. CASE r.kind \in {"me", "login", "setup", "enroll"}
    BY <1>2, <2>1, Replies, AnswersOf
  <2>2. CASE r.kind \in {"activate", "verify", "logout", "load"}
    BY <1>3, <2>2, Replies, AnswersOf
  <2>3. CASE r.kind \in {"init", "passwd", "confirm"}
    BY <1>3, <2>3, Replies, AnswersOf
  <2> QED BY <1>1, <2>1, <2>2, <2>3 DEF Kind
<1> HIDE DEF a
<1>5. a \in Answer /\ a \notin {"waiting", "lost"}
  BY <1>1, <1>4, AnswersOf DEF Kind, Answer
<1>6. Cookies(r, a) \subseteq Sets(r.kind, a) /\ Cookies(r, a) \subseteq Token \cup {"keep"}
  <2>1. CASE a = "enrollNext"
    BY <2>1, SetsOf DEF Cookies, Token
  <2>2. CASE a = "totpNext"
    BY <2>2, SetsOf DEF Cookies, Token
  <2>3. CASE a \notin {"ok", "enrollNext", "totpNext"}
    BY <2>3, SetsOf DEF Cookies, Token
  <2>4. CASE a = "ok"
    <3>1. CASE r.kind = "setup"
      BY <2>4, <3>1, SetsOf DEF Cookies, Token
    <3>2. CASE r.kind \in {"activate", "verify", "passwd"}
      BY <2>4, <3>2, SetsOf DEF Cookies, Token
    <3>3. CASE r.kind = "logout"
      BY <2>4, <3>3, SetsOf DEF Cookies, Token
    <3>4. CASE r.kind = "load"
      BY <2>4, <3>4, SetsOf DEF Cookies, Token
    <3>5. CASE r.kind \in {"me", "login", "enroll", "init", "confirm"}
      BY <2>4, <3>5, SetsOf DEF Cookies, Token
    <3> QED BY <1>1, <3>1, <3>2, <3>3, <3>4, <3>5 DEF Kind
  <2> QED BY <2>1, <2>2, <2>3, <2>4
<1> QED BY <1>4, <1>5, <1>6 DEF a

-----------------------------------------------------------------------------
(* The steps, and what each makes of the queue *)

(* The requests that end the account's sessions, and those that replace its  *)
(* secret, when they succeed.                                                *)
Bumps(r)  == r.kind \in {"confirm", "passwd"} /\ Reply(r) \notin Failed
Rekeys(r) == r.kind \in {"enroll", "init"} /\ Reply(r) \notin Failed

(* A request that is served is answered; the others are only aged, or lose   *)
(* their sessions.                                                           *)
LEMMA Served ==
    ASSUME TypeOK, NEW i \in DOMAIN wire, Serve(i)
    PROVE  /\ wire' \in Seq(Exchange) /\ Len(wire') = Len(wire) /\ DOMAIN wire' = DOMAIN wire
           /\ wire[i].ans = "waiting" /\ wire'[i].ans = Reply(wire[i])
           /\ wire'[i].set \in Cookies(wire[i], Reply(wire[i]))
           /\ wire'[i].qr = IF Rekeys(wire[i]) THEN "current" ELSE wire[i].qr
           /\ \A j \in DOMAIN wire :
                 /\ wire'[j].kind = wire[j].kind /\ wire'[j].page = wire[j].page
                 /\ wire'[j].typed = wire[j].typed /\ wire'[j].live = wire[j].live
                 /\ wire'[j].tok = IF Bumps(wire[i]) THEN Dead(wire[j].tok) ELSE wire[j].tok
                 /\ j # i => /\ wire'[j].ans = wire[j].ans
                             /\ wire'[j].set = IF Bumps(wire[i]) THEN DeadCookie(wire[j].set) ELSE wire[j].set
                             /\ wire'[j].qr = IF Rekeys(wire[i]) THEN Aged(wire[j].qr) ELSE wire[j].qr
<1> DEFINE r == wire[i]
           a == Reply(r)
           others == IF Bumps(r) THEN Killed(wire) ELSE IF Rekeys(r) THEN Rekeyed(wire) ELSE wire
<1>0. wire \in Seq(Exchange) /\ r \in Exchange /\ \A j \in DOMAIN wire : wire[j] \in Exchange
  BY LenProperties, ElementOfSeq DEF TypeOK
<1>1. PICK c \in Cookies(r, a) :
        wire' = [others EXCEPT ![i].ans = a, ![i].set = c,
                               ![i].qr = IF Rekeys(r) THEN "current" ELSE @]
  BY DEF Serve, Bumps, Rekeys
<1>2. ~(Bumps(r) /\ Rekeys(r))
  BY DEF Bumps, Rekeys
<1>3. /\ others \in Seq(Exchange) /\ Len(others) = Len(wire) /\ DOMAIN others = DOMAIN wire
      /\ \A j \in DOMAIN wire :
            /\ others[j].kind = wire[j].kind /\ others[j].page = wire[j].page
            /\ others[j].typed = wire[j].typed /\ others[j].live = wire[j].live
            /\ others[j].ans = wire[j].ans
            /\ others[j].tok = IF Bumps(r) THEN Dead(wire[j].tok) ELSE wire[j].tok
            /\ others[j].set = IF Bumps(r) THEN DeadCookie(wire[j].set) ELSE wire[j].set
            /\ others[j].qr = IF Rekeys(r) THEN Aged(wire[j].qr) ELSE wire[j].qr
  BY <1>0, <1>2, KilledWire, RekeyedWire
<1>4. a \in Answer /\ c \in Token \cup {"keep"}
  BY <1>0, <1>1, Answered
<1>5. r.ans = "waiting"
  BY DEF Serve
<1> HIDE DEF others, a
<1> DEFINE q == IF Rekeys(r) THEN "current" ELSE others[i].qr
           e == [others[i] EXCEPT !.ans = a, !.set = c, !.qr = q]
<1>6. others[i] \in Exchange /\ q \in OnScreen
  BY <1>3, LenProperties, ElementOfSeq, Fields
<1>7. wire' = [others EXCEPT ![i] = e]
  BY <1>1
<1>8. /\ e \in Exchange /\ e.ans = a /\ e.set = c /\ e.qr = q
      /\ e.kind = others[i].kind /\ e.page = others[i].page
      /\ e.typed = others[i].typed /\ e.live = others[i].live /\ e.tok = others[i].tok
  BY <1>4, <1>6 DEF Exchange
<1> HIDE DEF e, q
<1>9. /\ wire' \in Seq(Exchange) /\ Len(wire') = Len(wire) /\ DOMAIN wire' = DOMAIN wire
      /\ \A j \in DOMAIN wire : wire'[j] = IF j = i THEN e ELSE others[j]
  BY <1>3, <1>7, <1>8, ExceptSeq, LenProperties
<1>10. q = IF Rekeys(r) THEN "current" ELSE wire[i].qr
  BY <1>3 DEF q
<1> QED BY <1>1, <1>3, <1>5, <1>8, <1>9, <1>10 DEF a

(* A request that is lost keeps everything but its answer. *)
LEMMA Lost ==
    ASSUME TypeOK, NEW i \in DOMAIN wire, Lose(i)
    PROVE  /\ wire' \in Seq(Exchange) /\ Len(wire') = Len(wire) /\ DOMAIN wire' = DOMAIN wire
           /\ wire'[i].ans = "lost" /\ wire'[i].set = "keep"
           /\ \A j \in DOMAIN wire :
                 /\ wire'[j].kind = wire[j].kind /\ wire'[j].page = wire[j].page
                 /\ wire'[j].typed = wire[j].typed /\ wire'[j].live = wire[j].live
                 /\ wire'[j].tok = wire[j].tok /\ wire'[j].qr = wire[j].qr
                 /\ j # i => wire'[j].ans = wire[j].ans /\ wire'[j].set = wire[j].set
<1> DEFINE e == [wire[i] EXCEPT !.ans = "lost", !.set = "keep"]
<1>0. wire \in Seq(Exchange) /\ wire[i] \in Exchange
  BY LenProperties, ElementOfSeq DEF TypeOK
<1>1. wire' = [wire EXCEPT ![i] = e]
  BY DEF Lose
<1>2. /\ e \in Exchange /\ e.ans = "lost" /\ e.set = "keep"
      /\ e.kind = wire[i].kind /\ e.page = wire[i].page /\ e.qr = wire[i].qr
      /\ e.typed = wire[i].typed /\ e.live = wire[i].live /\ e.tok = wire[i].tok
  BY <1>0 DEF Exchange, Answer
<1> HIDE DEF e
<1>3. /\ wire' \in Seq(Exchange) /\ Len(wire') = Len(wire) /\ DOMAIN wire' = DOMAIN wire
      /\ \A j \in DOMAIN wire : wire'[j] = IF j = i THEN e ELSE wire[j]
  BY <1>0, <1>1, <1>2, ExceptSeq, LenProperties
<1> QED BY <1>2, <1>3

(* What is sent. *)
LEMMA Requests ==
    ASSUME TypeOK, NEW k \in Kind, NEW typed \in Typed, NEW t \in Token
    PROVE  /\ Request(k, typed, t) \in Exchange
           /\ Request(k, typed, t).kind = k /\ Request(k, typed, t).page = shown
           /\ Request(k, typed, t).typed = typed /\ Request(k, typed, t).tok = t
           /\ Request(k, typed, t).ans = "waiting" /\ Request(k, typed, t).set = "keep"
           /\ Request(k, typed, t).qr = "none" /\ Request(k, typed, t).live
  BY DEF TypeOK, Request, Exchange, Answer

(* A request with another page. *)
LEMMA OnPage ==
    ASSUME NEW r \in Exchange, NEW p \in Route \cup {"blank"}
    PROVE  /\ [r EXCEPT !.page = p] \in Exchange /\ [r EXCEPT !.page = p].page = p
           /\ [r EXCEPT !.page = p].kind = r.kind /\ [r EXCEPT !.page = p].typed = r.typed
           /\ [r EXCEPT !.page = p].tok = r.tok /\ [r EXCEPT !.page = p].ans = r.ans
           /\ [r EXCEPT !.page = p].set = r.set /\ [r EXCEPT !.page = p].qr = r.qr
           /\ [r EXCEPT !.page = p].live = r.live
  BY DEF Exchange

(* The request for ["me"]. *)
LEMMA Asks ==
    ASSUME TypeOK, NEW t \in Token
    PROVE  /\ Ask(t) \in Exchange /\ Ask(t).kind = "me" /\ Ask(t).tok = t
           /\ Ask(t).ans = "waiting" /\ Ask(t).set = "keep" /\ Ask(t).qr = "none" /\ Ask(t).live
<1>1. "me" \in Kind /\ "right" \in Typed /\ "login" \in Route \cup {"blank"}
  BY DEF Kind, Typed, Route, Public
<1> QED BY <1>1, Requests, OnPage DEF Ask

(* The requests of queue v are some of those of w, in their order. *)
Within(v, w) ==
    \E f \in [1..Len(v) -> DOMAIN w] :
        /\ \A j \in 1..Len(v) : v[j] = w[f[j]]
        /\ \A j, k \in 1..Len(v) : j < k => f[j] < f[k]

(* At most one request for ["me"] is under way. *)
OneAsk(w) == \A i, j \in DOMAIN w : w[i].kind = "me" /\ w[j].kind = "me" => i = j

(* The request for ["me"] cancelled: nothing else goes with it. *)
LEMMA CancelledWire ==
    ASSUME NEW w \in Seq(Exchange), OneAsk(w)
    PROVE  /\ Cancelled(w) \in Seq(Exchange)
           /\ Len(Cancelled(w)) <= Len(w) /\ Len(Cancelled(w)) >= Len(w) - 1
           /\ Within(Cancelled(w), w)
           /\ \A j \in DOMAIN Cancelled(w) : Cancelled(w)[j].kind # "me"
           /\ \A i \in DOMAIN w : w[i].kind # "me" => \E j \in 1..Len(Cancelled(w)) : Cancelled(w)[j] = w[i]
<1> DEFINE u == Cancelled(w)
           asks == {i \in DOMAIN w : w[i].kind = "me"}
<1>0. DOMAIN w = 1..Len(w) /\ Len(w) \in Nat
  BY LenProperties
<1>1. CASE asks = {}
  <2>1. u = w
    BY <1>1 DEF Cancelled
  <2>2. Within(w, w)
    <3> DEFINE f == [j \in 1..Len(w) |-> j]
    <3>1. f \in [1..Len(w) -> DOMAIN w]
      BY <1>0
    <3>2. (\A j \in 1..Len(w) : w[j] = w[f[j]]) /\ (\A j, k \in 1..Len(w) : j < k => f[j] < f[k])
      OBVIOUS
    <3> HIDE DEF f
    <3> QED BY <3>1, <3>2 DEF Within
  <2> QED BY <1>0, <1>1, <2>1, <2>2
<1>2. CASE asks # {}
  <2>1. PICK m \in DOMAIN w : u = RemoveAt(w, m) /\ w[m].kind = "me"
    BY <1>2 DEF Cancelled
  <2> HIDE DEF u
  <2>2. /\ u \in Seq(Exchange) /\ Len(u) = Len(w) - 1 /\ DOMAIN u = 1..(Len(w) - 1)
        /\ \A j \in DOMAIN u : u[j] = w[Was(m, j)] /\ Was(m, j) \in DOMAIN w /\ Was(m, j) # m
        /\ \A j, k \in DOMAIN u : j < k <=> Was(m, j) < Was(m, k)
    BY <2>1, OneLess
  <2>3. Within(u, w)
    <3> DEFINE f == [j \in 1..Len(u) |-> Was(m, j)]
    <3>1. f \in [1..Len(u) -> DOMAIN w]
      BY <2>2
    <3>2. (\A j \in 1..Len(u) : u[j] = w[f[j]]) /\ (\A j, k \in 1..Len(u) : j < k => f[j] < f[k])
      BY <2>2
    <3> HIDE DEF f
    <3> QED BY <3>1, <3>2 DEF Within
  <2>4. \A j \in DOMAIN u : u[j].kind # "me"
    BY <2>1, <2>2 DEF OneAsk
  <2>5. ASSUME NEW i \in DOMAIN w, w[i].kind # "me"
        PROVE  \E j \in 1..Len(u) : u[j] = w[i]
    <3>1. i # m
      BY <2>1, <2>5
    <3>2. CASE i < m
      <4>1. i \in 1..Len(u) /\ Was(m, i) = i
        BY <1>0, <2>2, <3>2 DEF Was
      <4> QED BY <2>2, <4>1
    <3>3. CASE i > m
      <4>1. i - 1 \in 1..Len(u) /\ Was(m, i - 1) = i
        BY <1>0, <2>2, <3>3 DEF Was
      <4> QED BY <2>2, <4>1
    <3> QED BY <1>0, <3>1, <3>2, <3>3
  <2> QED BY <1>0, <2>2, <2>3, <2>4, <2>5 DEF u
<1> QED BY <1>1, <1>2

(* What a step may add to the faults that have happened. *)
LEMMA Faulty ==
    ASSUME TypeOK, NEW faults, Happens(faults)
    PROVE  /\ seen' \subseteq Faults /\ seen \subseteq seen' /\ faults \subseteq seen'
           /\ \A x, y \in seen' : x = y
<1>1. seen' = seen \cup faults /\ seen' \subseteq Faults /\ Cardinality(seen') <= 1
  BY DEF Happens, TypeOK
<1>2. IsFiniteSet(seen')
  <2>1. IsFiniteSet(FaultKinds)
    <3>1. /\ IsFiniteSet({"late"}) /\ IsFiniteSet({"lost"}) /\ IsFiniteSet({"otherTab"})
          /\ IsFiniteSet({"repeat"}) /\ IsFiniteSet({"hasty"}) /\ IsFiniteSet({"otherSetup"})
      BY FS_Singleton
    <3>2. IsFiniteSet({"late"} \cup {"lost"}) /\ IsFiniteSet({"otherTab"} \cup {"repeat"})
      BY <3>1, FS_Union
    <3>3. IsFiniteSet(({"late"} \cup {"lost"}) \cup ({"otherTab"} \cup {"repeat"}))
      BY <3>2, FS_Union
    <3>4. IsFiniteSet({"hasty"} \cup {"otherSetup"})
      BY <3>1, FS_Union
    <3>6. IsFiniteSet((({"late"} \cup {"lost"}) \cup ({"otherTab"} \cup {"repeat"}))
                         \cup ({"hasty"} \cup {"otherSetup"}))
      BY <3>3, <3>4, FS_Union
    <3>5. FaultKinds = (({"late"} \cup {"lost"}) \cup ({"otherTab"} \cup {"repeat"}))
                         \cup ({"hasty"} \cup {"otherSetup"})
      BY DEF FaultKinds
    <3> QED BY <3>5, <3>6
  <2> QED BY <1>1, <2>1, FaultsAssumption, FS_Subset
<1>3. ASSUME NEW x \in seen', NEW y \in seen', x # y PROVE FALSE
  <2>1. {x, y} \subseteq seen' /\ IsFiniteSet({x}) /\ Cardinality({x}) = 1
    BY FS_Singleton
  <2>2. IsFiniteSet({x} \cup {y}) /\ Cardinality({x} \cup {y}) = 2
    BY <1>3, <2>1, FS_AddElement
  <2>3. {x} \cup {y} \in SUBSET seen'
    BY <2>1
  <2>4. Cardinality({x} \cup {y}) <= Cardinality(seen') /\ Cardinality(seen') \in Nat
    BY <1>2, <2>3, FS_Subset, FS_CardinalityType
  <2> QED BY <1>1, <2>2, <2>4
<1> QED BY <1>1, <1>3

(* The request r is sent by a button, or by Enter. *)
Sends(r) ==
    /\ r \in Exchange /\ r.kind # "me" /\ r.ans = "waiting" /\ r.set = "keep" /\ r.live
    /\ r.tok = cookie /\ r.page = shown
    /\ wire' = Append(wire, r)
    /\ Rendered /\ Act
    /\ seen' \subseteq Faults /\ seen \subseteq seen' /\ \A x, y \in seen' : x = y
    /\ InFlight("me") => "hasty" \in seen'
    /\ r.kind = "login" => shown = "login" /\ ~InFlight("login")
    /\ r.kind = "setup" => shown = "setup" /\ ~InFlight("setup")
    /\ r.kind = "activate" => shown = "enroll"
    /\ r.kind = "verify" => shown = "verify"
    /\ r.kind = "init" => dialog /\ qr = "none" /\ (InFlight("init") => "repeat" \in seen')
    /\ r.kind = "confirm" => dialog /\ qr # "none"
    /\ r.kind = "passwd" => shown = "me"
    /\ r.kind \in {"logout", "load"} => shown \in Protected
    /\ r.kind # "enroll"
    /\ UNCHANGED <<server, cookie, me, page, last>>

(* The actions of the user that send something. *)
Sending ==
    \/ \E k \in Kind, typed \in Typed :
          SubmitForm(k, typed) \/ SubmitCode(k, typed) \/ SubmitPassword(k, typed)
    \/ Logout \/ Use

(* Each button, and Enter, sends one request. *)
LEMMA SendingSends ==
    ASSUME TypeOK, Sending
    PROVE  \E r : Sends(r)
<1>0. cookie \in Token /\ qr \in OnScreen
  BY DEF TypeOK
<1>k. /\ "load" \in Kind /\ "logout" \in Kind /\ "right" \in Typed
      /\ {"sites", "users"} \subseteq Protected
  BY DEF Kind, Typed, Protected
<1>1. ASSUME NEW k \in Kind, NEW typed \in Typed, SubmitForm(k, typed)
      PROVE  \E r : Sends(r)
  <2> DEFINE r == Request(k, typed, cookie)
  <2>1. /\ r \in Exchange /\ r.kind = k /\ r.page = shown /\ r.tok = cookie
        /\ r.ans = "waiting" /\ r.set = "keep" /\ r.live
    BY <1>0, Requests
  <2>2. wire' = Append(wire, r) /\ Rendered /\ Act /\ UNCHANGED <<server, cookie, me, page, last>>
    BY <1>1 DEF SubmitForm, Sent, Acts
  <2>3. /\ seen' \subseteq Faults /\ seen \subseteq seen' /\ (\A x, y \in seen' : x = y)
        /\ InFlight("me") => "hasty" \in seen'
    BY <1>1, Faulty DEF SubmitForm, Acts
  <2>4. k \in {"login", "setup"} /\ (k = "login" => LoginForm) /\ (k = "setup" => SetupForm)
    BY <1>1 DEF SubmitForm
  <2> HIDE DEF r
  <2>5. Sends(r)
    BY <2>1, <2>2, <2>3, <2>4 DEF Sends, LoginForm, SetupForm
  <2> QED BY <2>5
<1>2. ASSUME NEW k \in Kind, NEW typed \in Typed, SubmitCode(k, typed)
      PROVE  \E r : Sends(r)
  <2>0. PICK q : /\ q = Request(k, typed, cookie)
                 /\ q \in Exchange /\ q.kind = k /\ q.page = shown /\ q.tok = cookie
                 /\ q.ans = "waiting" /\ q.set = "keep" /\ q.live
    BY <1>0, Requests
  <2> DEFINE r == [q EXCEPT !.qr = qr]
  <2>1. /\ r \in Exchange /\ r.kind = k /\ r.page = shown /\ r.tok = cookie
        /\ r.ans = "waiting" /\ r.set = "keep" /\ r.live
    BY <1>0, <2>0 DEF Exchange
  <2>2. wire' = Append(wire, r) /\ Rendered /\ Act /\ UNCHANGED <<server, cookie, me, page, last>>
    BY <1>2, <2>0 DEF SubmitCode, Acts
  <2>3. /\ seen' \subseteq Faults /\ seen \subseteq seen' /\ (\A x, y \in seen' : x = y)
        /\ InFlight("me") => "hasty" \in seen'
    BY <1>2, Faulty DEF SubmitCode, Acts
  <2>4. /\ k \in {"activate", "verify", "confirm"}
        /\ (k = "activate" => EnrollForm) /\ (k = "verify" => VerifyForm)
        /\ (k = "confirm" => RebindForm /\ qr # "none")
    BY <1>2 DEF SubmitCode
  <2> HIDE DEF r
  <2>5. Sends(r)
    BY <2>1, <2>2, <2>3, <2>4 DEF Sends, EnrollForm, VerifyForm, RebindForm
  <2> QED BY <2>5
<1>3. ASSUME NEW k \in Kind, NEW typed \in Typed, SubmitPassword(k, typed)
      PROVE  \E r : Sends(r)
  <2> DEFINE r == Request(k, typed, cookie)
  <2>1. /\ r \in Exchange /\ r.kind = k /\ r.page = shown /\ r.tok = cookie
        /\ r.ans = "waiting" /\ r.set = "keep" /\ r.live
    BY <1>0, Requests
  <2>2. wire' = Append(wire, r) /\ Rendered /\ Act /\ UNCHANGED <<server, cookie, me, page, last>>
    BY <1>3 DEF SubmitPassword, Sent, Acts
  <2>3. /\ seen' \subseteq Faults /\ seen \subseteq seen' /\ (\A x, y \in seen' : x = y)
        /\ InFlight("me") => "hasty" \in seen'
        /\ InFlight(k) => "repeat" \in seen'
    BY <1>3, Faulty DEF SubmitPassword, Acts
  <2>4. /\ k \in {"init", "passwd"}
        /\ (k = "passwd" => PasswordForm) /\ (k = "init" => RebindForm /\ qr = "none")
    BY <1>3 DEF SubmitPassword
  <2> HIDE DEF r
  <2>5. Sends(r)
    BY <2>1, <2>2, <2>3, <2>4 DEF Sends, PasswordForm, RebindForm
  <2> QED BY <2>5
<1>4. ASSUME Logout PROVE \E r : Sends(r)
  <2> DEFINE r == Request("logout", "right", cookie)
  <2>1. /\ r \in Exchange /\ r.kind = "logout" /\ r.page = shown /\ r.tok = cookie
        /\ r.ans = "waiting" /\ r.set = "keep" /\ r.live
    BY <1>0, <1>k, Requests
  <2>2. /\ wire' = Append(wire, r) /\ Rendered /\ Act /\ UNCHANGED <<server, cookie, me, page, last>>
        /\ shown \in Protected
    BY <1>4 DEF Logout, Sent, Acts
  <2>3. /\ seen' \subseteq Faults /\ seen \subseteq seen' /\ (\A x, y \in seen' : x = y)
        /\ InFlight("me") => "hasty" \in seen'
    BY <1>4, Faulty DEF Logout, Acts
  <2> HIDE DEF r
  <2>5. Sends(r)
    BY <2>1, <2>2, <2>3 DEF Sends
  <2> QED BY <2>5
<1>5. ASSUME Use PROVE \E r : Sends(r)
  <2> DEFINE r == Request("load", "right", cookie)
  <2>1. /\ r \in Exchange /\ r.kind = "load" /\ r.page = shown /\ r.tok = cookie
        /\ r.ans = "waiting" /\ r.set = "keep" /\ r.live
    BY <1>0, <1>k, Requests
  <2>2. /\ wire' = Append(wire, r) /\ Rendered /\ Act /\ UNCHANGED <<server, cookie, me, page, last>>
        /\ shown \in Protected
    BY <1>5, <1>k DEF Use, Sent, Acts
  <2>3. /\ seen' \subseteq Faults /\ seen \subseteq seen' /\ (\A x, y \in seen' : x = y)
        /\ InFlight("me") => "hasty" \in seen'
    BY <1>5, Faulty DEF Use, Acts
  <2> HIDE DEF r
  <2>5. Sends(r)
    BY <2>1, <2>2, <2>3 DEF Sends
  <2> QED BY <2>5
<1> QED BY <1>1, <1>2, <1>3, <1>4, <1>5 DEF Sending

-----------------------------------------------------------------------------
(* The queue from one state to the next *)

(* The requests of queue v are some of those of w, in their order: what is   *)
(* known of a request for good.                                              *)
Follows(v, w) ==
    /\ v \in Seq(Exchange)
    /\ \E f \in [1..Len(v) -> DOMAIN w] :
          /\ \A j \in 1..Len(v) : /\ v[j].kind = w[f[j]].kind /\ v[j].page = w[f[j]].page
                                  /\ v[j].live => w[f[j]].live
          /\ \A j, k \in 1..Len(v) : j < k => f[j] < f[k]

(* The queue is as it was, but for what is not kept of each request.         *)
LEMMA Stays ==
    ASSUME NEW w \in Seq(Exchange), NEW v \in Seq(Exchange), Len(v) = Len(w), DOMAIN v = DOMAIN w,
           \A j \in DOMAIN w : /\ v[j].kind = w[j].kind /\ v[j].page = w[j].page
                               /\ v[j].live => w[j].live
    PROVE  Follows(v, w)
<1> DEFINE f == [j \in 1..Len(v) |-> j]
<1>1. DOMAIN w = 1..Len(w)
  BY LenProperties
<1>2. /\ f \in [1..Len(v) -> DOMAIN w]
      /\ \A j \in 1..Len(v) : f[j] = j
  BY <1>1
<1> HIDE DEF f
<1> QED BY <1>1, <1>2 DEF Follows

(* The requests stay when their page goes. *)
LEMMA OrphanedFollows ==
    ASSUME NEW w \in Seq(Exchange)
    PROVE  Follows(Orphaned(w), w)
<1>1. PICK v : v = Orphaned(w)
  OBVIOUS
<1>2. /\ v \in Seq(Exchange) /\ Len(v) = Len(w) /\ DOMAIN v = DOMAIN w
      /\ \A j \in DOMAIN w : /\ v[j].kind = w[j].kind /\ v[j].page = w[j].page
                             /\ v[j].live = (w[j].live /\ w[j].kind = "me")
  BY <1>1, OrphanedWire
<1>3. \A j \in DOMAIN w : v[j].live => w[j].live
  BY <1>2
<1> QED BY <1>1, <1>2, <1>3, Stays

(* A part of the queue follows it. *)
LEMMA WithinFollows ==
    ASSUME NEW w \in Seq(Exchange), NEW v \in Seq(Exchange), Within(v, w)
    PROVE  Follows(v, w)
  BY DEF Within, Follows

(* One request taken out. *)
LEMMA OneLessWithin ==
    ASSUME NEW w \in Seq(Exchange), NEW i \in DOMAIN w
    PROVE  Within(RemoveAt(w, i), w)
<1> DEFINE v == RemoveAt(w, i)
<1>1. /\ v \in Seq(Exchange) /\ DOMAIN v = 1..Len(v)
      /\ \A j \in DOMAIN v : v[j] = w[Was(i, j)] /\ Was(i, j) \in DOMAIN w
      /\ \A j, k \in DOMAIN v : j < k => Was(i, j) < Was(i, k)
  BY OneLess, LenProperties
<1> HIDE DEF v
<1> DEFINE f == [j \in 1..Len(v) |-> Was(i, j)]
<1>2. f \in [1..Len(v) -> DOMAIN w] /\ \A j \in 1..Len(v) : f[j] = Was(i, j)
  BY <1>1
<1> HIDE DEF f
<1>3. Within(v, w)
  <2>1. \A j \in 1..Len(v) : v[j] = w[f[j]]
    BY <1>1, <1>2
  <2>2. \A j, k \in 1..Len(v) : j < k => f[j] < f[k]
    BY <1>1, <1>2
  <2> QED BY <1>2, <2>1, <2>2 DEF Within
<1> QED BY <1>3 DEF v

(* There is never a second request for ["me"]. *)
LEMMA OneAskFollows ==
    ASSUME NEW w \in Seq(Exchange), OneAsk(w), NEW v, Follows(v, w)
    PROVE  OneAsk(v)
<1>1. PICK f \in [1..Len(v) -> DOMAIN w] :
          /\ \A j \in 1..Len(v) : v[j].kind = w[f[j]].kind
          /\ \A j, k \in 1..Len(v) : j < k => f[j] < f[k]
  BY DEF Follows
<1>2. DOMAIN v = 1..Len(v) /\ Len(v) \in Nat /\ DOMAIN w \subseteq Int
  BY LenProperties DEF Follows
<1>3. ASSUME NEW j \in 1..Len(v), NEW k \in 1..Len(v), j < k, v[j].kind = "me", v[k].kind = "me"
      PROVE  FALSE
  <2>1. f[j] \in DOMAIN w /\ f[k] \in DOMAIN w /\ f[j] < f[k] /\ w[f[j]].kind = "me" /\ w[f[k]].kind = "me"
    BY <1>1, <1>3
  <2> QED BY <1>2, <2>1 DEF OneAsk
<1> QED BY <1>2, <1>3 DEF OneAsk

-----------------------------------------------------------------------------
(* Types *)

(* A request has an answer, and a cookie, of its kind; its page may be gone, *)
(* but the provider that asks for ["me"] is not.                             *)
Fit(r) ==
    /\ r.ans \in Answers(r.kind) \cup {"waiting", "lost"}
    /\ r.set \in Sets(r.kind, r.ans)
    /\ r.kind = "me" => r.live

Fits(w) == \A i \in DOMAIN w : Fit(w[i])

Base == TypeOK /\ Fits(wire) /\ OneAsk(wire)

(* A request just sent fits; one more that fits leaves the queue fit.        *)
LEMMA FreshFits ==
    ASSUME NEW r, r.ans = "waiting", r.set = "keep", r.live
    PROVE  Fit(r)
  BY SetsOf DEF Fit

(* A new request fits. *)
LEMMA OneMoreFits ==
    ASSUME NEW w \in Seq(Exchange), Fits(w), NEW r \in Exchange, Fit(r)
    PROVE  Fits(Append(w, r))
  BY OneMore DEF Fits

(* A new request, if the only one for ["me"]. *)
LEMMA OneMoreAsk ==
    ASSUME NEW w \in Seq(Exchange), OneAsk(w), NEW r \in Exchange,
           r.kind = "me" => \A i \in DOMAIN w : w[i].kind # "me"
    PROVE  OneAsk(Append(w, r))
  BY OneMore DEF OneAsk

(* A part of the queue fits. *)
LEMMA WithinFits ==
    ASSUME NEW w \in Seq(Exchange), Fits(w), NEW v \in Seq(Exchange), Within(v, w)
    PROVE  Fits(v)
<1>1. DOMAIN v = 1..Len(v)
  BY LenProperties
<1> QED BY <1>1 DEF Within, Fits

(* The queue fits when a request is over. *)
LEMMA OneLessFits ==
    ASSUME NEW w \in Seq(Exchange), Fits(w), NEW i \in DOMAIN w
    PROVE  Fits(RemoveAt(w, i))
  BY OneLess DEF Fits

(* The page that goes takes its listeners with it, not the provider's. *)
LEMMA OrphanedFits ==
    ASSUME NEW w \in Seq(Exchange), Fits(w)
    PROVE  Fits(Orphaned(w))
<1>1. ASSUME NEW i \in DOMAIN w PROVE Fit(Orphaned(w)[i])
  <2>1. Fit(w[i])
    BY DEF Fits
  <2>2. /\ Orphaned(w)[i].kind = w[i].kind /\ Orphaned(w)[i].ans = w[i].ans
        /\ Orphaned(w)[i].set = w[i].set
        /\ Orphaned(w)[i].live = (w[i].live /\ w[i].kind = "me")
    BY OrphanedWire
  <2>3. w[i].kind = "me" => Orphaned(w)[i].live
    BY <2>1, <2>2 DEF Fit
  <2> QED BY <2>1, <2>2, <2>3 DEF Fit
<1> QED BY <1>1, OrphanedWire DEF Fits

(* A dead token is as fit as it was. *)
LEMMA DeadFits ==
    ASSUME NEW k, NEW a \in Answer, NEW c \in Sets(k, a)
    PROVE  DeadCookie(c) \in Sets(k, a)
<1>1. CASE a \in {"enrollNext", "totpNext"}
  BY <1>1, SetsOf, Tokens DEF DeadCookie
<1>2. CASE a \notin {"ok", "enrollNext", "totpNext"}
  BY <1>2, SetsOf, Tokens DEF DeadCookie
<1>3. CASE a = "ok"
  BY <1>3, Tokens DEF DeadCookie, Sets
<1> QED BY <1>1, <1>2, <1>3

(* The queue fits when the sessions are ended. *)
LEMMA KilledFits ==
    ASSUME NEW w \in Seq(Exchange), Fits(w)
    PROVE  Fits(Killed(w))
<1>1. ASSUME NEW i \in DOMAIN w PROVE Fit(Killed(w)[i])
  <2>1. Fit(w[i]) /\ w[i].ans \in Answer
    BY LenProperties, ElementOfSeq, Fields DEF Fits
  <2>2. DeadCookie(w[i].set) \in Sets(w[i].kind, w[i].ans)
    BY <2>1, DeadFits DEF Fit
  <2> QED BY <2>1, <2>2, KilledWire DEF Fit
<1> QED BY <1>1, KilledWire DEF Fits

(* What a page asks for when it is mounted. *)
Opens(r) ==
    /\ r \in Exchange /\ r.ans = "waiting" /\ r.set = "keep" /\ r.live /\ r.tok = cookie
    /\ r.page = route /\ r.qr = "none"
    /\ \/ r.kind = "enroll" /\ route = "enroll"
       \/ r.kind = "load" /\ route \in {"sites", "users"}

(* A mounted page asks for what it shows, or shares a load under way. *)
LEMMA Mounting ==
    ASSUME TypeOK, Mount
    PROVE  \/ wire' = Orphaned(wire) /\ route # "enroll"
           \/ \E r : Opens(r) /\ wire' = Append(Orphaned(wire), r)
<1>1. wire' = Mounted(Orphaned(wire), route)
  BY DEF Mount
<1>2. /\ cookie \in Token /\ route \in Route /\ "enroll" \in Kind /\ "load" \in Kind /\ "right" \in Typed
      /\ route \in Route \cup {"blank"}
  BY DEF TypeOK, Kind, Typed
<1>3. ASSUME NEW k \in {"enroll", "load"}
      PROVE  \E r : /\ r = [Request(k, "right", cookie) EXCEPT !.page = route]
                    /\ r \in Exchange /\ r.ans = "waiting" /\ r.set = "keep" /\ r.live
                    /\ r.tok = cookie /\ r.page = route /\ r.qr = "none" /\ r.kind = k
  <2>1. PICK q : /\ q = Request(k, "right", cookie) /\ q \in Exchange
                 /\ q.ans = "waiting" /\ q.set = "keep" /\ q.live /\ q.tok = cookie
                 /\ q.qr = "none" /\ q.kind = k
    BY <1>2, Requests
  <2>2. PICK r : r = [q EXCEPT !.page = route]
    OBVIOUS
  <2>3. /\ r \in Exchange /\ r.ans = "waiting" /\ r.set = "keep" /\ r.live
        /\ r.tok = cookie /\ r.page = route /\ r.qr = "none" /\ r.kind = k
    BY <1>2, <2>1, <2>2 DEF Exchange
  <2> QED BY <2>1, <2>2, <2>3
<1>4. CASE route = "enroll"
  <2>1. wire' = Append(Orphaned(wire), [Request("enroll", "right", cookie) EXCEPT !.page = route])
    BY <1>1, <1>4 DEF Mounted
  <2> QED BY <1>3, <1>4, <2>1 DEF Opens
<1>5. CASE route \in {"sites", "users"}
  <2>1. \/ wire' = Orphaned(wire)
        \/ wire' = Append(Orphaned(wire), [Request("load", "right", cookie) EXCEPT !.page = route])
    BY <1>1, <1>5 DEF Mounted
  <2> QED BY <1>3, <1>5, <2>1 DEF Opens
<1>6. CASE route \notin {"enroll", "sites", "users"}
  BY <1>1, <1>6 DEF Mounted
<1> QED BY <1>4, <1>5, <1>6

(* An answer is delivered: the request leaves the queue, and its answer says *)
(* what becomes of the rest.                                                 *)
LEMMA Delivered ==
    ASSUME Base, NEW i \in DOMAIN wire, Deliver(i)
    PROVE  LET r == wire[i] IN
           /\ Turn(i) /\ r.ans # "waiting" /\ r \in Exchange /\ Fit(r) /\ Stored(r) \in Token
           /\ UNCHANGED <<server, shown, acts>>
           /\ \/ /\ r.kind = "me" /\ r.ans \in {"setup", "anon", "user"}
                 /\ me' = r.ans /\ wire' = Others(i) /\ UNCHANGED <<cookie, route, qr, dialog, last>>
              \/ /\ r.ans = "401" /\ r.kind # "me"
                 /\ me' = "anon" /\ route' = "login" /\ last' = "none"
                 /\ wire' = Others(i) /\ UNCHANGED <<cookie, qr, dialog>>
              \/ /\ r.ans = "needsTotp" /\ r.kind \in {"load", "init", "confirm", "passwd"}
                 /\ route' = "login" /\ last' = "none"
                 /\ wire' = Others(i) /\ UNCHANGED <<cookie, me, qr, dialog>>
              \/ /\ r.ans = "needsSetup" /\ r.kind = "login"
                 /\ route' = "setup"
                 /\ wire' = Others(i) /\ UNCHANGED <<cookie, me, qr, dialog, last>>
              \/ /\ r.ans \in {"refused", "lost"} /\ r.kind # "logout"
                 /\ wire' = Others(i) /\ UNCHANGED <<cookie, me, route, qr, dialog, last>>
              \/ /\ r.ans \in {"enrollNext", "totpNext"} /\ r.kind = "login"
                 /\ cookie' = Stored(r) /\ route' \in {"enroll", "verify"}
                 /\ wire' = Others(i) /\ UNCHANGED <<me, qr, dialog, last>>
              \/ /\ r.ans = "ok" /\ r.kind = "setup"
                 /\ cookie' = Stored(r) /\ route' = "enroll"
                 /\ wire' = Others(i) /\ UNCHANGED <<me, qr, dialog, last>>
              \/ /\ r.ans = "ok" /\ r.kind \in {"activate", "verify"}
                 /\ cookie' = Stored(r) /\ route' = "sites" /\ last' = "in"
                 /\ wire' = Asked(Others(i), Stored(r)) /\ UNCHANGED <<me, qr, dialog>>
              \/ /\ r.ans = "ok" /\ r.kind \in {"enroll", "init"}
                 /\ qr' = IF r.live THEN r.qr ELSE qr
                 /\ wire' = Others(i) /\ UNCHANGED <<cookie, me, route, dialog, last>>
              \/ /\ r.ans = "ok" /\ r.kind \in {"load", "passwd"}
                 /\ cookie' = Stored(r)
                 /\ wire' = Others(i) /\ UNCHANGED <<me, route, qr, dialog, last>>
              \/ /\ r.ans = "ok" /\ r.kind = "confirm"
                 /\ wire' = Append(Others(i), Request("logout", "right", cookie))
                 /\ \/ r.live /\ dialog' = FALSE /\ qr' = "none"
                    \/ ~r.live /\ UNCHANGED <<dialog, qr>>
                 /\ UNCHANGED <<cookie, me, route, last>>
              \/ /\ r.ans \in {"ok", "needsTotp", "lost"} /\ r.kind = "logout"
                 /\ cookie' = Stored(r) /\ me' = "anon" /\ route' = "login"
                 /\ last' = (IF r.ans = "needsTotp" THEN "none" ELSE "out")
                 /\ wire' = Others(i) /\ UNCHANGED <<qr, dialog>>
<1>1. wire[i] \in Exchange /\ Fit(wire[i]) /\ cookie \in Token
  BY LenProperties, ElementOfSeq DEF Base, TypeOK, Fits
<1>2. Stored(wire[i]) \in Token
  BY <1>1, Fields DEF Stored
<1>3. Turn(i) /\ UNCHANGED <<server, shown, acts>>
  BY DEF Deliver, MeArrives, Unauthorized, NeedsTotp, NeedsSetup, Refused, LoginNext, SetupDone,
         SignedIn, SecretArrives, PageAnswer, Rebound, LoggedOut, page
<1>4. wire[i].kind \in Kind
  BY <1>1, Fields
<1> DEFINE l == CASE wire[i].ans \in {"401", "needsTotp"} -> "none"
                  [] wire[i].kind \in {"activate", "verify"} /\ wire[i].ans = "ok" -> "in"
                  [] wire[i].kind = "logout" /\ wire[i].ans \in {"ok", "lost"} -> "out"
                  [] OTHER -> last
<1>5. last' = l
  BY DEF Deliver
<1>6. /\ wire[i].ans \in {"401", "needsTotp"} => l = "none"
      /\ wire[i].kind \in {"activate", "verify"} /\ wire[i].ans = "ok" => l = "in"
      /\ wire[i].kind = "logout" /\ wire[i].ans \in {"ok", "lost"} => l = "out"
      /\ ~(\/ wire[i].ans \in {"401", "needsTotp"}
           \/ wire[i].kind \in {"activate", "verify"} /\ wire[i].ans = "ok"
           \/ wire[i].kind = "logout" /\ wire[i].ans \in {"ok", "lost"}) => l = last
  OBVIOUS
<1> HIDE DEF l
<1>7. /\ wire[i].kind = "me" => wire[i].ans # "401"
      /\ wire[i].ans = "needsTotp" =>
            wire[i].kind = "logout" \/ wire[i].kind \in {"load", "init", "confirm", "passwd"}
      /\ wire[i].ans \in {"needsSetup", "enrollNext", "totpNext"} => wire[i].kind = "login"
  BY <1>1, <1>4, AnswersOf DEF Fit, Kind
<1> QED BY <1>1, <1>2, <1>3, <1>5, <1>6, <1>7
     DEF Deliver, MeArrives, Unauthorized, NeedsTotp, NeedsSetup, Refused, LoginNext, SetupDone,
         SignedIn, SecretArrives, PageAnswer, Rebound, LoggedOut, page, Sent

(* The queue when ["me"] is asked for again. *)
LEMMA Asking ==
    ASSUME TypeOK, NEW w \in Seq(Exchange), Fits(w), OneAsk(w), NEW t \in Token
    PROVE  /\ Asked(w, t) \in Seq(Exchange) /\ Fits(Asked(w, t)) /\ OneAsk(Asked(w, t))
           /\ \/ me = "none" /\ InFlight("me") /\ Asked(w, t) = w
              \/ /\ ~(me = "none" /\ InFlight("me"))
                 /\ Asked(w, t) = Append(Cancelled(w), Ask(t))
<1>1. Ask(t) \in Exchange /\ Fit(Ask(t))
  BY Asks, FreshFits
<1>2. /\ Cancelled(w) \in Seq(Exchange) /\ Fits(Cancelled(w)) /\ OneAsk(Cancelled(w))
      /\ \A j \in DOMAIN Cancelled(w) : Cancelled(w)[j].kind # "me"
  BY CancelledWire, WithinFits, WithinFollows, OneAskFollows
<1>3. /\ Append(Cancelled(w), Ask(t)) \in Seq(Exchange)
      /\ Fits(Append(Cancelled(w), Ask(t))) /\ OneAsk(Append(Cancelled(w), Ask(t)))
  BY <1>1, <1>2, OneMore, OneMoreFits, OneMoreAsk
<1> QED BY <1>3 DEF Asked

(* The steps that leave the queue alone. *)
Quiet == \/ OpenRebind \/ CloseRebind
         \/ \E r \in Route : Navigate(r)
         \/ \E t \in Token : OtherTab(t)

(* The steps, by what they do to the queue. *)
LEMMA Cases ==
    ASSUME [Next]_vars
    PROVE  \/ Redirect \/ Mount
           \/ \E i \in DOMAIN wire : Serve(i) \/ Deliver(i) \/ Lose(i)
           \/ Sending \/ Quiet \/ Revoke \/ Reconnect
           \/ OtherSetup \/ \E t \in Token : OtherBinds(t)
           \/ \E r \in Route : Reload(r)
           \/ UNCHANGED vars
  BY DEF Next, Progress, User, Environment, Sending, Quiet

(* The queue when request i is over. *)
LEMMA OthersFit ==
    ASSUME Base, NEW i \in DOMAIN wire
    PROVE  /\ Others(i) \in Seq(Exchange) /\ Fits(Others(i)) /\ OneAsk(Others(i))
           /\ Follows(Others(i), wire)
  BY OneLess, OneLessFits, OneLessWithin, WithinFollows, OneAskFollows DEF Base, TypeOK, Others

(* The queue when everything starts over. *)
LEMMA FirstAskFits ==
    ASSUME TypeOK
    PROVE  /\ FirstAsk(cookie) \in Seq(Exchange) /\ Fits(FirstAsk(cookie)) /\ OneAsk(FirstAsk(cookie))
           /\ Len(FirstAsk(cookie)) = 1 /\ DOMAIN FirstAsk(cookie) = {1}
           /\ FirstAsk(cookie)[1] = Ask(cookie)
<1>1. Ask(cookie) \in Exchange /\ Fit(Ask(cookie))
  BY Asks, FreshFits DEF TypeOK
<1> DEFINE v == FirstAsk(cookie)
<1>2. v \in Seq(Exchange) /\ Len(v) = 1 /\ v[1] = Ask(cookie) /\ DOMAIN v = {1}
  BY <1>1 DEF FirstAsk
<1> HIDE DEF v
<1> QED BY <1>1, <1>2 DEF Fits, OneAsk, v

(* The first state has the types. *)
LEMMA BaseInit == Init => Base
<1> SUFFICES ASSUME Init PROVE Base
  OBVIOUS
<1>1. cookie \in Token /\ shown \in Route \cup {"blank"} /\ route \in Route
  BY DEF Init, Token, Route, Protected
<1>2. Ask(cookie) \in Exchange
  BY <1>1 DEF Ask, Request, Exchange, Kind, Typed, Answer, Route, Public
<1>3. wire = <<Ask(cookie)>> /\ wire \in Seq(Exchange)
  BY <1>2 DEF Init, FirstAsk
<1>4. inited \in BOOLEAN /\ enrolled \in {FALSE, inited}
  BY DEF Init
<1>5. enrolled \in BOOLEAN
  BY ONLY <1>4, Zenon
<1>6. acts \in 0..MaxActs
  BY BoundsAssumption DEF Init
<1>7. TypeOK
  BY <1>1, <1>3, <1>5, <1>6 DEF Init, TypeOK
<1> QED BY <1>7, FirstAskFits DEF Base, Init

(* What another client replaces: only the secret is out of date. *)
LEMMA OtherWire ==
    ASSUME TypeOK, NEW t \in Token, OtherBinds(t)
    PROVE  /\ wire' \in Seq(Exchange) /\ Len(wire') = Len(wire) /\ DOMAIN wire' = DOMAIN wire
           /\ \A i \in DOMAIN wire :
                 /\ wire'[i].kind = wire[i].kind /\ wire'[i].live = wire[i].live
                 /\ wire'[i].page = wire[i].page
                 /\ wire'[i].ans = wire[i].ans /\ wire'[i].tok = wire[i].tok
                 /\ wire'[i].set = wire[i].set /\ wire'[i].qr = Superseded(wire[i].qr)
           /\ inited /\ enrolled' \in BOOLEAN /\ pending' \in BOOLEAN
           /\ cookie' \in Token /\ qr' = Superseded(qr) /\ "otherTab" \in seen'
           /\ UNCHANGED <<inited, admin, me, route, shown, dialog, last>>
<1>1. wire \in Seq(Exchange) /\ wire' = Outdated(wire)
  BY DEF TypeOK, OtherBinds
<1>2. enrolled' \in BOOLEAN /\ pending' \in BOOLEAN /\ cookie' \in Token
  BY DEF TypeOK, OtherBinds
<1> QED BY <1>1, <1>2, OutdatedWire DEF OtherBinds, Happens

(* What the faults of a step leave of the types. *)
LEMMA FaultsKept ==
    ASSUME TypeOK, [Next]_vars
    PROVE  seen' \subseteq Faults /\ seen \subseteq seen'
<1>1. ASSUME NEW f, Happens(f) PROVE seen' \subseteq Faults /\ seen \subseteq seen'
  BY <1>1 DEF Happens, TypeOK
<1>2. (\E f : Happens(f)) \/ seen' = seen
  BY DEF Next, Progress, User, Environment, Redirect, Mount, Serve, Deliver, Turn, SubmitForm,
         SubmitCode, SubmitPassword, OpenRebind, CloseRebind, Logout, Use, Navigate, Reload, Acts,
         Revoke, Reconnect, OtherTab, OtherBinds, OtherSetup, Lose, vars
<1> QED BY <1>1, <1>2 DEF TypeOK

(* The budget of acts is kept. *)
LEMMA ActsKept ==
    ASSUME TypeOK, Act
    PROVE  acts' \in 0..MaxActs
  BY BoundsAssumption DEF TypeOK, Act

(* A guard leads to a route, or waits. *)
LEMMA LeadsRoute == route \in Route => Leads(route) \in Route \cup {"wait"}
<1>1. \A r : State \in {"loading", "needsSetup", "unauthenticated", "authenticated"}
  BY DEF State
<1>2. \A r : RequireAuth(r) \in {"wait", "setup", "login", r}
  BY DEF RequireAuth
<1>3. \A r : RequireAnon(r) \in {"wait", "sites", "setup", "login", r}
  BY DEF RequireAnon
<1>4. \A r : RequireAdmin(r) \in {"sites", r}
  BY DEF RequireAdmin
<1> QED BY <1>2, <1>3, <1>4 DEF Leads, Route, Public, Protected

(* Every step keeps the types. *)
LEMMA BaseNext == Base /\ [Next]_vars => Base'
<1> SUFFICES ASSUME Base, [Next]_vars PROVE Base'
  OBVIOUS
<1> USE DEF Base
<1>0. /\ wire \in Seq(Exchange) /\ cookie \in Token
      /\ seen' \subseteq Faults
  BY FaultsKept DEF TypeOK
<1>1. CASE Redirect
  <2>1. wire' \in Seq(Exchange) /\ Fits(wire') /\ OneAsk(wire')
    <3>1. Orphaned(wire) \in Seq(Exchange) /\ Follows(Orphaned(wire), wire)
      BY <1>0, OrphanedWire, OrphanedFollows
    <3> QED BY <1>0, <1>1, <3>1, OrphanedFits, OneAskFollows DEF Redirect
  <2>2. route' \in Route
    BY <1>1, LeadsRoute DEF Redirect, TypeOK
  <2> QED BY <1>0, <1>1, <2>1, <2>2 DEF Redirect, TypeOK, server
<1>2. CASE Mount
  <2>1. wire' \in Seq(Exchange) /\ Fits(wire') /\ OneAsk(wire')
    <3>1. /\ Orphaned(wire) \in Seq(Exchange) /\ Follows(Orphaned(wire), wire)
          /\ Fits(Orphaned(wire)) /\ OneAsk(Orphaned(wire))
      BY <1>0, OrphanedWire, OrphanedFollows, OrphanedFits, OneAskFollows
    <3>2. CASE wire' = Orphaned(wire)
      BY <3>1, <3>2
    <3>3. ASSUME NEW r, Opens(r), wire' = Append(Orphaned(wire), r)
          PROVE  wire' \in Seq(Exchange) /\ Fits(wire') /\ OneAsk(wire')
      <4>1. r \in Exchange /\ Fit(r) /\ r.kind # "me"
        BY <3>3, FreshFits DEF Opens
      <4> QED BY <3>1, <3>3, <4>1, OneMore, OneMoreFits, OneMoreAsk
    <3> QED BY <1>2, <3>2, <3>3, Mounting
  <2> QED BY <1>0, <1>2, <2>1 DEF Mount, TypeOK, server
<1>3. ASSUME NEW i \in DOMAIN wire, Serve(i) PROVE Base'
  <2>1. wire' \in Seq(Exchange) /\ Follows(wire', wire)
    BY <1>0, <1>3, Served, Stays
  <2>2. Fits(wire')
    <3>1. ASSUME NEW j \in DOMAIN wire PROVE Fit(wire'[j])
      <4>1. Fit(wire[j]) /\ wire[j] \in Exchange /\ wire[i] \in Exchange /\ wire[j].ans \in Answer
        BY <1>0, LenProperties, ElementOfSeq, Fields DEF Fits
      <4>2. CASE j = i
        <5>1. /\ wire'[i].kind = wire[i].kind /\ wire'[i].live = wire[i].live
              /\ wire'[i].ans = Reply(wire[i]) /\ wire'[i].set \in Cookies(wire[i], Reply(wire[i]))
          BY <1>3, Served
        <5> QED BY <4>1, <4>2, <5>1, Answered DEF Fit
      <4>3. CASE j # i
        <5>1. /\ wire'[j].kind = wire[j].kind /\ wire'[j].live = wire[j].live
              /\ wire'[j].ans = wire[j].ans
              /\ wire'[j].set = wire[j].set \/ wire'[j].set = DeadCookie(wire[j].set)
          BY <1>3, <4>3, Served
        <5>2. wire[j].set \in Sets(wire[j].kind, wire[j].ans)
          BY <4>1 DEF Fit
        <5>3. wire'[j].set \in Sets(wire[j].kind, wire[j].ans)
          BY <4>1, <5>1, <5>2, DeadFits
        <5> QED BY <4>1, <5>1, <5>3 DEF Fit
      <4> QED BY <4>2, <4>3
    <3> QED BY <1>3, <3>1, Served DEF Fits
  <2>3. /\ inited' \in BOOLEAN /\ enrolled' \in BOOLEAN /\ pending' \in BOOLEAN
        /\ qr' \in OnScreen /\ cookie' \in Token
    BY <1>3, DeadToken DEF Serve, TypeOK, Aged
  <2> QED BY <1>0, <1>3, <2>1, <2>2, <2>3, OneAskFollows DEF Serve, TypeOK
<1>4. ASSUME NEW i \in DOMAIN wire, Deliver(i) PROVE Base'
  <2>1. /\ Others(i) \in Seq(Exchange) /\ Fits(Others(i)) /\ OneAsk(Others(i))
    BY OthersFit
  <2>2. Stored(wire[i]) \in Token /\ wire[i] \in Exchange /\ UNCHANGED <<server, shown, acts>>
    BY <1>4, Delivered
  <2>3. Asked(Others(i), Stored(wire[i])) \in Seq(Exchange)
        /\ Fits(Asked(Others(i), Stored(wire[i]))) /\ OneAsk(Asked(Others(i), Stored(wire[i])))
    BY <2>1, <2>2, Asking
  <2>4. /\ Append(Others(i), Request("logout", "right", cookie)) \in Seq(Exchange)
        /\ Fits(Append(Others(i), Request("logout", "right", cookie)))
        /\ OneAsk(Append(Others(i), Request("logout", "right", cookie)))
    <3>1. "logout" \in Kind /\ "right" \in Typed
      BY DEF Kind, Typed
    <3>2. PICK q : /\ q = Request("logout", "right", cookie) /\ q \in Exchange
                   /\ q.kind = "logout" /\ Fit(q)
      BY <1>0, <3>1, Requests, FreshFits
    <3> QED BY <2>1, <3>2, OneMore, OneMoreFits, OneMoreAsk
  <2>5. wire' \in Seq(Exchange) /\ Fits(wire') /\ OneAsk(wire')
    <3>1. \/ wire' = Others(i) \/ wire' = Asked(Others(i), Stored(wire[i]))
          \/ wire' = Append(Others(i), Request("logout", "right", cookie))
      BY <1>4, Delivered
    <3> QED BY <2>1, <2>3, <2>4, <3>1
  <2>6. /\ cookie' \in Token /\ me' \in {"none", "setup", "anon", "user"}
        /\ route' \in Route /\ qr' \in OnScreen /\ dialog' \in BOOLEAN
        /\ last' \in {"none", "in", "out"}
    <3>1. wire[i].qr \in OnScreen
      BY <2>2, Fields
    <3>2. {"login", "setup", "enroll", "verify", "sites"} \subseteq Route
      BY DEF Route, Public, Protected
    <3>3. cookie' \in {cookie, Stored(wire[i])}
      BY <1>4, Delivered
    <3>4. me' \in {me, "setup", "anon", "user"}
      BY <1>4, Delivered
    <3>5. route' \in {route, "login", "setup", "enroll", "verify", "sites"}
      BY <1>4, Delivered
    <3>6. qr' \in {qr, wire[i].qr, "none"} /\ dialog' \in {dialog, FALSE}
      BY <1>4, Delivered
    <3>7. last' \in {last, "none", "in", "out"}
      BY <1>4, Delivered
    <3>8. dialog' \in BOOLEAN
      BY <3>6 DEF TypeOK
    <3> QED BY <1>0, <2>2, <3>1, <3>2, <3>3, <3>4, <3>5, <3>6, <3>7, <3>8 DEF TypeOK
  <2> QED BY <1>0, <2>2, <2>5, <2>6 DEF TypeOK, server
<1>5. ASSUME NEW i \in DOMAIN wire, Lose(i) PROVE Base'
  <2>1. wire' \in Seq(Exchange) /\ Follows(wire', wire) /\ acts' \in 0..MaxActs
    BY <1>0, <1>5, Lost, Stays, ActsKept DEF Lose
  <2>2. Fits(wire')
    <3>1. ASSUME NEW j \in DOMAIN wire PROVE Fit(wire'[j])
      BY <1>5, Lost, SetsOf DEF Fits, Fit
    <3> QED BY <1>5, <3>1, Lost DEF Fits
  <2> QED BY <1>0, <1>5, <2>1, <2>2, OneAskFollows DEF Lose, TypeOK, server, page
<1>6. CASE Sending
  <2>1. PICK r : Sends(r)
    BY <1>6, SendingSends
  <2>2. Fit(r) /\ r \in Exchange /\ r.kind # "me" /\ wire' = Append(wire, r) /\ acts' \in 0..MaxActs
    BY <2>1, FreshFits, ActsKept DEF Sends
  <2>3. wire' \in Seq(Exchange) /\ Fits(wire') /\ OneAsk(wire')
    BY <1>0, <2>2, OneMore, OneMoreFits, OneMoreAsk
  <2> QED BY <1>0, <2>1, <2>2, <2>3 DEF Sends, TypeOK, server, page
<1>7. CASE Quiet
  <2>1. acts' \in 0..MaxActs
    BY <1>7, ActsKept DEF Quiet, OpenRebind, CloseRebind, Navigate, OtherTab, Acts
  <2>2. CASE OpenRebind
    BY <1>0, <2>1, <2>2 DEF OpenRebind, TypeOK, server
  <2>3. CASE CloseRebind
    BY <1>0, <2>1, <2>3 DEF CloseRebind, TypeOK, server
  <2>4. ASSUME NEW r \in Route, Navigate(r) PROVE Base'
    BY <1>0, <2>1, <2>4 DEF Navigate, TypeOK, server
  <2>5. ASSUME NEW t \in Token, OtherTab(t) PROVE Base'
    BY <1>0, <2>1, <2>5 DEF OtherTab, TypeOK, server, page
  <2> QED BY <1>7, <2>2, <2>3, <2>4, <2>5 DEF Quiet
<1>8. CASE Revoke
  <2>1. wire' \in Seq(Exchange) /\ Follows(wire', wire) /\ acts' \in 0..MaxActs /\ cookie' \in Token
    BY <1>0, <1>8, KilledWire, Stays, ActsKept, DeadToken DEF Revoke
  <2> QED BY <1>0, <1>8, <2>1, KilledFits, OneAskFollows DEF Revoke, TypeOK, server, page
<1>9. CASE Reconnect
  <2>1. wire' \in Seq(Exchange) /\ Fits(wire') /\ OneAsk(wire') /\ acts' \in 0..MaxActs
    BY <1>0, <1>9, Asking, ActsKept DEF Reconnect
  <2> QED BY <1>0, <1>9, <2>1 DEF Reconnect, TypeOK, server, page
<1>10. ASSUME NEW r \in Route, Reload(r) PROVE Base'
  <2>1. wire' \in Seq(Exchange) /\ Fits(wire') /\ OneAsk(wire') /\ acts' \in 0..MaxActs
    <3>1. wire' = FirstAsk(cookie) /\ Act
      BY <1>10 DEF Reload, Acts
    <3> QED BY <3>1, FirstAskFits, ActsKept
  <2> QED BY <1>0, <1>10, <2>1 DEF Reload, TypeOK, server
<1>11. CASE UNCHANGED vars
  BY <1>11 DEF vars, TypeOK
<1>12. ASSUME NEW t \in Token, OtherBinds(t) PROVE Base'
  <2>1. /\ wire' \in Seq(Exchange) /\ Follows(wire', wire) /\ acts' \in 0..MaxActs
    <3>1. Act
      BY <1>12 DEF OtherBinds
    <3>2. acts' \in 0..MaxActs
      BY <3>1, ActsKept
    <3>3. /\ wire' \in Seq(Exchange) /\ Len(wire') = Len(wire) /\ DOMAIN wire' = DOMAIN wire
          /\ \A i \in DOMAIN wire : /\ wire'[i].kind = wire[i].kind
                                    /\ wire'[i].page = wire[i].page
                                    /\ wire'[i].live = wire[i].live
      BY <1>12, OtherWire
    <3> QED BY <1>0, <3>2, <3>3, Stays
  <2>2. Fits(wire')
    BY <1>12, OtherWire DEF Fits, Fit
  <2>3. qr' \in OnScreen
    BY <1>12, OtherWire DEF TypeOK, Superseded
  <2> QED BY <1>0, <1>12, <2>1, <2>2, <2>3, OtherWire, OneAskFollows DEF TypeOK
<1>13. CASE OtherSetup
  <2>1. acts' \in 0..MaxActs /\ cookie' \in Token
    BY <1>0, <1>13, ActsKept DEF OtherSetup, Token
  <2> QED BY <1>0, <1>13, <2>1 DEF OtherSetup, TypeOK, page
<1> QED BY <1>1, <1>2, <1>3, <1>4, <1>5, <1>6, <1>7, <1>8, <1>9, <1>10, <1>11, <1>12, <1>13, Cases

(* The variables keep their types, and the queue holds requests. *)
THEOREM Types == Spec => []TypeOK
<1>1. Init => Base
  BY BaseInit
<1>2. Base /\ [Next]_vars => Base'
  BY BaseNext
<1>3. Base => TypeOK
  BY DEF Base
<1> QED BY <1>1, <1>2, <1>3, PTL DEF Spec

-----------------------------------------------------------------------------
(* The secret on screen *)

(* The requests that bring a secret. *)
Secret(r) == r.kind \in {"enroll", "init"}

(* Of the requests that bring a secret, those of a page that is gone come    *)
(* first; unless Enter was pressed again, at most one is still listened to.  *)
LiveLast(w) == \A i, j \in DOMAIN w :
                  i < j /\ Secret(w[i]) /\ Secret(w[j]) /\ w[i].live => w[j].live
AllLive(w)  == \A i \in DOMAIN w : Secret(w[i]) => w[i].live
NoneLive(w) == \A i \in DOMAIN w : Secret(w[i]) => ~w[i].live
OneLive(w)  == \A i, j \in DOMAIN w :
                  Secret(w[i]) /\ w[i].live /\ Secret(w[j]) /\ w[j].live => i = j

(* The page that listens is the one that is shown. *)
Listens(w, s) == \A i \in DOMAIN w : w[i].live => /\ w[i].kind = "enroll" => s = "enroll"
                                                  /\ w[i].kind = "init" => s = "me"

(* The queue w while page s shows secret q. *)
Secure(w, s, q, faults) ==
    /\ LiveLast(w) /\ Listens(w, s)
    /\ q # "none" => AllLive(w)
    /\ "repeat" \notin faults => OneLive(w) /\ (q # "none" => NoneLive(w))

(* Only the oldest request is answered, and the secret it brings is stored,  *)
(* or was until another client replaced it.                                  *)
HeadFirst(w) == \A i \in DOMAIN w : /\ i > 1 => w[i].ans \in {"waiting", "lost"}
                                    /\ Secret(w[i]) /\ w[i].ans = "ok" => w[i].qr # "old"

(* Answers in order: a secret that is stale on screen is about to be         *)
(* replaced by the one that made it stale.                                   *)
Secrets ==
    /\ Secure(wire, shown, qr, seen)
    /\ HeadFirst(wire)
    /\ dialog => shown = "me"
    /\ qr = "old" => /\ 1 \in DOMAIN wire /\ Secret(wire[1]) /\ wire[1].live
                     /\ wire[1].ans = "ok"

SecretsInv == Base /\ ("late" \notin seen => Secrets)

(* Only kinds and listeners matter to the secret on screen. *)
LEMMA SecureAlike ==
    ASSUME NEW w, NEW v, DOMAIN v = DOMAIN w,
           \A i \in DOMAIN w : v[i].kind = w[i].kind /\ v[i].live = w[i].live,
           NEW s, NEW q, NEW S, Secure(w, s, q, S)
    PROVE  Secure(v, s, q, S)
  BY DEF Secure, LiveLast, AllLive, NoneLive, OneLive, Listens, Secret

(* Fewer requests do not hurt it. *)
LEMMA SecureWithin ==
    ASSUME NEW w \in Seq(Exchange), NEW v \in Seq(Exchange), Within(v, w),
           NEW s, NEW q, NEW S, Secure(w, s, q, S)
    PROVE  Secure(v, s, q, S)
<1>1. PICK f \in [1..Len(v) -> DOMAIN w] :
        /\ \A j \in 1..Len(v) : v[j] = w[f[j]]
        /\ \A j, k \in 1..Len(v) : j < k => f[j] < f[k]
  BY DEF Within
<1>2. DOMAIN v = 1..Len(v) /\ Len(v) \in Nat /\ DOMAIN w = 1..Len(w) /\ Len(w) \in Nat
  BY LenProperties
<1>3. \A j \in DOMAIN v : v[j] = w[f[j]] /\ f[j] \in DOMAIN w
  BY <1>1, <1>2
<1>4. \A j, k \in DOMAIN v : f[j] = f[k] => j = k
  BY <1>1, <1>2
<1>5. LiveLast(w) => LiveLast(v)
  BY <1>1, <1>2, <1>3 DEF LiveLast
<1>6. (AllLive(w) => AllLive(v)) /\ (NoneLive(w) => NoneLive(v)) /\ (Listens(w, s) => Listens(v, s))
  BY <1>3 DEF AllLive, NoneLive, Listens
<1>7. OneLive(w) => OneLive(v)
  BY <1>3, <1>4 DEF OneLive
<1> QED BY <1>5, <1>6, <1>7 DEF Secure

(* One more request that brings no secret changes nothing. *)
LEMMA SecureOther ==
    ASSUME NEW w \in Seq(Exchange), NEW r \in Exchange, ~Secret(r),
           NEW s, NEW q, NEW S, Secure(w, s, q, S)
    PROVE  Secure(Append(w, r), s, q, S)
<1>1. PICK v : v = Append(w, r)
  OBVIOUS
<1>2. /\ DOMAIN v = DOMAIN w \cup {Len(w) + 1} /\ Len(w) + 1 \notin DOMAIN w
      /\ \A i \in DOMAIN w : v[i] = w[i] /\ i < Len(w) + 1
      /\ v[Len(w) + 1] = r
  BY <1>1, OneMore
<1>3. Secure(v, s, q, S)
  BY <1>2 DEF Secure, LiveLast, AllLive, NoneLive, OneLive, Listens, Secret
<1> QED BY <1>1, <1>3

(* One more that brings a secret, while none is shown. *)
LEMMA SecureMore ==
    ASSUME NEW w \in Seq(Exchange), NEW r \in Exchange, r.live, NEW s, NEW S,
           r.kind = "enroll" => s = "enroll", r.kind = "init" => s = "me",
           Secure(w, s, "none", S), "repeat" \notin S => NoneLive(w)
    PROVE  Secure(Append(w, r), s, "none", S)
<1>1. PICK v : v = Append(w, r)
  OBVIOUS
<1>2. /\ DOMAIN v = DOMAIN w \cup {Len(w) + 1} /\ Len(w) + 1 \notin DOMAIN w
      /\ \A i \in DOMAIN w : v[i] = w[i] /\ i < Len(w) + 1
      /\ v[Len(w) + 1] = r
      /\ DOMAIN w \subseteq Int /\ Len(w) + 1 \in Int
  BY <1>1, OneMore, LenProperties
<1>3. LiveLast(v)
  BY <1>2 DEF Secure, LiveLast
<1>4. Listens(v, s)
  BY <1>2 DEF Secure, Listens
<1>5. "repeat" \notin S => OneLive(v)
  BY <1>2 DEF Secure, OneLive, NoneLive
<1>6. Secure(v, s, "none", S)
  BY <1>3, <1>4, <1>5 DEF Secure
<1> QED BY <1>1, <1>6

(* When the page goes, no secret in flight is listened to. *)
LEMMA SecureOrphaned ==
    ASSUME NEW w \in Seq(Exchange), NEW s, NEW S
    PROVE  Secure(Orphaned(w), s, "none", S) /\ NoneLive(Orphaned(w))
<1>1. PICK v : v = Orphaned(w)
  OBVIOUS
<1>2. \A i \in DOMAIN v : v[i].live => v[i].kind = "me"
  BY <1>1, OrphanedWire
<1>3. Secure(v, s, "none", S) /\ NoneLive(v)
  BY <1>2 DEF Secure, LiveLast, NoneLive, OneLive, Listens, Secret
<1> QED BY <1>1, <1>3

(* No secret on screen, or one more fault, is as secure. *)
LEMMA SecureLess ==
    ASSUME NEW w, NEW s, NEW q, NEW S, Secure(w, s, q, S), NEW p, NEW T,
           p # "none" => q # "none", S \subseteq T
    PROVE  Secure(w, s, p, T)
  BY DEF Secure

(* The oldest of a part of the queue. *)
LEMMA HeadWithin ==
    ASSUME NEW w \in Seq(Exchange), NEW v \in Seq(Exchange), Within(v, w), HeadFirst(w)
    PROVE  HeadFirst(v)
<1>1. PICK f \in [1..Len(v) -> DOMAIN w] :
        /\ \A j \in 1..Len(v) : v[j] = w[f[j]]
        /\ \A j, k \in 1..Len(v) : j < k => f[j] < f[k]
  BY DEF Within
<1>2. DOMAIN v = 1..Len(v) /\ Len(v) \in Nat /\ DOMAIN w = 1..Len(w) /\ Len(w) \in Nat
  BY LenProperties
<1>3. ASSUME NEW j \in DOMAIN v, j > 1 PROVE f[j] > 1
  <2>1. 1 \in 1..Len(v) /\ 1 < j
    BY <1>2, <1>3
  <2>2. f[1] < f[j] /\ f[1] \in DOMAIN w /\ f[j] \in DOMAIN w
    BY <1>1, <1>2, <2>1
  <2> QED BY <1>2, <2>2
<1>4. \A j \in DOMAIN v : v[j] = w[f[j]] /\ f[j] \in DOMAIN w
  BY <1>1, <1>2
<1> QED BY <1>3, <1>4 DEF HeadFirst

(* A new request comes last. *)
LEMMA HeadMore ==
    ASSUME NEW w \in Seq(Exchange), NEW r \in Exchange, r.ans = "waiting", HeadFirst(w)
    PROVE  HeadFirst(Append(w, r))
  BY OneMore DEF HeadFirst

(* The oldest stays the oldest when a page goes. *)
LEMMA HeadOrphaned ==
    ASSUME NEW w \in Seq(Exchange), HeadFirst(w)
    PROVE  HeadFirst(Orphaned(w))
<1>1. PICK v : v = Orphaned(w)
  OBVIOUS
<1>2. /\ DOMAIN v = DOMAIN w
      /\ \A i \in DOMAIN w : v[i].kind = w[i].kind /\ v[i].ans = w[i].ans /\ v[i].qr = w[i].qr
  BY <1>1, OrphanedWire
<1> QED BY <1>1, <1>2 DEF HeadFirst, Secret

(* The oldest request taken out. *)
LEMMA HeadOut ==
    ASSUME NEW w \in Seq(Exchange), 1 \in DOMAIN w
    PROVE  \A j \in DOMAIN RemoveAt(w, 1) :
              RemoveAt(w, 1)[j] = w[j + 1] /\ j + 1 \in DOMAIN w /\ j + 1 > 1
<1>1. PICK v : v = RemoveAt(w, 1)
  OBVIOUS
<1>2. /\ DOMAIN v = 1..(Len(w) - 1)
      /\ \A j \in DOMAIN v : v[j] = w[Was(1, j)] /\ Was(1, j) \in DOMAIN w
  BY <1>1, OneLess
<1>3. \A j \in DOMAIN v : Was(1, j) = j + 1 /\ j + 1 > 1
  BY <1>2 DEF Was
<1> QED BY <1>1, <1>2, <1>3

(* In order, only the oldest request is served or delivered. *)
LEMMA InTurn ==
    ASSUME TypeOK, NEW i \in DOMAIN wire, Turn(i), "late" \notin seen'
    PROVE  i = 1
  BY DEF Turn, Happens

(* Asking for ["me"] again does not touch the secret. *)
LEMMA SecureAsked ==
    ASSUME TypeOK, NEW w \in Seq(Exchange), OneAsk(w), NEW t \in Token,
           NEW s, NEW q, NEW S, Secure(w, s, q, S), HeadFirst(w)
    PROVE  Secure(Asked(w, t), s, q, S) /\ HeadFirst(Asked(w, t))
<1>1. PICK r : r = Ask(t) /\ r \in Exchange /\ r.ans = "waiting" /\ ~Secret(r)
  BY Asks DEF Secret
<1>2. PICK u : u = Cancelled(w) /\ u \in Seq(Exchange) /\ Within(u, w)
  BY CancelledWire
<1>3. Secure(u, s, q, S) /\ HeadFirst(u)
  BY <1>2, SecureWithin, HeadWithin
<1>4. Secure(Append(u, r), s, q, S) /\ HeadFirst(Append(u, r))
  BY <1>1, <1>2, <1>3, SecureOther, HeadMore
<1> QED BY <1>1, <1>2, <1>4 DEF Asked

(* Where one request was lost, Enter was not pressed twice: the secret on    *)
(* screen is current.                                                        *)
LEMMA LostCurrent ==
    ASSUME TypeOK, Secrets, NEW f, Happens(f), "lost" \in f
    PROVE  qr # "old"
<1>1. "lost" \in seen' /\ seen \subseteq seen' /\ \A x, y \in seen' : x = y
  BY Faulty
<1>2. "repeat" \notin seen
  BY <1>1
<1> QED BY <1>2 DEF Secrets, Secure, NoneLive

(* Every step keeps the secret on screen. *)
LEMMA SecretsNext == SecretsInv /\ [Next]_vars => SecretsInv'
<1> SUFFICES ASSUME SecretsInv, [Next]_vars, "late" \notin seen' PROVE Secrets'
  BY BaseNext DEF SecretsInv
<1>0. /\ Base /\ TypeOK /\ wire \in Seq(Exchange) /\ cookie \in Token
      /\ seen \subseteq seen' /\ "late" \notin seen
  BY FaultsKept DEF SecretsInv, Base, TypeOK
<1>a. /\ Secrets /\ Secure(wire, shown, qr, seen) /\ HeadFirst(wire)
      /\ dialog => shown = "me"
  BY <1>0 DEF SecretsInv, Secrets
<1>b. /\ DOMAIN wire = 1..Len(wire) /\ Len(wire) \in Nat
      /\ \A i \in DOMAIN wire : wire[i] \in Exchange
  BY <1>0, LenProperties, ElementOfSeq
<1>c. Orphaned(wire) \in Seq(Exchange) /\ HeadFirst(Orphaned(wire))
  BY <1>0, <1>a, OrphanedWire, HeadOrphaned
<1>1. CASE Redirect
  <2>1. wire' = Orphaned(wire) /\ qr' = "none" /\ dialog' = FALSE
    BY <1>1 DEF Redirect
  <2>2. Secure(wire', shown', qr', seen')
    BY <1>0, <2>1, SecureOrphaned
  <2> QED BY <1>c, <2>1, <2>2 DEF Secrets
<1>2. CASE Mount
  <2>1. qr' = "none" /\ dialog' = FALSE /\ shown' = route
    BY <1>2 DEF Mount
  <2>2. /\ Secure(Orphaned(wire), route, "none", seen')
        /\ NoneLive(Orphaned(wire))
    BY <1>0, SecureOrphaned
  <2>3. Secure(wire', route, "none", seen') /\ HeadFirst(wire')
    <3>1. CASE wire' = Orphaned(wire)
      BY <1>c, <2>2, <3>1
    <3>2. ASSUME NEW r, Opens(r), wire' = Append(Orphaned(wire), r)
          PROVE  Secure(wire', route, "none", seen') /\ HeadFirst(wire')
      <4>1. r \in Exchange /\ r.ans = "waiting" /\ r.live
        BY <3>2 DEF Opens
      <4>2. HeadFirst(wire')
        BY <1>c, <3>2, <4>1, HeadMore
      <4>3. CASE r.kind = "load"
        <5>1. ~Secret(r)
          BY <4>3 DEF Secret
        <5> QED BY <1>c, <2>2, <3>2, <4>1, <4>2, <5>1, SecureOther
      <4>4. CASE r.kind = "enroll" /\ route = "enroll"
        BY <1>c, <2>2, <3>2, <4>1, <4>2, <4>4, SecureMore
      <4> QED BY <3>2, <4>3, <4>4 DEF Opens
    <3> QED BY <1>0, <1>2, <3>1, <3>2, Mounting
  <2> QED BY <2>1, <2>3 DEF Secrets
<1>3. ASSUME NEW i \in DOMAIN wire, Serve(i) PROVE Secrets'
  <2>1. i = 1
    BY <1>0, <1>3, InTurn DEF Serve
  <2>2. /\ DOMAIN wire' = DOMAIN wire
        /\ \A j \in DOMAIN wire : wire'[j].kind = wire[j].kind /\ wire'[j].live = wire[j].live
        /\ \A j \in DOMAIN wire : j # i => wire'[j].ans = wire[j].ans
        /\ wire[i].ans = "waiting" /\ wire'[i].ans = Reply(wire[i])
        /\ wire'[i].qr = IF Rekeys(wire[i]) THEN "current" ELSE wire[i].qr
    BY <1>0, <1>3, Served
  <2>3. shown' = shown /\ dialog' = dialog /\ qr' = IF Rekeys(wire[i]) THEN Aged(qr) ELSE qr
    BY <1>3 DEF Serve, Rekeys
  <2>4. Secure(wire', shown', qr', seen')
    <3>1. Secure(wire', shown, qr, seen)
      BY <1>a, <2>2, SecureAlike
    <3>2. qr' # "none" => qr # "none"
      BY <2>3 DEF Aged
    <3> QED BY <1>0, <2>3, <3>1, <3>2, SecureLess
  <2>5. Secret(wire[1]) /\ Reply(wire[1]) = "ok" => Rekeys(wire[1])
    BY DEF Rekeys, Secret, Failed
  <2>6. HeadFirst(wire')
    <3>1. \A j \in DOMAIN wire : j # 1 => j > 1
      BY <1>b
    <3> QED BY <1>a, <2>1, <2>2, <2>5, <3>1 DEF HeadFirst, Secret
  <2>7. qr # "old"
    BY <1>a, <2>1, <2>2 DEF Secrets
  <2>8. qr' = "old" => Secret(wire'[1]) /\ wire'[1].live /\ wire'[1].ans = "ok"
    <3> SUFFICES ASSUME qr' = "old" PROVE Secret(wire'[1]) /\ wire'[1].live /\ wire'[1].ans = "ok"
      OBVIOUS
    <3>1. Rekeys(wire[1]) /\ qr = "current"
      BY <2>1, <2>3, <2>7 DEF Aged
    <3>2. Secret(wire[1]) /\ Reply(wire[1]) = "ok"
      <4>1. wire[1].kind \in {"enroll", "init"} /\ Reply(wire[1]) \notin Failed
        BY <3>1 DEF Rekeys
      <4>2. Reply(wire[1]) \in Answers(wire[1].kind)
        BY <1>b, <2>1, Answered
      <4> QED BY <4>1, <4>2, AnswersOf DEF Failed, Secret
    <3>3. wire[1].live
      BY <1>a, <2>1, <3>1, <3>2 DEF Secure, AllLive
    <3> QED BY <2>1, <2>2, <3>2, <3>3 DEF Secret
  <2> QED BY <1>a, <2>1, <2>2, <2>3, <2>4, <2>6, <2>8 DEF Secrets
<1>4. ASSUME NEW i \in DOMAIN wire, Deliver(i) PROVE Secrets'
  <2>1. i = 1 /\ shown' = shown
    BY <1>0, <1>4, InTurn, Delivered
  <2>2. /\ Others(i) \in Seq(Exchange) /\ Within(Others(i), wire)
    <3>1. Others(i) \in Seq(Exchange)
      BY <1>0, OthersFit
    <3> QED BY <1>0, <3>1, OneLessWithin DEF Others
  <2>3. /\ HeadFirst(Others(i))
        /\ \A q, m : Secure(wire, shown, q, m) => Secure(Others(i), shown, q, m)
    BY <1>0, <1>a, <2>2, HeadWithin, SecureWithin
  <2>4. CASE wire[i].kind \in {"enroll", "init"} /\ wire[i].ans = "ok"
    <3>1. /\ qr' = (IF wire[i].live THEN wire[i].qr ELSE qr) /\ wire' = Others(i) /\ dialog' = dialog
      BY <1>0, <1>4, <2>4, Delivered
    <3>2. wire[i].qr # "old" /\ Secret(wire[i])
      BY <1>a, <2>4 DEF HeadFirst, Secret
    <3>3. CASE wire[i].live
      <4>1. \A j \in DOMAIN Others(i) : Others(i)[j] = wire[j + 1] /\ j + 1 \in DOMAIN wire /\ j + 1 > 1
        BY <1>0, <2>1, HeadOut DEF Others
      <4>2. AllLive(Others(i))
        BY <1>a, <1>b, <2>1, <3>2, <3>3, <4>1 DEF Secure, LiveLast, AllLive
      <4>3. "repeat" \notin seen => NoneLive(Others(i)) /\ OneLive(Others(i))
        <5> SUFFICES ASSUME "repeat" \notin seen PROVE NoneLive(Others(i)) /\ OneLive(Others(i))
          OBVIOUS
        <5>1. OneLive(wire)
          BY <1>a DEF Secure
        <5>2. NoneLive(Others(i))
          BY <1>b, <2>1, <3>2, <3>3, <4>1, <5>1 DEF OneLive, NoneLive
        <5> QED BY <5>2 DEF NoneLive, OneLive
      <4>4. LiveLast(Others(i)) /\ Listens(Others(i), shown)
        BY <1>a, <2>3 DEF Secure
      <4>5. Secure(wire', shown', qr', seen')
        BY <1>0, <2>1, <3>1, <4>2, <4>3, <4>4 DEF Secure
      <4> QED BY <1>a, <2>1, <2>3, <3>1, <3>2, <3>3, <4>5 DEF Secrets
    <3>4. CASE ~wire[i].live
      <4>1. qr # "old"
        BY <1>a, <2>1, <3>4 DEF Secrets
      <4>2. Secure(wire', shown', qr', seen')
        BY <1>0, <1>a, <2>1, <2>3, <3>1, <3>4, SecureLess
      <4> QED BY <1>a, <2>1, <2>3, <3>1, <3>4, <4>1, <4>2 DEF Secrets
    <3> QED BY <3>3, <3>4
  <2>5. CASE ~(wire[i].kind \in {"enroll", "init"} /\ wire[i].ans = "ok")
    <3>1. qr # "old"
      BY <1>a, <2>1, <2>5 DEF Secrets, Secret
    <3>2. qr' \in {qr, "none"}
      BY <1>0, <1>4, <2>5, Delivered
    <3>5. dialog' => dialog
      BY <1>0, <1>4, Delivered
    <3>3. Secure(Others(i), shown, qr', seen')
      BY <1>0, <1>a, <2>3, <3>2, SecureLess
    <3>4. Secure(wire', shown, qr', seen') /\ HeadFirst(wire')
      <4>1. CASE wire' = Others(i)
        BY <2>3, <3>3, <4>1
      <4>2. CASE wire' = Append(Others(i), Request("logout", "right", cookie))
        <5>1. PICK r : /\ r = Request("logout", "right", cookie) /\ r \in Exchange
                       /\ r.ans = "waiting" /\ ~Secret(r)
          <6>1. "logout" \in Kind /\ "right" \in Typed
            BY DEF Kind, Typed
          <6> QED BY <1>0, <6>1, Requests DEF Secret
        <5> QED BY <2>2, <2>3, <3>3, <4>2, <5>1, SecureOther, HeadMore
      <4>3. CASE wire' = Asked(Others(i), Stored(wire[i]))
        <5>1. /\ Others(i) \in Seq(Exchange) /\ Fits(Others(i)) /\ OneAsk(Others(i))
              /\ Stored(wire[i]) \in Token
          BY <1>0, <1>4, OthersFit, Delivered
        <5> QED BY <1>0, <2>3, <3>3, <4>3, <5>1, SecureAsked
      <4> QED BY <1>0, <1>4, <4>1, <4>2, <4>3, Delivered
    <3> QED BY <1>a, <2>1, <3>1, <3>2, <3>4, <3>5 DEF Secrets
  <2> QED BY <2>4, <2>5
<1>5. ASSUME NEW i \in DOMAIN wire, Lose(i) PROVE Secrets'
  <2>1. /\ DOMAIN wire' = DOMAIN wire
        /\ \A j \in DOMAIN wire : /\ wire'[j].kind = wire[j].kind /\ wire'[j].live = wire[j].live
                                  /\ wire'[j].qr = wire[j].qr
        /\ wire'[i].ans = "lost" /\ \A j \in DOMAIN wire : j # i => wire'[j].ans = wire[j].ans
    BY <1>0, <1>5, Lost
  <2>2. shown' = shown /\ qr' = qr /\ dialog' = dialog
    BY <1>5 DEF Lose, page
  <2>3. qr # "old"
    BY <1>0, <1>a, <1>5, LostCurrent DEF Lose
  <2>4. Secure(wire', shown', qr', seen')
    BY <1>0, <1>a, <2>1, <2>2, SecureAlike, SecureLess
  <2>5. HeadFirst(wire')
    BY <1>a, <2>1 DEF HeadFirst, Secret
  <2> QED BY <1>a, <2>2, <2>3, <2>4, <2>5 DEF Secrets
<1>6. CASE Sending
  <2>1. PICK r : Sends(r)
    BY <1>0, <1>6, SendingSends
  <2>2. /\ r \in Exchange /\ r.ans = "waiting" /\ r.live /\ wire' = Append(wire, r)
        /\ shown' = shown /\ qr' = qr /\ dialog' = dialog
    BY <2>1 DEF Sends, page
  <2>3. Secure(wire', shown', qr', seen')
    <3>0. Secure(wire, shown, qr, seen')
      BY <1>0, <1>a, SecureLess
    <3>1. CASE r.kind = "init"
      <4>1. dialog /\ qr = "none" /\ (InFlight("init") => "repeat" \in seen') /\ shown = "me"
        BY <1>a, <2>1, <3>1 DEF Sends
      <4>2. "repeat" \notin seen' => NoneLive(wire)
        <5> SUFFICES ASSUME "repeat" \notin seen', NEW i \in DOMAIN wire, Secret(wire[i]), wire[i].live
                     PROVE  FALSE
          BY DEF NoneLive
        <5>1. wire[i].kind # "enroll"
          BY <1>a, <4>1 DEF Secure, Listens
        <5>2. wire[i].kind = "init"
          BY <5>1 DEF Secret
        <5> QED BY <4>1, <5>2 DEF InFlight
      <4> QED BY <1>0, <2>2, <3>0, <3>1, <4>1, <4>2, SecureMore
    <3>2. CASE r.kind # "init"
      <4>1. ~Secret(r)
        BY <2>1, <3>2 DEF Secret, Sends
      <4> QED BY <1>0, <2>2, <3>0, <4>1, SecureOther
    <3> QED BY <3>1, <3>2
  <2>4. HeadFirst(wire')
    BY <1>0, <1>a, <2>2, HeadMore
  <2>5. \A i \in DOMAIN wire : wire'[i] = wire[i] /\ i \in DOMAIN wire'
    BY <1>0, <2>2, OneMore
  <2> QED BY <1>a, <2>2, <2>3, <2>4, <2>5 DEF Secrets
<1>7. CASE Quiet
  <2>1. /\ wire' = wire /\ shown' = shown /\ qr' \in {qr, "none"}
        /\ dialog' => dialog \/ shown = "me"
    BY <1>7 DEF Quiet, OpenRebind, CloseRebind, Navigate, OtherTab, page
  <2>2. Secure(wire', shown', qr', seen')
    BY <1>0, <1>a, <2>1, SecureLess
  <2> QED BY <1>a, <2>1, <2>2 DEF Secrets
<1>8. CASE Revoke
  <2>1. wire' = Killed(wire) /\ UNCHANGED <<shown, qr, dialog, seen>>
    BY <1>8 DEF Revoke, page
  <2>2. /\ DOMAIN wire' = DOMAIN wire
        /\ \A j \in DOMAIN wire : /\ wire'[j].kind = wire[j].kind /\ wire'[j].live = wire[j].live
                                  /\ wire'[j].qr = wire[j].qr /\ wire'[j].ans = wire[j].ans
    BY <1>0, <2>1, KilledWire
  <2>3. Secure(wire', shown', qr', seen')
    BY <1>a, <2>1, <2>2, SecureAlike
  <2>4. HeadFirst(wire')
    BY <1>a, <2>2 DEF HeadFirst, Secret
  <2> QED BY <1>a, <2>1, <2>2, <2>3, <2>4 DEF Secrets, Secret
<1>9. CASE Reconnect
  <2>1. wire' = Asked(wire, cookie) /\ UNCHANGED <<shown, qr, dialog>>
    BY <1>9 DEF Reconnect, page
  <2>2. qr # "old"
    BY <1>0, <1>a, <1>9, LostCurrent DEF Reconnect
  <2>3. Secure(wire', shown, qr, seen') /\ HeadFirst(wire')
    <3>1. Secure(wire, shown, qr, seen')
      BY <1>0, <1>a, SecureLess
    <3> QED BY <1>0, <1>a, <2>1, <3>1, SecureAsked DEF Base
  <2> QED BY <1>a, <2>1, <2>2, <2>3 DEF Secrets
<1>10. ASSUME NEW r \in Route, Reload(r) PROVE Secrets'
  <2>1. wire' = FirstAsk(cookie) /\ qr' = "none" /\ dialog' = FALSE
    BY <1>10 DEF Reload
  <2>2. DOMAIN wire' = {1} /\ wire'[1].kind = "me" /\ wire'[1].ans = "waiting"
    BY <1>0, <2>1, FirstAskFits, Asks
  <2>3. Secure(wire', shown', qr', seen') /\ HeadFirst(wire')
    BY <2>1, <2>2 DEF Secure, LiveLast, Listens, AllLive, NoneLive, OneLive, HeadFirst, Secret
  <2> QED BY <2>1, <2>3 DEF Secrets
<1>11. CASE UNCHANGED vars
  BY <1>a, <1>11 DEF vars, Secrets
<1>12. ASSUME NEW t \in Token, OtherBinds(t) PROVE Secrets'
  <2>1. /\ DOMAIN wire' = DOMAIN wire
        /\ \A j \in DOMAIN wire : /\ wire'[j].kind = wire[j].kind /\ wire'[j].live = wire[j].live
                                  /\ wire'[j].qr = Superseded(wire[j].qr) /\ wire'[j].ans = wire[j].ans
        /\ UNCHANGED <<shown, dialog>> /\ qr' = Superseded(qr)
    BY <1>0, <1>12, OtherWire
  <2>2. \A q : /\ Superseded(q) = "old" <=> q = "old"
               /\ Superseded(q) # "none" => q # "none"
    BY DEF Superseded
  <2>3. Secure(wire', shown', qr', seen')
    <3>1. Secure(wire', shown, qr, seen)
      BY <1>a, <2>1, SecureAlike
    <3> QED BY <1>0, <2>1, <2>2, <3>1, SecureLess
  <2>4. HeadFirst(wire')
    BY <1>a, <2>1, <2>2 DEF HeadFirst, Secret
  <2> QED BY <1>a, <2>1, <2>2, <2>3, <2>4 DEF Secrets, Secret
<1>13. CASE OtherSetup
  <2>1. UNCHANGED <<wire, shown, qr, dialog>>
    BY <1>13 DEF OtherSetup, page
  <2>2. Secure(wire', shown', qr', seen')
    BY <1>0, <1>a, <2>1, SecureLess
  <2> QED BY <1>a, <2>1, <2>2 DEF Secrets
<1> QED BY <1>1, <1>2, <1>3, <1>4, <1>5, <1>6, <1>7, <1>8, <1>9, <1>10, <1>11, <1>12, <1>13, Cases

(* The secret left on screen is the newest the tab has asked for, the stored *)
(* one unless another client has replaced it since.                          *)
THEOREM ShownStored == Spec => []ShownIsStored
<1>1. Init => SecretsInv
  <2> SUFFICES ASSUME Init PROVE SecretsInv
    OBVIOUS
  <2>1. Base /\ TypeOK
    BY BaseInit DEF Base
  <2>2. wire = FirstAsk(cookie) /\ qr = "none" /\ dialog = FALSE
    BY DEF Init
  <2>3. DOMAIN wire = {1} /\ wire[1].kind = "me" /\ wire[1].ans = "waiting"
    BY <2>1, <2>2, FirstAskFits, Asks DEF TypeOK
  <2>4. Secure(wire, shown, qr, seen) /\ HeadFirst(wire)
    BY <2>2, <2>3 DEF Secure, LiveLast, Listens, AllLive, NoneLive, OneLive, HeadFirst, Secret
  <2> QED BY <2>1, <2>2, <2>4 DEF SecretsInv, Secrets
<1>2. SecretsInv => ShownIsStored
  <2>1. ASSUME Settled PROVE 1 \notin DOMAIN wire
    BY <2>1 DEF Settled
  <2>2. SecretsInv => qr \in OnScreen
    BY DEF SecretsInv, Base, TypeOK
  <2> QED BY <2>1, <2>2 DEF SecretsInv, Secrets, ShownIsStored
<1> QED BY <1>1, <1>2, SecretsNext, PTL DEF Spec

-----------------------------------------------------------------------------
(* The setup page *)

(* The second factor's codes; the pages for it; the signed-in requests. *)
Code   == {"activate", "verify"}
Steps  == {"enroll", "verify"}
Signed == {"load", "init", "confirm", "passwd", "logout"}

Has(w, k) == \E i \in DOMAIN w : w[i].kind = k

(* A request in flight knows no account that does not exist yet, and no      *)
(* answer says that none exists once one does.                               *)
FreshRequest(r, m) ==
    /\ r.kind \in Signed => inited /\ m # "setup"
    /\ ~inited => r.tok = "none" /\ r.set = "keep"
    /\ r.ans = "setup" => ~inited
    /\ r.ans \in {"user", "enrollNext", "totpNext"} => inited
    /\ r.kind \in Code /\ r.ans = "ok" => inited
    /\ r.ans # "lost"

(* The queue w while m is cached and page s shown. *)
FreshQueue(w, m, s) ==
    /\ \A i \in DOMAIN w : FreshRequest(w[i], m)
    /\ \A i, j \in DOMAIN w : i < j /\ w[i].kind = "setup" /\ w[j].kind = "login" => m # "setup"
    /\ ~inited /\ Has(w, "me") => m \in {"none", "anon"} /\ ~Has(w, "setup") /\ s # "setup"

FreshPage ==
    /\ me = "user" => inited
    /\ shown \in Protected => inited /\ me # "setup"
    /\ ~inited => cookie = "none" /\ ~enrolled /\ last = "none"
    /\ dialog => shown = "me"

(* Where "setup" is cached and an account exists, the page is on its way: the*)
(* answer to the form, the pages of the second factor, or a new ["me"].      *)
Leaves(w, p) ==
    \/ \E i \in DOMAIN w : w[i].kind = "setup" /\ w[i].ans = "ok"
    \/ p \in Steps /\ ~Has(w, "login")
    \/ Has(w, "me")

Fresh == /\ FreshQueue(wire, me, shown) /\ FreshPage
         /\ inited /\ me = "setup" => Leaves(wire, route)

FreshInv == Base /\ (seen \intersect {"lost", "otherSetup"} = {} => Fresh)

(* Fewer requests know no more of accounts. *)
LEMMA FreshWithin ==
    ASSUME NEW w \in Seq(Exchange), NEW v \in Seq(Exchange), Within(v, w),
           NEW m, NEW s, FreshQueue(w, m, s)
    PROVE  FreshQueue(v, m, s)
<1>1. PICK f \in [1..Len(v) -> DOMAIN w] :
        /\ \A j \in 1..Len(v) : v[j] = w[f[j]]
        /\ \A j, k \in 1..Len(v) : j < k => f[j] < f[k]
  BY DEF Within
<1>2. DOMAIN v = 1..Len(v) /\ Len(v) \in Nat
  BY LenProperties
<1>3. \A j \in DOMAIN v : v[j] = w[f[j]] /\ f[j] \in DOMAIN w
  BY <1>1, <1>2
<1>4. \A j, k \in DOMAIN v : j < k => f[j] < f[k]
  BY <1>1, <1>2
<1>5. \A k : Has(v, k) => Has(w, k)
  BY <1>3 DEF Has
<1>6. \A i \in DOMAIN v : FreshRequest(v[i], m)
  BY <1>3 DEF FreshQueue
<1>7. \A i, j \in DOMAIN v : i < j /\ v[i].kind = "setup" /\ v[j].kind = "login" => m # "setup"
  BY <1>3, <1>4 DEF FreshQueue
<1> QED BY <1>5, <1>6, <1>7 DEF FreshQueue

(* What is forgotten of a request, or of its tokens, leaves it fresh. *)
LEMMA FreshAlike ==
    ASSUME NEW w, NEW v, DOMAIN v = DOMAIN w,
           \A i \in DOMAIN w : /\ v[i].kind = w[i].kind /\ v[i].ans = w[i].ans
                               /\ w[i].tok = "none" => v[i].tok = "none"
                               /\ w[i].set = "keep" => v[i].set = "keep",
           NEW m, NEW s, FreshQueue(w, m, s)
    PROVE  FreshQueue(v, m, s)
<1>1. \A k : Has(v, k) <=> Has(w, k)
  BY DEF Has
<1>2. \A i \in DOMAIN v : FreshRequest(v[i], m)
  BY DEF FreshQueue, FreshRequest
<1> QED BY <1>1, <1>2 DEF FreshQueue

(* A new request knows no more than the page that sends it. *)
LEMMA FreshMore ==
    ASSUME NEW w \in Seq(Exchange), NEW m, NEW s, FreshQueue(w, m, s),
           NEW r \in Exchange, r.ans = "waiting", r.set = "keep", ~inited => r.tok = "none",
           r.kind \in Signed => inited /\ m # "setup", r.kind = "login" => m # "setup",
           r.kind = "me" => inited, r.kind = "setup" /\ ~inited => ~Has(w, "me")
    PROVE  FreshQueue(Append(w, r), m, s)
<1>1. PICK v : v = Append(w, r)
  OBVIOUS
<1>2. /\ DOMAIN v = DOMAIN w \cup {Len(w) + 1} /\ Len(w) + 1 \notin DOMAIN w
      /\ \A i \in DOMAIN w : v[i] = w[i] /\ i < Len(w) + 1
      /\ v[Len(w) + 1] = r
      /\ DOMAIN w \subseteq Int /\ Len(w) + 1 \in Int
  BY <1>1, OneMore, LenProperties
<1>3. \A k : Has(v, k) <=> Has(w, k) \/ r.kind = k
  BY <1>2 DEF Has
<1>4. \A i \in DOMAIN v : FreshRequest(v[i], m)
  BY <1>2 DEF FreshQueue, FreshRequest, Code
<1>5. \A i, j \in DOMAIN v : i < j /\ v[i].kind = "setup" /\ v[j].kind = "login" => m # "setup"
  BY <1>2 DEF FreshQueue
<1>6. ~inited /\ Has(v, "me") => m \in {"none", "anon"} /\ ~Has(v, "setup") /\ s # "setup"
  BY <1>3 DEF FreshQueue
<1>7. FreshQueue(v, m, s)
  BY <1>4, <1>5, <1>6 DEF FreshQueue
<1> QED BY <1>1, <1>7

(* Where nobody is cached, or another page is shown, the queue is as fresh.  *)
LEMMA FreshLess ==
    ASSUME NEW w, NEW m, NEW s, FreshQueue(w, m, s), NEW n \in {m, "anon"}, NEW t, t # "setup" \/ t = s
    PROVE  FreshQueue(w, n, t)
  BY DEF FreshQueue, FreshRequest

(* Asked for ["me"] again, with an account. *)
LEMMA FreshAsked ==
    ASSUME TypeOK, NEW w \in Seq(Exchange), OneAsk(w), NEW t \in Token, inited,
           NEW m, NEW s, FreshQueue(w, m, s)
    PROVE  FreshQueue(Asked(w, t), m, s)
<1>1. PICK r : r = Ask(t) /\ r \in Exchange /\ r.ans = "waiting" /\ r.set = "keep" /\ r.kind = "me"
  BY Asks
<1>2. PICK u : u = Cancelled(w) /\ u \in Seq(Exchange) /\ Within(u, w)
  BY CancelledWire
<1>3. FreshQueue(u, m, s)
  BY <1>2, FreshWithin
<1>4. r.kind \notin Signed
  BY <1>1 DEF Signed
<1>5. FreshQueue(Append(u, r), m, s)
  BY <1>1, <1>2, <1>3, <1>4, FreshMore
<1> QED BY <1>1, <1>2, <1>5 DEF Asked

(* A request taken out, the others are still there. *)
LEMMA OneLessKeeps ==
    ASSUME NEW w \in Seq(Exchange), NEW i \in DOMAIN w, NEW k \in DOMAIN w, k # i
    PROVE  \E j \in DOMAIN RemoveAt(w, i) : RemoveAt(w, i)[j] = w[k]
<1>1. PICK v : v = RemoveAt(w, i)
  OBVIOUS
<1>2. /\ DOMAIN v = 1..(Len(w) - 1) /\ DOMAIN w = 1..Len(w) /\ Len(w) \in Nat
      /\ \A j \in DOMAIN v : v[j] = w[Was(i, j)]
  BY <1>1, OneLess, LenProperties
<1>3. CASE k < i
  <2>1. k \in DOMAIN v /\ Was(i, k) = k
    BY <1>2, <1>3 DEF Was
  <2> QED BY <1>1, <1>2, <2>1
<1>4. CASE k > i
  <2>1. k - 1 \in DOMAIN v /\ Was(i, k - 1) = k
    BY <1>2, <1>4 DEF Was
  <2> QED BY <1>1, <1>2, <2>1
<1> QED BY <1>2, <1>3, <1>4

(* Where each route leads, by what is cached. *)
LEMMA Led ==
    ASSUME TypeOK
    PROVE  /\ \A r \in Steps : Leads(r) = r
           /\ me = "user" => /\ \A r \in {"setup", "login"} : Leads(r) = "sites"
                             /\ \A r \in {"sites", "me"} : Leads(r) = r
                             /\ Leads("users") \in {"users", "sites"}
           /\ me = "setup" => \A r \in Route \ Steps : Leads(r) = "setup"
           /\ me = "anon" \/ (me = "none" /\ ~InFlight("me")) => \A r \in Route \ Steps : Leads(r) = "login"
           /\ me = "none" /\ InFlight("me") => \A r \in Route \ Steps : Leads(r) = "wait"
<1>0. me \in {"none", "setup", "anon", "user"}
  BY DEF TypeOK
<1>r. Route \ Steps = {"setup", "login", "sites", "users", "me"}
  BY DEF Route, Public, Protected, Steps
<1>l. /\ \A r \in Steps : Leads(r) = r
      /\ \A r \in {"setup", "login"} : Leads(r) = RequireAnon(r)
      /\ \A r \in {"sites", "me"} : Leads(r) = RequireAuth(r)
      /\ Leads("users") = IF RequireAuth("users") = "users" THEN RequireAdmin("users") ELSE RequireAuth("users")
  BY DEF Leads, Steps
<1>a. RequireAdmin("users") \in {"users", "sites"}
  BY DEF RequireAdmin
<1>1. ASSUME me = "user" PROVE State = "authenticated"
  BY <1>1 DEF State
<1>2. ASSUME me = "setup" PROVE State = "needsSetup"
  BY <1>2 DEF State
<1>3. ASSUME me = "anon" \/ (me = "none" /\ ~InFlight("me")) PROVE State = "unauthenticated"
  BY <1>3 DEF State
<1>4. ASSUME me = "none" /\ InFlight("me") PROVE State = "loading"
  BY <1>4 DEF State
<1>5. /\ State = "authenticated" => (\A r : RequireAuth(r) = r) /\ \A r : RequireAnon(r) = "sites"
      /\ State = "needsSetup" =>
            (\A r : RequireAuth(r) = "setup") /\ \A r \in {"setup", "login"} : RequireAnon(r) = "setup"
      /\ State = "unauthenticated" =>
            (\A r : RequireAuth(r) = "login") /\ \A r \in {"setup", "login"} : RequireAnon(r) = "login"
      /\ State = "loading" => (\A r : RequireAuth(r) = "wait") /\ \A r : RequireAnon(r) = "wait"
  BY DEF RequireAuth, RequireAnon
<1>6. me = "user" => /\ \A r \in {"setup", "login"} : Leads(r) = "sites"
                     /\ \A r \in {"sites", "me"} : Leads(r) = r
                     /\ Leads("users") \in {"users", "sites"}
  BY <1>l, <1>a, <1>1, <1>5
<1>7. me = "setup" => \A r \in Route \ Steps : Leads(r) = "setup"
  BY <1>l, <1>r, <1>2, <1>5
<1>8. me = "anon" \/ (me = "none" /\ ~InFlight("me")) => \A r \in Route \ Steps : Leads(r) = "login"
  BY <1>l, <1>r, <1>3, <1>5
<1>9. me = "none" /\ InFlight("me") => \A r \in Route \ Steps : Leads(r) = "wait"
  BY <1>l, <1>r, <1>4, <1>5
<1> QED BY <1>l, <1>6, <1>7, <1>8, <1>9

(* A page that may be mounted, and what it takes. *)
LEMMA Mountable ==
    ASSUME TypeOK, Leads(route) = route
    PROVE  /\ route \in Protected => me = "user"
           /\ route = "setup" => me = "setup"
           /\ route = "login" => me = "anon" \/ (me = "none" /\ ~InFlight("me"))
<1>1. me \in {"none", "setup", "anon", "user"} /\ route \in Route
  BY DEF TypeOK
<1>2. /\ Protected \subseteq Route \ Steps /\ "setup" \in Route \ Steps /\ "login" \in Route \ Steps
      /\ {"wait", "login", "setup"} \cap Protected = {}
  BY DEF Route, Public, Protected, Steps
<1> QED BY <1>1, <1>2, Led

(* Where the user acts, a page is mounted. *)
LEMMA Acting ==
    ASSUME TypeOK, Rendered, shown # "blank"
    PROVE  Leads(route) = route /\ shown = route
  BY DEF Rendered

(* Nothing that is asked without an account is answered as if there were one.*)
LEMMA UninitedReply ==
    ASSUME NEW r \in Exchange, ~inited, r.tok = "none", r.kind \notin Signed
    PROVE  /\ r.kind \in {"me", "login", "setup", "enroll", "activate", "verify"}
           /\ r.kind = "me" => Reply(r) = "setup"
           /\ r.kind = "login" => Reply(r) = "needsSetup"
           /\ r.kind = "setup" => Reply(r) \in {"refused", "ok"}
           /\ r.kind \in {"enroll", "activate", "verify"} => Reply(r) = "401"
           /\ ~(r.kind = "setup" /\ Reply(r) = "ok") => Cookies(r, Reply(r)) = {"keep"}
<1>1. r.kind \in {"me", "login", "setup", "enroll", "activate", "verify"}
  BY Fields DEF Signed, Kind
<1>2. /\ r.kind = "me" => Reply(r) = "setup"
      /\ r.kind = "login" => Reply(r) = "needsSetup"
      /\ r.kind = "setup" => Reply(r) \in {"refused", "ok"}
      /\ r.kind \in {"enroll", "activate", "verify"} => Reply(r) = "401"
  BY Replies DEF MeAnswer
<1>3. Reply(r) \in {"setup", "needsSetup", "refused", "ok", "401"}
      /\ (Reply(r) = "ok" => r.kind = "setup")
  BY <1>1, <1>2
<1> DEFINE a == Reply(r)
<1>4. ASSUME ~(r.kind = "setup" /\ a = "ok") PROVE Cookies(r, a) = {"keep"}
  <2>1. a \in {"setup", "needsSetup", "refused", "401"}
    BY <1>3, <1>4
  <2> HIDE DEF a
  <2> QED BY <2>1 DEF Cookies
<1> QED BY <1>1, <1>2, <1>4

(* A request leaves: whatever else leads off the setup page stays. *)
LEMMA LeavesOthers ==
    ASSUME Base, NEW i \in DOMAIN wire, NEW p, Leaves(wire, p), wire[i].kind # "me",
           ~(wire[i].kind = "setup" /\ wire[i].ans = "ok"),
           NEW q, q = p \/ wire[i].kind = "login"
    PROVE  Leaves(Others(i), q)
<1>1. PICK u : u = Others(i)
  OBVIOUS
<1>2. \A k \in DOMAIN wire : k # i => \E j \in DOMAIN u : u[j] = wire[k]
  BY <1>1, OneLessKeeps DEF Base, TypeOK, Others
<1>3. \A j \in DOMAIN u : \E k \in DOMAIN wire : u[j] = wire[k]
  BY <1>1, OneLess DEF Base, TypeOK, Others
<1>4. CASE \E k \in DOMAIN wire : wire[k].kind = "setup" /\ wire[k].ans = "ok"
  <2>1. PICK k \in DOMAIN wire : wire[k].kind = "setup" /\ wire[k].ans = "ok"
    BY <1>4
  <2>2. k # i
    BY <2>1
  <2> QED BY <1>1, <1>2, <2>1, <2>2 DEF Leaves
<1>5. CASE p \in Steps /\ ~Has(wire, "login")
  <2>1. q = p /\ ~Has(u, "login")
    BY <1>3, <1>5 DEF Has
  <2> QED BY <1>1, <1>5, <2>1 DEF Leaves
<1>6. CASE Has(wire, "me")
  <2>1. PICK k \in DOMAIN wire : wire[k].kind = "me"
    BY <1>6 DEF Has
  <2>2. k # i
    BY <2>1
  <2>3. Has(u, "me")
    BY <1>2, <2>1, <2>2 DEF Has
  <2> QED BY <1>1, <2>3 DEF Leaves
<1> QED BY <1>4, <1>5, <1>6 DEF Leaves

(* The server answers a request: only a setup makes an account. *)
LEMMA FreshServe ==
    ASSUME Base, Fresh, NEW i \in DOMAIN wire, Serve(i)
    PROVE  Fresh'
<1>0. /\ TypeOK /\ wire \in Seq(Exchange) /\ wire[i] \in Exchange
      /\ \A j \in DOMAIN wire : FreshRequest(wire[j], me) /\ Fit(wire[j])
  BY LenProperties, ElementOfSeq DEF Base, TypeOK, Fresh, FreshQueue, Fits
<1>1. /\ DOMAIN wire' = DOMAIN wire
      /\ wire[i].ans = "waiting" /\ wire'[i].ans = Reply(wire[i])
      /\ wire'[i].set \in Cookies(wire[i], Reply(wire[i]))
      /\ \A j \in DOMAIN wire : /\ wire'[j].kind = wire[j].kind
                                /\ wire'[j].tok \in {wire[j].tok, Dead(wire[j].tok)}
                                /\ j # i => /\ wire'[j].ans = wire[j].ans
                                            /\ wire'[j].set \in {wire[j].set, DeadCookie(wire[j].set)}
  BY <1>0, Served
<1>2. UNCHANGED <<admin, me, route, shown, dialog, last>>
  BY DEF Serve
<1>3. /\ inited' = (inited \/ (wire[i].kind = "setup" /\ Reply(wire[i]) \notin Failed))
      /\ enrolled' = (enrolled \/ (wire[i].kind = "activate" /\ Reply(wire[i]) \notin Failed))
      /\ cookie' \in {cookie, Dead(cookie)}
  BY DEF Serve
<1>4. Reply(wire[i]) \in Answers(wire[i].kind) /\ Reply(wire[i]) # "lost"
  BY <1>0, Answered
<1>5. CASE ~inited /\ wire[i].kind = "setup" /\ Reply(wire[i]) = "ok"
  <2>1. inited'
    BY <1>3, <1>5 DEF Failed
  <2>2. ~Has(wire, "me")
    BY <1>5 DEF Fresh, FreshQueue, Has
  <2>3. \A j \in DOMAIN wire : wire[j].ans # "setup" /\ wire[j].kind \notin Signed
    <3> SUFFICES ASSUME NEW j \in DOMAIN wire PROVE wire[j].ans # "setup" /\ wire[j].kind \notin Signed
      OBVIOUS
    <3>1. wire[j].kind # "me" /\ wire[j].kind \in Kind
      BY <1>0, <2>2, LenProperties, ElementOfSeq, Fields DEF Has
    <3>2. wire[j].ans # "setup"
      BY <1>0, <3>1, AnswersOf DEF Fit, Kind
    <3> QED BY <1>0, <1>5, <3>2 DEF FreshRequest
  <2>4. (\A j \in DOMAIN wire : FreshRequest(wire[j], me))'
    <3>1. \A j \in DOMAIN wire : /\ wire'[j].kind \notin Signed
                                 /\ wire'[j].ans \notin {"setup", "lost"}
      BY <1>0, <1>1, <1>5, <2>3 DEF FreshRequest
    <3> QED BY <1>1, <2>1, <3>1 DEF FreshRequest
  <2>5. FreshQueue(wire, me, shown)'
    BY <1>1, <1>2, <2>1, <2>4 DEF Fresh, FreshQueue
  <2>6. Leaves(wire, route)'
    BY <1>1, <1>5 DEF Leaves
  <2>7. FreshPage'
    BY <1>2, <2>1 DEF Fresh, FreshPage
  <2> QED BY <2>5, <2>6, <2>7 DEF Fresh
<1>6. CASE ~(~inited /\ wire[i].kind = "setup" /\ Reply(wire[i]) = "ok")
  <2>1. inited' <=> inited
    <3>1. wire[i].kind = "setup" => Reply(wire[i]) = "ok" \/ Reply(wire[i]) = "refused"
      BY <1>4, AnswersOf
    <3> QED BY <1>3, <1>6, <3>1 DEF Failed
  <2>2. ~inited => /\ wire[i].tok = "none" /\ wire[i].kind \notin Signed
                   /\ Reply(wire[i]) \in {"setup", "needsSetup", "refused", "401"}
                   /\ wire'[i].set = "keep"
    <3> SUFFICES ASSUME ~inited PROVE /\ wire[i].tok = "none" /\ wire[i].kind \notin Signed
                                      /\ Reply(wire[i]) \in {"setup", "needsSetup", "refused", "401"}
                                      /\ wire'[i].set = "keep"
      OBVIOUS
    <3>1. wire[i].tok = "none" /\ wire[i].kind \notin Signed
      BY <1>0 DEF FreshRequest
    <3> QED BY <1>0, <1>1, <1>6, <3>1, UninitedReply
  <2>3. ASSUME NEW j \in DOMAIN wire PROVE FreshRequest(wire'[j], me)
    <3>1. /\ wire[j].kind \in Signed => inited /\ me # "setup"
          /\ ~inited => wire[j].tok = "none" /\ wire[j].set = "keep"
      BY <1>0 DEF FreshRequest
    <3>2. ~inited => wire'[j].tok = "none"
      BY <1>1, <3>1, Tokens
    <3>3. CASE j # i
      <4>1. ~inited => wire'[j].set = "keep"
        BY <1>1, <3>1, <3>3 DEF DeadCookie
      <4> QED BY <1>0, <1>1, <3>1, <3>2, <3>3, <4>1 DEF FreshRequest
    <3>4. CASE j = i
      <4>1. Reply(wire[i]) = "setup" => ~inited
        <5>1. ASSUME inited PROVE Reply(wire[i]) # "setup"
          <6>1. wire[i].kind = "me" => Reply(wire[i]) # "setup"
            BY <5>1, Replies DEF MeAnswer
          <6>2. wire[i].kind # "me" => Reply(wire[i]) # "setup"
            BY <1>0, <1>4, AnswersOf, Fields DEF Kind
          <6> QED BY <6>1, <6>2
        <5> QED BY <5>1
      <4> QED BY <1>1, <1>4, <2>2, <3>1, <3>2, <3>4, <4>1 DEF FreshRequest
    <3> QED BY <3>3, <3>4
  <2>4. FreshQueue(wire', me, shown)
    <3>1. \A k : Has(wire', k) <=> Has(wire, k)
      BY <1>1 DEF Has
    <3> QED BY <1>1, <2>3, <3>1 DEF Fresh, FreshQueue
  <2>5. FreshQueue(wire, me, shown)'
    BY <1>2, <2>1, <2>4 DEF FreshQueue, FreshRequest
  <2>6. FreshPage'
    <3>1. ~inited => cookie' = "none" /\ ~enrolled'
      <4>1. ~inited => Reply(wire[i]) \in Failed \/ wire[i].kind # "activate"
        <5>1. ~inited /\ wire[i].kind = "activate" => Reply(wire[i]) = "401"
          BY <1>0, <2>2, UninitedReply
        <5> QED BY <5>1 DEF Failed
      <4> QED BY <1>3, <4>1, Tokens DEF Fresh, FreshPage
    <3> QED BY <1>2, <2>1, <3>1 DEF Fresh, FreshPage
  <2>7. Leaves(wire, route) => Leaves(wire', route)
    <3>1. \A k : Has(wire', k) <=> Has(wire, k)
      BY <1>1 DEF Has
    <3> QED BY <1>1, <3>1 DEF Leaves
  <2> QED BY <1>2, <2>1, <2>5, <2>6, <2>7 DEF Fresh
<1> QED BY <1>5, <1>6

(* An answer arrives. *)
LEMMA FreshDeliver ==
    ASSUME Base, Fresh, NEW i \in DOMAIN wire, Deliver(i)
    PROVE  Fresh'
<1>0. /\ TypeOK /\ wire \in Seq(Exchange) /\ wire[i] \in Exchange /\ OneAsk(wire)
      /\ FreshRequest(wire[i], me) /\ FreshQueue(wire, me, shown) /\ FreshPage
      /\ inited /\ me = "setup" => Leaves(wire, route)
  BY LenProperties, ElementOfSeq DEF Base, TypeOK, Fresh, FreshQueue
<1>1. UNCHANGED <<inited, enrolled, shown>> /\ Turn(i) /\ Fit(wire[i]) /\ Stored(wire[i]) \in Token
  BY Delivered DEF server
<1>2. /\ Others(i) \in Seq(Exchange) /\ Within(Others(i), wire) /\ OneAsk(Others(i))
  BY <1>0, OthersFit, OneLessWithin DEF Others
<1>3. FreshQueue(Others(i), me, shown)
  BY <1>0, <1>2, FreshWithin
<1>4. ~inited => cookie = "none" /\ Stored(wire[i]) = "none"
  BY <1>0 DEF FreshPage, FreshRequest, Stored
<1>5. ASSUME FreshQueue(wire', me', shown), ~inited => cookie' = "none" /\ last' = "none",
             me' = "user" => inited, me' = "setup" /\ me # "setup" => ~inited,
             dialog' => dialog, inited /\ me' = "setup" => Leaves(wire', route')
      PROVE  Fresh'
  <2>1. FreshQueue(wire, me, shown)'
    BY <1>1, <1>5 DEF FreshQueue, FreshRequest
  <2>2. FreshPage'
    BY <1>0, <1>1, <1>5 DEF FreshPage
  <2>3. (inited /\ me = "setup" => Leaves(wire, route))'
    BY <1>1, <1>5
  <2> QED BY <2>1, <2>2, <2>3 DEF Fresh
<1>6. ~inited => last = "none"
  BY <1>0 DEF FreshPage
<1>7. CASE wire[i].kind = "me" /\ wire[i].ans \in {"setup", "anon", "user"}
  <2>1. me' = wire[i].ans /\ wire' = Others(i) /\ UNCHANGED <<cookie, route, dialog, last>>
    BY <1>7, Delivered
  <2>2. /\ me' = "user" => inited
        /\ me' = "setup" => ~inited
    BY <1>0, <2>1 DEF FreshRequest
  <2>3. ~Has(Others(i), "me")
    <3>1. \A j \in DOMAIN Others(i) : \E k \in DOMAIN wire : k # i /\ Others(i)[j] = wire[k]
      BY <1>0, OneLess DEF Others
    <3> QED BY <1>0, <1>7, <3>1 DEF OneAsk, Has
  <2>4. FreshQueue(Others(i), me', shown)
    <3>1. CASE me' = "anon"
      BY <1>3, <3>1, FreshLess
    <3>2. CASE me' = "user"
      BY <1>3, <2>2, <3>2 DEF FreshQueue, FreshRequest
    <3>3. CASE me' = "setup"
      <4>1. ~Has(wire, "setup") /\ ~inited
        BY <1>0, <1>7, <2>2, <3>3 DEF FreshQueue, Has
      <4>2. \A j \in DOMAIN Others(i) : Others(i)[j].kind # "setup"
        BY <1>0, <4>1, OneLess DEF Others, Has
      <4> QED BY <1>3, <2>3, <4>1, <4>2 DEF FreshQueue, FreshRequest, Has
    <3> QED BY <1>7, <2>1, <3>1, <3>2, <3>3
  <2> QED BY <1>4, <1>5, <1>6, <2>1, <2>2, <2>4
<1>8. CASE \/ wire[i].ans = "401" /\ wire[i].kind # "me"
           \/ wire[i].ans \in {"ok", "needsTotp", "lost"} /\ wire[i].kind = "logout"
  <2>1. /\ me' = "anon" /\ wire' = Others(i) /\ cookie' \in {cookie, Stored(wire[i])} /\ dialog' = dialog
        /\ last' = "none" \/ wire[i].kind = "logout"
    BY <1>8, Delivered
  <2>2. wire[i].kind = "logout" => inited
    BY <1>0 DEF FreshRequest, Signed
  <2>3. FreshQueue(wire', me', shown)
    BY <1>3, <2>1, FreshLess
  <2> QED BY <1>4, <1>5, <2>1, <2>2, <2>3
<1>9. CASE /\ wire[i].ans \in {"needsTotp", "ok"}
           /\ wire[i].kind \in {"load", "init", "confirm", "passwd"}
  <2>1. inited /\ me # "setup"
    BY <1>0, <1>9 DEF FreshRequest, Signed
  <2>2. me' = me /\ (dialog' => dialog)
    BY <1>9, Delivered
  <2>3. FreshQueue(wire', me, shown)
    <3>1. CASE wire' = Others(i)
      BY <1>3, <3>1
    <3>2. CASE wire' = Append(Others(i), Request("logout", "right", cookie))
      <4>1. PICK r : /\ r = Request("logout", "right", cookie) /\ r \in Exchange
                     /\ r.ans = "waiting" /\ r.set = "keep" /\ r.kind = "logout"
        <5>1. "logout" \in Kind /\ "right" \in Typed /\ cookie \in Token
          BY <1>0 DEF Kind, Typed, TypeOK
        <5> QED BY <1>0, <5>1, Requests
      <4> QED BY <1>2, <1>3, <2>1, <3>2, <4>1, FreshMore
    <3> QED BY <1>9, <3>1, <3>2, Delivered
  <2> QED BY <1>5, <1>0, <2>1, <2>2, <2>3 DEF FreshPage
<1>10. CASE /\ wire[i].kind = "login"
            /\ wire[i].ans \in {"needsSetup", "enrollNext", "totpNext"}
  <2>1. /\ me' = me /\ wire' = Others(i) /\ dialog' = dialog /\ last' = last
        /\ cookie' \in {cookie, Stored(wire[i])}
    BY <1>10, Delivered
  <2>2. inited /\ me = "setup" => Leaves(wire', route')
    BY <1>0, <1>10, <2>1, LeavesOthers
  <2> QED BY <1>3, <1>4, <1>5, <1>6, <1>0, <2>1, <2>2 DEF FreshPage
<1>11. CASE \/ wire[i].ans = "refused" /\ wire[i].kind # "logout"
            \/ wire[i].ans = "ok" /\ wire[i].kind \in {"enroll", "init"}
  <2>1. /\ me' = me /\ wire' = Others(i) /\ dialog' = dialog /\ last' = last
        /\ cookie' = cookie /\ route' = route
    BY <1>11, Delivered
  <2>2. wire[i].kind # "me"
    BY <1>1, <1>11, AnswersOf DEF Fit
  <2>3. inited /\ me = "setup" => Leaves(wire', route')
    BY <1>0, <1>11, <2>1, <2>2, LeavesOthers
  <2> QED BY <1>3, <1>4, <1>5, <1>6, <1>0, <2>1, <2>3 DEF FreshPage
<1>12. CASE wire[i].ans = "ok" /\ wire[i].kind = "setup"
  <2>1. /\ me' = me /\ wire' = Others(i) /\ dialog' = dialog /\ last' = last
        /\ cookie' = Stored(wire[i]) /\ route' = "enroll"
    BY <1>12, Delivered
  <2>2. ASSUME me = "setup", NEW k \in DOMAIN wire PROVE wire[k].kind # "login"
    <3>1. CASE i < k
      BY <1>0, <1>12, <2>2, <3>1 DEF FreshQueue
    <3>2. CASE k < i
      <4>1. k \in 1..(i - 1)
        BY <1>0, <3>2, LenProperties
      <4> QED BY <1>1, <4>1 DEF Turn
    <3>3. CASE k = i
      BY <1>12, <3>3
    <3>4. i \in Int /\ k \in Int
      BY <1>0, LenProperties
    <3> QED BY <3>1, <3>2, <3>3, <3>4
  <2>3. me = "setup" => ~Has(Others(i), "login")
    <3>1. \A j \in DOMAIN Others(i) : \E k \in DOMAIN wire : Others(i)[j] = wire[k]
      BY <1>0, OneLess DEF Others
    <3> QED BY <2>2, <3>1 DEF Has
  <2>4. me = "setup" => Leaves(wire', route')
    BY <2>1, <2>3 DEF Leaves, Steps
  <2> QED BY <1>3, <1>4, <1>5, <1>6, <1>0, <2>1, <2>4 DEF FreshPage
<1>13. CASE wire[i].ans = "ok" /\ wire[i].kind \in {"activate", "verify"}
  <2>1. /\ me' = me /\ wire' = Asked(Others(i), Stored(wire[i])) /\ dialog' = dialog
    BY <1>13, Delivered
  <2>2. inited
    BY <1>0, <1>13 DEF FreshRequest, Code
  <2>3. FreshQueue(wire', me, shown)
    BY <1>0, <1>1, <1>2, <1>3, <2>1, <2>2, FreshAsked
  <2>4. me = "setup" => Has(wire', "me")
    <3> SUFFICES ASSUME me = "setup" PROVE Has(wire', "me")
      OBVIOUS
    <3>1. wire' = Append(Cancelled(Others(i)), Ask(Stored(wire[i])))
      BY <2>1 DEF Asked
    <3>2. Ask(Stored(wire[i])).kind = "me" /\ Ask(Stored(wire[i])) \in Exchange
      BY <1>0, <1>1, Asks
    <3>3. Cancelled(Others(i)) \in Seq(Exchange)
      BY <1>2, CancelledWire
    <3> QED BY <3>1, <3>2, <3>3, OneMore DEF Has
  <2> QED BY <1>0, <1>5, <2>1, <2>2, <2>3, <2>4 DEF FreshPage, Leaves
<1>14. wire[i].ans # "lost"
  BY <1>0 DEF FreshRequest
<1> QED BY <1>7, <1>8, <1>9, <1>10, <1>11, <1>12, <1>13, <1>14, Delivered

(* The user sends a request. *)
LEMMA FreshSend ==
    ASSUME Base, Fresh, NEW r, Sends(r)
    PROVE  Fresh'
<1>0. /\ TypeOK /\ wire \in Seq(Exchange)
      /\ FreshQueue(wire, me, shown) /\ FreshPage
      /\ inited /\ me = "setup" => Leaves(wire, route)
  BY DEF Base, TypeOK, Fresh
<1>1. /\ r \in Exchange /\ r.ans = "waiting" /\ r.set = "keep" /\ r.tok = cookie /\ r.kind # "me"
      /\ wire' = Append(wire, r) /\ Rendered
      /\ UNCHANGED <<inited, enrolled, cookie, me, route, shown, dialog, last>>
  BY DEF Sends, server, page
<1>2. r.kind \in Signed => inited /\ me # "setup"
  <2> SUFFICES ASSUME r.kind \in Signed PROVE shown \in Protected
    BY <1>0 DEF FreshPage
  <2>1. r.kind \in {"init", "confirm"} => shown = "me"
    BY <1>0 DEF Sends, FreshPage
  <2>2. r.kind \in {"logout", "load"} => shown \in Protected
    BY DEF Sends
  <2>3. r.kind = "passwd" => shown = "me"
    BY DEF Sends
  <2> QED BY <2>1, <2>2, <2>3 DEF Signed, Protected
<1>3. r.kind = "login" => me # "setup"
  <2> SUFFICES ASSUME r.kind = "login" PROVE me # "setup"
    OBVIOUS
  <2>1. shown = "login"
    BY DEF Sends
  <2>2. Leads(route) = route /\ route = "login"
    BY <1>0, <1>1, <2>1, Acting
  <2> QED BY <1>0, <2>2, Mountable
<1>4. r.kind = "setup" /\ ~inited => ~Has(wire, "me")
  BY <1>0 DEF Sends, FreshQueue
<1>5. FreshQueue(wire', me, shown)
  BY <1>0, <1>1, <1>2, <1>3, <1>4, FreshMore DEF FreshPage
<1>6. /\ \A k : Has(wire', k) => Has(wire, k) \/ r.kind = k
      /\ \A k : Has(wire, k) => Has(wire', k)
      /\ \A k \in DOMAIN wire : k \in DOMAIN wire' /\ wire'[k] = wire[k]
  BY <1>0, <1>1, OneMore DEF Has
<1>7. inited /\ me = "setup" => Leaves(wire', route)
  BY <1>0, <1>3, <1>6 DEF Leaves
<1>8. FreshQueue(wire, me, shown)'
  BY <1>1, <1>5 DEF FreshQueue, FreshRequest
<1>9. FreshPage'
  BY <1>0, <1>1 DEF FreshPage
<1> QED BY <1>1, <1>7, <1>8, <1>9 DEF Fresh

(* A page is mounted. *)
LEMMA FreshMount ==
    ASSUME Base, Fresh, Mount
    PROVE  Fresh'
<1>0. /\ TypeOK /\ wire \in Seq(Exchange) /\ me \in {"none", "setup", "anon", "user"}
      /\ FreshQueue(wire, me, shown) /\ FreshPage
      /\ inited /\ me = "setup" => Leaves(wire, route)
  BY DEF Base, TypeOK, Fresh
<1>1. /\ Leads(route) = route /\ shown' = route /\ dialog' = FALSE
      /\ UNCHANGED <<inited, enrolled, cookie, me, route, last>>
  BY DEF Mount, server
<1>2. (route \in Protected => me = "user") /\ (route = "setup" => me = "setup")
  BY <1>0, <1>1, Mountable
<1>3. PICK v : v = Orphaned(wire)
  OBVIOUS
<1>4. /\ v \in Seq(Exchange) /\ DOMAIN v = DOMAIN wire
      /\ \A i \in DOMAIN wire : /\ v[i].kind = wire[i].kind /\ v[i].ans = wire[i].ans
                                /\ v[i].tok = wire[i].tok /\ v[i].set = wire[i].set
  BY <1>0, <1>3, OrphanedWire
<1>5. FreshQueue(v, me, shown)
  BY <1>0, <1>4, FreshAlike
<1>6. FreshQueue(v, me, route)
  <2>1. CASE route = "setup"
    <3>1. ~(~inited /\ Has(v, "me"))
      BY <1>2, <1>5, <2>1 DEF FreshQueue
    <3> QED BY <1>5, <3>1 DEF FreshQueue
  <2>2. CASE route # "setup"
    BY <1>5, <2>2, FreshLess
  <2> QED BY <2>1, <2>2
<1>7. inited /\ me = "setup" => Leaves(v, route)
  <2>1. \A k : Has(v, k) <=> Has(wire, k)
    BY <1>4 DEF Has
  <2> QED BY <1>0, <1>4, <2>1 DEF Leaves
<1>8. FreshQueue(wire', me, route) /\ (inited /\ me = "setup" => Leaves(wire', route))
  <2>1. CASE wire' = v
    BY <1>6, <1>7, <2>1
  <2>2. ASSUME NEW r, Opens(r), wire' = Append(v, r)
        PROVE  FreshQueue(wire', me, route) /\ (inited /\ me = "setup" => Leaves(wire', route))
    <3>1. /\ r \in Exchange /\ r.ans = "waiting" /\ r.set = "keep" /\ r.tok = cookie
          /\ r.kind \in {"enroll", "load"} /\ (r.kind = "load" => route \in Protected)
      BY <2>2 DEF Opens, Protected
    <3>2. r.kind \in Signed => inited /\ me # "setup"
      BY <1>0, <1>2, <3>1 DEF Signed, FreshPage
    <3>3. FreshQueue(wire', me, route)
      BY <1>0, <1>4, <1>6, <2>2, <3>1, <3>2, FreshMore DEF FreshPage
    <3>4. /\ \A k : Has(wire', k) => Has(v, k) \/ r.kind = k
          /\ \A k : Has(v, k) => Has(wire', k)
          /\ \A k \in DOMAIN v : k \in DOMAIN wire' /\ wire'[k] = v[k]
      BY <1>4, <2>2, <3>1, OneMore DEF Has
    <3>5. inited /\ me = "setup" => Leaves(wire', route)
      BY <1>7, <3>1, <3>4 DEF Leaves
    <3> QED BY <3>3, <3>5
  <2> QED BY <1>0, <1>3, <2>1, <2>2, Mounting
<1>9. FreshQueue(wire, me, shown)'
  BY <1>1, <1>8 DEF FreshQueue, FreshRequest
<1>10. FreshPage'
  BY <1>0, <1>1, <1>2 DEF FreshPage
<1> QED BY <1>1, <1>8, <1>9, <1>10 DEF Fresh

(* Nothing of the queue or the page that matters here has changed. *)
LEMMA FreshSame ==
    ASSUME Base, Fresh, DOMAIN wire' = DOMAIN wire,
           \A i \in DOMAIN wire : /\ wire'[i].kind = wire[i].kind /\ wire'[i].ans = wire[i].ans
                                  /\ wire[i].tok = "none" => wire'[i].tok = "none"
                                  /\ wire[i].set = "keep" => wire'[i].set = "keep",
           UNCHANGED <<inited, me, last>>, inited \/ enrolled' = enrolled,
           ~inited => cookie' = "none",
           shown' \in {shown, "blank"}, dialog' => shown' = "me",
           me = "setup" => route' = route \/ route \notin Steps
    PROVE  Fresh'
<1>0. /\ FreshQueue(wire, me, shown) /\ FreshPage
      /\ inited /\ me = "setup" => Leaves(wire, route)
  BY DEF Fresh
<1>1. FreshQueue(wire', me, shown)
  BY <1>0, FreshAlike
<1>2. FreshQueue(wire', me, shown')
  BY <1>1, FreshLess
<1>3. \A k : Has(wire', k) <=> Has(wire, k)
  BY DEF Has
<1>4. inited /\ me = "setup" => Leaves(wire', route')
  BY <1>0, <1>3 DEF Leaves
<1>5. FreshQueue(wire, me, shown)'
  BY <1>2 DEF FreshQueue, FreshRequest
<1>6. FreshPage'
  <2>1. "blank" \notin Protected
    BY DEF Protected
  <2> QED BY <1>0, <2>1 DEF FreshPage
<1> QED BY <1>4, <1>5, <1>6 DEF Fresh

(* Every step keeps what is known of the first account. *)
LEMMA FreshNext == FreshInv /\ [Next]_vars => FreshInv'
<1> SUFFICES ASSUME FreshInv, [Next]_vars, "lost" \notin seen', "otherSetup" \notin seen'
             PROVE  Fresh'
  BY BaseNext DEF FreshInv
<1>0. /\ Base /\ TypeOK /\ wire \in Seq(Exchange) /\ cookie \in Token /\ Fresh /\ FreshPage
  BY FaultsKept DEF FreshInv, Base, TypeOK, Fresh
<1>1. CASE Redirect
  <2>1. /\ wire' = Orphaned(wire) /\ shown' = "blank" /\ dialog' = FALSE /\ Leads(route) # route
        /\ UNCHANGED <<inited, enrolled, me, last, cookie>>
    BY <1>1 DEF Redirect, server
  <2>2. route \notin Steps
    BY <1>0, <2>1, Led
  <2>3. /\ DOMAIN wire' = DOMAIN wire
        /\ \A i \in DOMAIN wire : /\ wire'[i].kind = wire[i].kind /\ wire'[i].ans = wire[i].ans
                                  /\ wire'[i].tok = wire[i].tok /\ wire'[i].set = wire[i].set
    BY <1>0, <2>1, OrphanedWire
  <2>4. ~inited => cookie' = "none"
    BY <1>0, <2>1 DEF FreshPage
  <2> QED BY <1>0, <2>1, <2>2, <2>3, <2>4, FreshSame
<1>2. CASE Mount
  BY <1>0, <1>2, FreshMount
<1>3. ASSUME NEW i \in DOMAIN wire, Serve(i) PROVE Fresh'
  BY <1>0, <1>3, FreshServe
<1>4. ASSUME NEW i \in DOMAIN wire, Deliver(i) PROVE Fresh'
  BY <1>0, <1>4, FreshDeliver
<1>5. ASSUME NEW i \in DOMAIN wire, Lose(i) PROVE Fresh'
  BY <1>5 DEF Lose, Happens
<1>6. CASE Sending
  BY <1>0, <1>6, SendingSends, FreshSend
<1>7. CASE Quiet
  <2>1. /\ wire' = wire /\ shown' = shown /\ (dialog' => dialog \/ shown = "me")
        /\ UNCHANGED <<inited, enrolled, me, last>> /\ (cookie' = cookie \/ inited)
        /\ route' = route \/ shown \in Protected
    BY <1>7 DEF Quiet, OpenRebind, CloseRebind, Navigate, OtherTab, page, server
  <2>2. /\ ~inited => cookie' = "none"
        /\ dialog' => shown' = "me"
        /\ me = "setup" => route' = route
    BY <1>0, <2>1 DEF FreshPage
  <2> QED BY <1>0, <2>1, <2>2, FreshSame
<1>8. CASE Revoke
  <2>1. wire' = Killed(wire) /\ cookie' = Dead(cookie) /\ UNCHANGED <<inited, enrolled, me, last, route, shown, dialog>>
    BY <1>8 DEF Revoke, page, server
  <2>2. /\ DOMAIN wire' = DOMAIN wire
        /\ \A i \in DOMAIN wire : /\ wire'[i].kind = wire[i].kind /\ wire'[i].ans = wire[i].ans
                                  /\ wire[i].tok = "none" => wire'[i].tok = "none"
                                  /\ wire[i].set = "keep" => wire'[i].set = "keep"
    BY <1>0, <2>1, KilledWire, Tokens DEF DeadCookie
  <2>3. ~inited => cookie' = "none"
    BY <1>0, <2>1, Tokens DEF FreshPage
  <2>4. dialog' => shown' = "me"
    BY <1>0, <2>1 DEF FreshPage
  <2> QED BY <1>0, <2>1, <2>2, <2>3, <2>4, FreshSame
<1>9. CASE Reconnect
  BY <1>9 DEF Reconnect, Happens
<1>10. ASSUME NEW r \in Route, Reload(r) PROVE Fresh'
  <2>1. /\ wire' = FirstAsk(cookie) /\ shown' = "blank" /\ dialog' = FALSE /\ me' = "none" /\ last' = "none"
        /\ UNCHANGED <<inited, enrolled, cookie>>
    BY <1>10 DEF Reload, server
  <2>2. /\ DOMAIN wire' = {1} /\ wire'[1].kind = "me" /\ wire'[1].ans = "waiting"
        /\ wire'[1].tok = cookie /\ wire'[1].set = "keep"
    BY <1>0, <2>1, FirstAskFits, Asks
  <2>3. FreshQueue(wire, me, shown)'
    BY <1>0, <2>1, <2>2 DEF FreshQueue, FreshRequest, FreshPage, Has, Signed, Code
  <2>4. FreshPage'
    BY <1>0, <2>1 DEF FreshPage, Protected
  <2> QED BY <2>1, <2>3, <2>4 DEF Fresh
<1>11. CASE UNCHANGED vars
  <2>1. FreshQueue(wire, me, shown)' /\ FreshPage'
    BY <1>0, <1>11 DEF vars, Fresh, FreshQueue, FreshRequest, FreshPage
  <2> QED BY <1>0, <1>11, <2>1 DEF vars, Fresh
<1>12. ASSUME NEW t \in Token, OtherBinds(t) PROVE Fresh'
  <2>1. dialog' => shown' = "me"
    BY <1>0, <1>12, OtherWire DEF FreshPage
  <2> QED BY <1>0, <1>12, <2>1, OtherWire, FreshSame
<1>13. CASE OtherSetup
  BY <1>13 DEF OtherSetup, Happens
<1> QED BY <1>1, <1>2, <1>3, <1>4, <1>5, <1>6, <1>7, <1>8, <1>9, <1>10, <1>11, <1>12, <1>13, Cases

(* Whether or not an account exists, nothing has been asked yet but ["me"]. *)
LEMMA FreshInit == Init => FreshInv
<1> SUFFICES ASSUME Init PROVE FreshInv
  OBVIOUS
<1>1. Base /\ TypeOK
  BY BaseInit DEF Base
<1>2. /\ wire = FirstAsk(cookie) /\ dialog = FALSE /\ me = "none" /\ shown = "blank" /\ last = "none"
  BY DEF Init
<1>3. /\ DOMAIN wire = {1} /\ wire[1].kind = "me" /\ wire[1].ans = "waiting"
      /\ wire[1].tok = cookie /\ wire[1].set = "keep"
  BY <1>1, <1>2, FirstAskFits, Asks DEF TypeOK
<1>4. ~inited => ~enrolled /\ cookie = "none"
  <2>1. inited \in BOOLEAN /\ enrolled \in {FALSE, inited}
    BY DEF Init
  <2>2. ~inited => ~enrolled
    BY ONLY <2>1, Zenon
  <2> QED BY <2>2 DEF Init
<1>5. FreshQueue(wire, me, shown)
  BY <1>2, <1>3, <1>4 DEF FreshQueue, FreshRequest, Has, Signed, Code
<1>6. FreshPage
  BY <1>2, <1>4 DEF FreshPage, Protected
<1> QED BY <1>1, <1>2, <1>5, <1>6 DEF FreshInv, Fresh

(* Nobody is left on the setup page by the account the tab has created. *)
THEOREM SetupFresh == Spec => []SetupOnlyFresh
<1>1. FreshInv => SetupOnlyFresh
  <2> SUFFICES ASSUME FreshInv, Settled, shown = "setup",
                      seen \intersect {"lost", "otherSetup"} = {}, inited
               PROVE  FALSE
    BY DEF SetupOnlyFresh
  <2>1. TypeOK /\ Fresh
    BY DEF FreshInv, Base
  <2>2. Leads(route) = route /\ route = "setup"
    BY <2>1, Acting DEF Settled
  <2>3. me = "setup"
    BY <2>1, <2>2, Mountable
  <2>4. Leaves(wire, route)
    BY <2>1, <2>3 DEF Fresh
  <2>5. DOMAIN wire = {}
    BY DEF Settled
  <2> QED BY <2>2, <2>4, <2>5 DEF Leaves, Has, Steps
<1> QED BY <1>1, FreshInit, FreshNext, PTL DEF Spec

-----------------------------------------------------------------------------
(* Answers in order, and a user who waits for ["me"] *)

(* The kinds of two requests in flight, the earlier first.  The user waits   *)
(* for ["me"]; codes are typed on the pages of the second factor; a login is *)
(* submitted once.                                                           *)
May(a, b) ==
    /\ a = "me" => b \in {"enroll", "load"}
    /\ b = "me" => a \in Code \cup {"login", "load"}
    /\ a = "login" => b \in {"me", "logout"}
    /\ b \in Code => a \in {"enroll", "logout"} \cup Code
    /\ a \in Code => b \in Code \cup {"login", "me", "load"}

InOrder(w) == \A i, j \in DOMAIN w : i < j => May(w[i].kind, w[j].kind)

(* Only the oldest request may have been answered. *)
Waits(w) == \A i \in DOMAIN w : i > 1 => w[i].ans = "waiting"

HasCode(w) == Has(w, "activate") \/ Has(w, "verify")

(* With p the address: an enrollment is asked for after ["me"] only there. *)
Enrolls(w, p) == \A i, j \in DOMAIN w :
                    i < j /\ w[i].kind = "me" /\ w[j].kind = "enroll" => p \in Steps

(* A code is sent from the page of its step, and nothing but its answer      *)
(* makes a cached user leave it.                                             *)
Codes(w, m, p, s) ==
    HasCode(w) => /\ p \in Steps => s = p
                  /\ m = "user" /\ ~Has(w, "me") => p \in Steps

(* What is under way while the address is that of a step. *)
OnStep(w, p) ==
    p \in Steps => \A i \in DOMAIN w : w[i].kind \in {"enroll", "logout", "me"} \cup Code

(* A login is under way only where nobody is cached. *)
Logins(w, m, p, s) ==
    Has(w, "login") =>
        /\ m \notin {"user", "setup"} /\ s \in {"login", "blank"}
        /\ \/ Has(w, "me")
           \/ p = "login" /\ s = "login" /\ \A i \in DOMAIN w : w[i].kind = "login" => w[i].live

(* A setup is the only request under way. *)
Setups(w, m, p, s) ==
    Has(w, "setup") => /\ DOMAIN w = {1} /\ w[1].live
                       /\ m = "setup" /\ p = "setup" /\ s = "setup"

Vacant(w, m, p) ==
    m = "setup" /\ p \notin Steps /\ ~inited => \A i \in DOMAIN w : w[i].kind = "setup"

(* The queue w while m is cached, at address p with page s shown; l says     *)
(* whether this tab has last logged in or out.                               *)
Tidy(w, m, p, s, l) ==
    /\ Waits(w) /\ InOrder(w) /\ Enrolls(w, p)
    /\ Codes(w, m, p, s) /\ OnStep(w, p)
    /\ Logins(w, m, p, s) /\ Setups(w, m, p, s) /\ Vacant(w, m, p)
    /\ m = "none" => 1 \in DOMAIN w /\ w[1].kind = "me"
    /\ l = "out" => m # "user" /\ ~Has(w, "me")

Calm(faults) == /\ "lost" \notin faults /\ "late" \notin faults /\ "hasty" \notin faults
                /\ "otherSetup" \notin faults

Orderly == Tidy(wire, me, route, shown, last)

OrderlyInv == FreshInv /\ (Calm(seen) => Orderly)

(* The request for ["me"] is always listened to. *)
LEMMA AskedFor ==
    ASSUME Base
    PROVE  Has(wire, "me") <=> InFlight("me")
<1>1. \A i \in DOMAIN wire : wire[i].kind = "me" => wire[i].live
  BY DEF Base, Fits, Fit
<1> QED BY <1>1 DEF Has, InFlight

(* A new request comes last, if it may come after the others. *)
LEMMA InOrderMore ==
    ASSUME NEW w \in Seq(Exchange), InOrder(w), Waits(w), NEW r \in Exchange, r.ans = "waiting",
           \A i \in DOMAIN w : May(w[i].kind, r.kind)
    PROVE  /\ InOrder(Append(w, r)) /\ Waits(Append(w, r))
           /\ \A k : Has(Append(w, r), k) <=> Has(w, k) \/ r.kind = k
<1>1. PICK v : v = Append(w, r)
  OBVIOUS
<1>2. /\ DOMAIN v = DOMAIN w \cup {Len(w) + 1} /\ Len(w) + 1 \notin DOMAIN w
      /\ \A i \in DOMAIN w : v[i] = w[i] /\ i < Len(w) + 1
      /\ v[Len(w) + 1] = r
      /\ DOMAIN w \subseteq Int /\ Len(w) + 1 \in Int
  BY <1>1, OneMore, LenProperties
<1>3. InOrder(v)
  BY <1>2 DEF InOrder
<1>4. Waits(v)
  BY <1>2 DEF Waits
<1>5. \A k : Has(v, k) <=> Has(w, k) \/ r.kind = k
  BY <1>2 DEF Has
<1> QED BY <1>1, <1>3, <1>4, <1>5

(* An enrollment is asked for on its page. *)
LEMMA EnrollsMore ==
    ASSUME NEW w \in Seq(Exchange), NEW p, Enrolls(w, p), NEW r \in Exchange,
           r.kind = "enroll" => p \in Steps
    PROVE  Enrolls(Append(w, r), p)
<1>1. PICK v : v = Append(w, r)
  OBVIOUS
<1>2. /\ DOMAIN v = DOMAIN w \cup {Len(w) + 1} /\ Len(w) + 1 \notin DOMAIN w
      /\ \A i \in DOMAIN w : v[i] = w[i] /\ i < Len(w) + 1
      /\ v[Len(w) + 1] = r
      /\ DOMAIN w \subseteq Int /\ Len(w) + 1 \in Int
  BY <1>1, OneMore, LenProperties
<1>3. Enrolls(v, p)
  BY <1>2 DEF Enrolls
<1> QED BY <1>1, <1>3

(* The same kinds in the same places, the answers at most for the oldest. *)
LEMMA TidyAlike ==
    ASSUME NEW w, NEW v, DOMAIN v = DOMAIN w, \A i \in DOMAIN w : v[i].kind = w[i].kind
    PROVE  /\ InOrder(w) => InOrder(v)
           /\ \A p : Enrolls(w, p) => Enrolls(v, p)
           /\ \A p : OnStep(w, p) => OnStep(v, p)
           /\ \A m, p : Vacant(w, m, p) => Vacant(v, m, p)
           /\ \A m, p, s : Codes(w, m, p, s) => Codes(v, m, p, s)
           /\ \A k : Has(v, k) <=> Has(w, k)
<1>1. \A k : Has(v, k) <=> Has(w, k)
  BY DEF Has
<1> QED BY <1>1 DEF InOrder, Enrolls, OnStep, Vacant, Codes, HasCode

(* The oldest request gone: the rest waits, in order, and may follow it. *)
LEMMA HeadGone ==
    ASSUME NEW w \in Seq(Exchange), 1 \in DOMAIN w, Waits(w), InOrder(w)
    PROVE  LET u == RemoveAt(w, 1) IN
           /\ u \in Seq(Exchange) /\ InOrder(u)
           /\ \A j \in DOMAIN u : u[j].ans = "waiting" /\ May(w[1].kind, u[j].kind)
           /\ \A j \in DOMAIN u : \E k \in DOMAIN w : u[j] = w[k] /\ k # 1
           /\ \A p : Enrolls(w, p) => Enrolls(u, p)
           /\ \A k : Has(u, k) => Has(w, k)
           /\ \A k : Has(w, k) /\ w[1].kind # k => Has(u, k)
           /\ DOMAIN w = {1} => DOMAIN u = {}
<1>1. PICK u : u = RemoveAt(w, 1)
  OBVIOUS
<1>2. /\ u \in Seq(Exchange) /\ DOMAIN u = 1..(Len(w) - 1)
      /\ DOMAIN w = 1..Len(w) /\ Len(w) \in Nat
      /\ \A j \in DOMAIN u : u[j] = w[j + 1] /\ j + 1 \in DOMAIN w /\ j + 1 > 1
  BY <1>1, OneLess, HeadOut, LenProperties
<1>3. InOrder(u)
  BY <1>2 DEF InOrder
<1>4. \A j \in DOMAIN u : u[j].ans = "waiting" /\ May(w[1].kind, u[j].kind)
  BY <1>2 DEF Waits, InOrder
<1>5. \A p : Enrolls(w, p) => Enrolls(u, p)
  BY <1>2 DEF Enrolls
<1>6. \A k : Has(u, k) => Has(w, k)
  BY <1>2 DEF Has
<1>7. \A k : Has(w, k) /\ w[1].kind # k => Has(u, k)
  <2> SUFFICES ASSUME NEW k, NEW i \in DOMAIN w, w[i].kind = k, w[1].kind # k PROVE Has(u, k)
    BY DEF Has
  <2>1. i # 1
    OBVIOUS
  <2>2. \E j \in DOMAIN u : u[j] = w[i]
    BY <1>1, <2>1, OneLessKeeps
  <2> QED BY <2>2 DEF Has
<1>8. DOMAIN w = {1} => DOMAIN u = {}
  <2> SUFFICES ASSUME DOMAIN w = {1}, NEW j \in DOMAIN u PROVE FALSE
    OBVIOUS
  <2> QED BY <1>2
<1>9. \A j \in DOMAIN u : \E k \in DOMAIN w : u[j] = w[k] /\ k # 1
  BY <1>2
<1> QED BY <1>1, <1>2, <1>3, <1>4, <1>5, <1>6, <1>7, <1>8, <1>9

(* One request more that waits for its answer, and may come after the others. *)
LEMMA TidyMore ==
    ASSUME NEW w \in Seq(Exchange), NEW m, NEW p, NEW s, NEW l, Tidy(w, m, p, s, l),
           NEW r \in Exchange, r.ans = "waiting", r.live,
           \A i \in DOMAIN w : May(w[i].kind, r.kind),
           r.kind = "me" => l # "out",
           r.kind = "enroll" => p \in Steps,
           r.kind \in Code => p \in Steps /\ s = p,
           p \in Steps => r.kind \in {"enroll", "logout", "me"} \cup Code,
           r.kind = "login" => m = "anon" /\ p = "login" /\ s = "login",
           r.kind = "setup" => DOMAIN w = {} /\ m = "setup" /\ p = "setup" /\ s = "setup",
           ~Has(w, "setup"),
           m = "setup" /\ p \notin Steps /\ ~inited => r.kind = "setup"
    PROVE  Tidy(Append(w, r), m, p, s, l)
<1>1. PICK v : v = Append(w, r)
  OBVIOUS
<1>2. /\ DOMAIN v = DOMAIN w \cup {Len(w) + 1} /\ Len(w) + 1 \notin DOMAIN w
      /\ \A i \in DOMAIN w : v[i] = w[i] /\ i < Len(w) + 1
      /\ v[Len(w) + 1] = r
  BY <1>1, OneMore
<1>3. InOrder(v) /\ Waits(v) /\ \A k : Has(v, k) <=> Has(w, k) \/ r.kind = k
  BY <1>1, InOrderMore DEF Tidy
<1>4. Enrolls(v, p)
  BY <1>1, EnrollsMore DEF Tidy
<1>5. Codes(v, m, p, s)
  <2>1. HasCode(v) => HasCode(w) \/ r.kind \in Code
    BY <1>3 DEF HasCode, Code
  <2> QED BY <1>3, <2>1 DEF Codes, Tidy
<1>6. OnStep(v, p)
  BY <1>2 DEF OnStep, Tidy
<1>7. Logins(v, m, p, s)
  <2>1. Logins(w, m, p, s) /\ (Has(w, "me") => Has(v, "me")) /\ (Has(v, "login") => Has(w, "login") \/ r.kind = "login")
    BY <1>3 DEF Tidy
  <2>2. \A i \in DOMAIN v : v[i].kind = "login" => (Has(w, "login") /\ i \in DOMAIN w /\ v[i] = w[i]) \/ v[i].live
    BY <1>2 DEF Has
  <2> QED BY <2>1, <2>2 DEF Logins
<1>8. Setups(v, m, p, s)
  <2> SUFFICES ASSUME Has(v, "setup") PROVE Setups(v, m, p, s)
    BY DEF Setups
  <2>1. r.kind = "setup"
    BY <1>3
  <2>2. Len(w) = 0
    BY <2>1, LenProperties
  <2> QED BY <1>2, <2>1, <2>2 DEF Setups
<1>9. Vacant(v, m, p)
  BY <1>2 DEF Vacant, Tidy
<1>10. m = "none" => 1 \in DOMAIN v /\ v[1].kind = "me"
  BY <1>2 DEF Tidy
<1>11. l = "out" => m # "user" /\ ~Has(v, "me")
  BY <1>3 DEF Tidy
<1> QED BY <1>1, <1>3, <1>4, <1>5, <1>6, <1>7, <1>8, <1>9, <1>10, <1>11 DEF Tidy

(* The same requests, the answers at most for the oldest. *)
LEMMA TidySame ==
    ASSUME NEW w, NEW v, DOMAIN v = DOMAIN w, Waits(v),
           \A i \in DOMAIN w : v[i].kind = w[i].kind /\ v[i].live = w[i].live,
           NEW m, NEW p, NEW s, NEW l, Tidy(w, m, p, s, l)
    PROVE  Tidy(v, m, p, s, l)
<1>1. /\ InOrder(v) /\ Enrolls(v, p) /\ OnStep(v, p) /\ Vacant(v, m, p) /\ Codes(v, m, p, s)
      /\ \A k : Has(v, k) <=> Has(w, k)
  BY TidyAlike DEF Tidy
<1>2. Logins(v, m, p, s)
  BY <1>1 DEF Tidy, Logins
<1>3. Setups(v, m, p, s)
  BY <1>1 DEF Tidy, Setups
<1> QED BY <1>1, <1>2, <1>3 DEF Tidy

(* What is left when the oldest, not for ["me"], is over. *)
LEMMA TidyLess ==
    ASSUME NEW w \in Seq(Exchange), 1 \in DOMAIN w, w[1].kind # "me",
           NEW m, NEW p, NEW s, NEW l, Tidy(w, m, p, s, l)
    PROVE  /\ Tidy(RemoveAt(w, 1), m, p, s, l)
           /\ \A q : Enrolls(RemoveAt(w, 1), q)
           /\ ~Has(RemoveAt(w, 1), "setup")
           /\ Has(w, "me") <=> Has(RemoveAt(w, 1), "me")
           /\ m # "none"
<1>1. PICK u : u = RemoveAt(w, 1)
  OBVIOUS
<1>2. /\ u \in Seq(Exchange) /\ InOrder(u)
      /\ \A j \in DOMAIN u : u[j].ans = "waiting" /\ May(w[1].kind, u[j].kind)
      /\ \A j \in DOMAIN u : \E k \in DOMAIN w : u[j] = w[k] /\ k # 1
      /\ \A q : Enrolls(w, q) => Enrolls(u, q)
      /\ \A k : Has(u, k) => Has(w, k)
      /\ \A k : Has(w, k) /\ w[1].kind # k => Has(u, k)
      /\ DOMAIN w = {1} => DOMAIN u = {}
  BY <1>1, HeadGone DEF Tidy
<1>3. Waits(u)
  BY <1>2 DEF Waits
<1>4. \A q : Enrolls(u, q)
  <2> SUFFICES ASSUME NEW i \in DOMAIN u, NEW j \in DOMAIN u, u[i].kind = "me", u[j].kind = "enroll", i < j
               PROVE FALSE
    BY DEF Enrolls
  <2>1. p \in Steps
    BY <1>2 DEF Enrolls, Tidy
  <2>2. w[1].kind \in {"enroll", "logout", "me"} \cup Code
    BY <2>1 DEF OnStep, Tidy
  <2>3. May(w[1].kind, "me") /\ May(w[1].kind, "enroll")
    BY <1>2
  <2> QED BY <2>2, <2>3 DEF May, Code
<1>5. Has(w, "me") <=> Has(u, "me")
  BY <1>2
<1>6. ~Has(u, "setup")
  <2>1. Has(u, "setup") => DOMAIN u = {}
    BY <1>2 DEF Setups, Tidy
  <2> QED BY <2>1 DEF Has
<1>7. Codes(u, m, p, s)
  BY <1>2, <1>5 DEF Codes, HasCode, Tidy
<1>8. OnStep(u, p)
  BY <1>2 DEF OnStep, Tidy
<1>9. Logins(u, m, p, s)
  BY <1>2, <1>5 DEF Logins, Tidy
<1>10. Vacant(u, m, p)
  BY <1>2 DEF Vacant, Tidy
<1>11. m # "none" /\ (l = "out" => m # "user" /\ ~Has(u, "me"))
  BY <1>5 DEF Tidy
<1> QED BY <1>1, <1>2, <1>3, <1>4, <1>5, <1>6, <1>7, <1>8, <1>9, <1>10, <1>11 DEF Tidy, Setups

(* The steps keep the queue tidy; an account, once there, stays.             *)
LEMMA OrderlyServe ==
    ASSUME Base, Orderly, NEW i \in DOMAIN wire, Serve(i), "late" \notin seen'
    PROVE  Tidy(wire', me', route', shown', last')
<1>1. TypeOK /\ Turn(i)
  BY DEF Base, Serve
<1>2. i = 1
  BY <1>1, InTurn
<1>3. /\ DOMAIN wire' = DOMAIN wire
      /\ \A j \in DOMAIN wire : /\ wire'[j].kind = wire[j].kind /\ wire'[j].live = wire[j].live
                                /\ j # i => wire'[j].ans = wire[j].ans
  BY <1>1, Served
<1>4. Waits(wire')
  <2>1. Waits(wire) /\ DOMAIN wire \subseteq Int
    BY <1>1, LenProperties DEF Orderly, Tidy, TypeOK
  <2>2. ASSUME NEW j \in DOMAIN wire', j > 1 PROVE wire'[j].ans = "waiting"
    BY <1>2, <1>3, <2>1, <2>2 DEF Waits
  <2> QED BY <2>2 DEF Waits
<1>5. UNCHANGED <<me, route, shown, last>>
  BY DEF Serve
<1> QED BY <1>3, <1>4, <1>5, TidySame DEF Orderly

(* The redirects lead off the pages of the second factor. *)
LEMMA OffSteps ==
    ASSUME TypeOK, Leads(route) # route
    PROVE  route \notin Steps /\ Leads(route) \notin Steps
<1>0. route \in Route /\ me \in {"none", "setup", "anon", "user"}
  BY DEF TypeOK
<1>1. route \notin Steps
  BY Led
<1>2. route \in {"setup", "login", "sites", "me", "users"}
  BY <1>0, <1>1 DEF Route, Public, Protected, Steps
<1>3. Leads(route) \in {"sites", "me", "users", "setup", "login", "wait"}
  BY <1>0, <1>1, <1>2, Led
<1> QED BY <1>1, <1>3 DEF Steps

(* A guard leads elsewhere: no form of the page is under way. *)
LEMMA OrderlyRedirect ==
    ASSUME Base, Orderly, Redirect
    PROVE  Tidy(wire', me', route', shown', last')
<1>0. /\ TypeOK /\ wire \in Seq(Exchange) /\ route \in Route /\ me \in {"none", "setup", "anon", "user"}
  BY DEF Base, TypeOK
<1>1. /\ wire' = Orphaned(wire) /\ shown' = "blank" /\ UNCHANGED <<me, last>>
      /\ route' = route \/ (route' = Leads(route) /\ Leads(route) # route)
  BY DEF Redirect
<1>2. /\ DOMAIN wire' = DOMAIN wire
      /\ \A i \in DOMAIN wire : wire'[i].kind = wire[i].kind /\ wire'[i].ans = wire[i].ans
  BY <1>0, <1>1, OrphanedWire
<1>3. Leads(route) # route
  BY DEF Redirect
<1>4. route \notin Steps /\ route' \notin Steps
  BY <1>0, <1>1, <1>3, OffSteps
<1>5. /\ InOrder(wire') /\ Codes(wire', me, route, shown) /\ Vacant(wire', me, route)
      /\ Enrolls(wire', route)
      /\ \A k : Has(wire', k) <=> Has(wire, k)
  BY <1>2, TidyAlike DEF Orderly, Tidy
<1>6. Waits(wire')
  BY <1>2 DEF Waits, Orderly, Tidy
<1>7. Enrolls(wire', route') /\ Codes(wire', me, route', "blank") /\ OnStep(wire', route')
  BY <1>4, <1>5 DEF Enrolls, Codes, OnStep
<1>8. ~Has(wire, "setup")
  <2> SUFFICES ASSUME Has(wire, "setup") PROVE FALSE
    OBVIOUS
  <2>1. me = "setup" /\ route = "setup"
    BY DEF Orderly, Tidy, Setups
  <2>2. Leads(route) = "setup"
    BY <1>0, <1>4, <2>1, Led
  <2> QED BY <1>3, <2>1, <2>2
<1>9. Logins(wire', me, route', "blank")
  <2> SUFFICES ASSUME Has(wire, "login"), ~Has(wire, "me") PROVE FALSE
    BY <1>5 DEF Logins, Orderly, Tidy
  <2>1. me \notin {"user", "setup"} /\ route = "login"
    BY DEF Logins, Orderly, Tidy
  <2>2. me # "none"
    BY DEF Orderly, Tidy, Has
  <2>3. Leads(route) = "login"
    BY <1>0, <1>4, <2>1, <2>2, Led
  <2> QED BY <1>3, <2>1, <2>3
<1>10. Vacant(wire', me, route')
  BY <1>4, <1>5 DEF Vacant
<1>11. /\ me = "none" => 1 \in DOMAIN wire' /\ wire'[1].kind = "me"
       /\ last = "out" => me # "user" /\ ~Has(wire', "me")
  BY <1>2, <1>5 DEF Orderly, Tidy
<1> QED BY <1>1, <1>5, <1>6, <1>7, <1>8, <1>9, <1>10, <1>11 DEF Tidy, Setups

(* The menu is there for a cached user only, who has nothing else under way. *)
LEMMA SignedOnly ==
    ASSUME Base, Orderly, Leads(route) = route, route \in Protected, ~Has(wire, "me")
    PROVE  /\ me = "user" /\ route \notin Steps /\ last # "out"
           /\ ~Has(wire, "login") /\ ~Has(wire, "setup") /\ ~HasCode(wire)
<1>1. me = "user" /\ route \notin Steps
  BY Mountable DEF Base, Protected, Steps
<1>2. ~HasCode(wire)
  BY <1>1 DEF Orderly, Tidy, Codes
<1>3. ~Has(wire, "login") /\ ~Has(wire, "setup")
  BY <1>1 DEF Orderly, Tidy, Logins, Setups
<1> QED BY <1>1, <1>2, <1>3 DEF Orderly, Tidy

(* The dialog and the menu. *)
LEMMA OrderlyQuiet ==
    ASSUME Base, Orderly, Quiet, "hasty" \notin seen'
    PROVE  Tidy(wire', me', route', shown', last')
<1>0. TypeOK
  BY DEF Base
<1>1. wire' = wire /\ UNCHANGED <<me, shown, last>>
  BY DEF Quiet, OpenRebind, CloseRebind, Navigate, OtherTab, page
<1>2. CASE route' = route
  BY <1>1, <1>2 DEF Orderly
<1>3. CASE route' # route
  <2>1. PICK r \in Route : Navigate(r)
    BY <1>3 DEF Quiet, OpenRebind, CloseRebind, OtherTab, page
  <2>2. /\ shown \in Protected /\ r \in Protected /\ Acts("login") /\ route' = r
    BY <2>1 DEF Navigate
  <2>3. ~Has(wire, "me") /\ Rendered
    BY <2>2, AskedFor DEF Acts, Happens
  <2>4. Leads(route) = route /\ shown = route
    BY <1>0, <2>2, <2>3, Acting DEF Protected
  <2>5. /\ me = "user" /\ last # "out"
        /\ ~Has(wire, "login") /\ ~Has(wire, "setup") /\ ~HasCode(wire)
    BY <2>2, <2>3, <2>4, SignedOnly
  <2>6. r \notin Steps
    BY <2>2 DEF Protected, Steps
  <2>7. Enrolls(wire, r)
    BY <2>3 DEF Enrolls, Has
  <2>8. Tidy(wire, "user", r, shown, last)
    BY <2>3, <2>5, <2>6, <2>7 DEF Tidy, Orderly, Codes, OnStep, Logins, Setups, Vacant
  <2> QED BY <1>1, <2>2, <2>5, <2>8
<1> QED BY <1>2, <1>3

(* A page is mounted, and asks for what it shows. *)
LEMMA OrderlyMount ==
    ASSUME Base, Orderly, Mount
    PROVE  Tidy(wire', me', route', shown', last')
<1>0. /\ TypeOK /\ wire \in Seq(Exchange) /\ route \in Route /\ me \in {"none", "setup", "anon", "user"}
  BY DEF Base, TypeOK
<1>1. /\ Leads(route) = route /\ shown # route /\ shown' = route
      /\ UNCHANGED <<me, route, last>>
  BY DEF Mount
<1>2. PICK v : v = Orphaned(wire)
  OBVIOUS
<1>3. /\ v \in Seq(Exchange) /\ DOMAIN v = DOMAIN wire
      /\ \A i \in DOMAIN wire : v[i].kind = wire[i].kind /\ v[i].ans = wire[i].ans
  BY <1>0, <1>2, OrphanedWire
<1>4. /\ InOrder(v) /\ Enrolls(v, route) /\ OnStep(v, route) /\ Vacant(v, me, route)
      /\ Codes(v, me, route, shown)
      /\ \A k : Has(v, k) <=> Has(wire, k)
  BY <1>3, TidyAlike DEF Orderly, Tidy
<1>5. Waits(v)
  BY <1>3 DEF Waits, Orderly, Tidy
<1>6. ~Has(wire, "setup")
  BY <1>1 DEF Orderly, Tidy, Setups
<1>7. HasCode(v) => route \notin Steps
  BY <1>1, <1>4 DEF Codes
<1>8. ASSUME Has(wire, "login")
      PROVE  me = "anon" /\ route = "login" /\ Has(wire, "me")
  <2>1. Has(wire, "me")
    BY <1>1, <1>8 DEF Orderly, Tidy, Logins
  <2>2. route \notin Steps
    BY <1>8 DEF Orderly, Tidy, OnStep, Has, Code
  <2>3. me # "none"
    <3>1. InFlight("me")
      BY <2>1, AskedFor
    <3>2. me = "none" => route = "wait"
      BY <1>0, <1>1, <2>2, <3>1, Led
    <3> QED BY <1>0, <3>2 DEF Route, Public, Protected
  <2>4. me = "anon"
    BY <1>0, <1>8, <2>3 DEF Orderly, Tidy, Logins
  <2>5. route = "login"
    BY <1>0, <1>1, <2>2, <2>4, Led
  <2> QED BY <2>1, <2>4, <2>5
<1>9. Tidy(v, me, route, route, last)
  <2>1. Codes(v, me, route, route)
    BY <1>4 DEF Codes
  <2>2. Logins(v, me, route, route)
    BY <1>4, <1>8 DEF Logins
  <2>3. /\ me = "none" => 1 \in DOMAIN v /\ v[1].kind = "me"
        /\ last = "out" => me # "user" /\ ~Has(v, "me")
    BY <1>3, <1>4 DEF Orderly, Tidy
  <2> QED BY <1>4, <1>5, <1>6, <2>1, <2>2, <2>3 DEF Tidy, Setups
<1>10. CASE wire' = v
  BY <1>1, <1>9, <1>10
<1>11. ASSUME NEW r, Opens(r), wire' = Append(v, r)
       PROVE  Tidy(wire', me, route, route, last)
  <2>1. /\ r \in Exchange /\ r.ans = "waiting" /\ r.live
        /\ \/ r.kind = "enroll" /\ route = "enroll"
           \/ r.kind = "load" /\ route \in {"sites", "users"}
    BY <1>11 DEF Opens
  <2>2. CASE r.kind = "enroll" /\ route = "enroll"
    <3>1. route \in Steps
      BY <2>2 DEF Steps
    <3>2. \A i \in DOMAIN v : v[i].kind \notin Code /\ v[i].kind # "login" /\ v[i].kind # "setup"
      BY <1>4, <1>6, <1>7, <1>8, <2>2, <3>1 DEF HasCode, Has, Code
    <3>3. \A i \in DOMAIN v : May(v[i].kind, "enroll")
      BY <3>2 DEF May, Code
    <3>4. r.kind \notin Code
      BY <2>2 DEF Code
    <3> QED BY <1>3, <1>4, <1>6, <1>9, <1>11, <2>1, <2>2, <3>1, <3>3, <3>4, TidyMore
  <2>3. CASE r.kind = "load" /\ route \in {"sites", "users"}
    <3>1. me = "user" /\ route \notin Steps
      BY <1>0, <1>1, <2>3, Mountable DEF Steps, Protected
    <3>2. ~Has(v, "login")
      BY <1>4, <1>8, <3>1
    <3>3. \A i \in DOMAIN v : May(v[i].kind, "load")
      BY <3>2 DEF May, Code, Has
    <3>4. r.kind \notin Code
      BY <2>3 DEF Code
    <3> QED BY <1>3, <1>4, <1>6, <1>9, <1>11, <2>1, <2>3, <3>1, <3>3, <3>4, TidyMore
  <2> QED BY <2>1, <2>2, <2>3
<1> QED BY <1>0, <1>1, <1>2, <1>10, <1>11, Mounting

(* The user, who has waited for ["me"], sends a request. *)
LEMMA OrderlySend ==
    ASSUME Base, Fresh, Orderly, NEW r, Sends(r), "hasty" \notin seen'
    PROVE  Tidy(wire', me', route', shown', last')
<1>0. /\ TypeOK /\ wire \in Seq(Exchange) /\ route \in Route /\ me \in {"none", "setup", "anon", "user"}
      /\ FreshPage
  BY DEF Base, TypeOK, Fresh
<1>1. /\ r \in Exchange /\ r.ans = "waiting" /\ r.live /\ r.kind \notin {"me", "enroll"}
      /\ wire' = Append(wire, r) /\ Rendered /\ ~InFlight("me")
      /\ UNCHANGED <<me, route, shown, last>>
  BY DEF Sends, page
<1>2. ~Has(wire, "me") /\ me # "none"
  <2>1. ~Has(wire, "me")
    BY <1>1, AskedFor
  <2> QED BY <2>1 DEF Orderly, Tidy, Has
<1>3. /\ r.kind \in Kind
      /\ r.kind \in {"init", "confirm"} => shown = "me"
  <2>1. r.kind \in Kind
    BY <1>1, Fields
  <2> QED BY <1>0, <2>1 DEF Sends, FreshPage
<1>4. shown # "blank"
  <2>1. /\ r.kind = "login" => shown = "login"
        /\ r.kind = "setup" => shown = "setup"
        /\ r.kind = "activate" => shown = "enroll"
        /\ r.kind = "verify" => shown = "verify"
        /\ r.kind = "passwd" => shown = "me"
        /\ r.kind \in {"logout", "load"} => shown \in Protected
    BY DEF Sends
  <2>2. "blank" \notin Protected
    BY DEF Protected
  <2> QED BY <1>1, <1>3, <2>1, <2>2 DEF Kind
<1>5. Leads(route) = route /\ shown = route
  BY <1>0, <1>1, <1>4, Acting
<1>6. Tidy(wire, me, route, route, last)
  BY <1>5 DEF Orderly
<1>7. CASE r.kind = "login"
  <2>1. route = "login" /\ ~InFlight("login")
    BY <1>5, <1>7 DEF Sends
  <2>2. me = "anon"
    BY <1>0, <1>2, <1>5, <2>1, Mountable
  <2>3. ~Has(wire, "login")
    BY <1>2, <2>1 DEF Orderly, Tidy, Logins, Has, InFlight
  <2>4. ~Has(wire, "setup") /\ route \notin Steps
    BY <2>1, <2>2 DEF Orderly, Tidy, Setups, Steps
  <2>5. \A i \in DOMAIN wire : May(wire[i].kind, "login")
    BY <1>2, <2>3 DEF May, Has, Code
  <2> QED BY <1>0, <1>1, <1>5, <1>6, <1>7, <2>1, <2>2, <2>4, <2>5, TidyMore DEF Code
<1>8. CASE r.kind = "setup"
  <2>1. route = "setup" /\ ~InFlight("setup")
    BY <1>5, <1>8 DEF Sends
  <2>2. me = "setup" /\ route \notin Steps
    BY <1>0, <1>5, <2>1, Mountable DEF Steps
  <2>3. ~Has(wire, "setup")
    BY <2>1 DEF Orderly, Tidy, Setups, Has, InFlight
  <2>4. ~inited
    <3>1. inited => Leaves(wire, route)
      BY <2>2 DEF Fresh
    <3> QED BY <1>2, <2>2, <2>3, <3>1 DEF Leaves, Has
  <2>5. DOMAIN wire = {}
    BY <2>2, <2>3, <2>4 DEF Orderly, Tidy, Vacant, Has
  <2> QED BY <1>0, <1>1, <1>5, <1>6, <1>8, <2>1, <2>2, <2>3, <2>5, TidyMore DEF Code
<1>9. CASE r.kind \in Code
  <2>1. shown \in Steps
    BY <1>9 DEF Sends, Code, Steps
  <2>2. \A i \in DOMAIN wire : wire[i].kind \in {"enroll", "logout"} \cup Code
    BY <1>2, <1>5, <2>1 DEF Orderly, Tidy, OnStep, Has
  <2>3. \A i \in DOMAIN wire : May(wire[i].kind, r.kind)
    BY <1>9, <2>2 DEF May, Code
  <2>4. ~Has(wire, "setup")
    BY <2>2 DEF Has, Code
  <2>5. r.kind \notin {"me", "enroll", "login", "setup"}
    BY <1>9 DEF Code
  <2> QED BY <1>0, <1>1, <1>5, <1>6, <1>9, <2>1, <2>3, <2>4, <2>5, TidyMore
<1>10. CASE r.kind \in {"init", "confirm", "passwd", "logout", "load"}
  <2>1. shown \in Protected
    BY <1>3, <1>10 DEF Sends, Protected
  <2>2. /\ me = "user" /\ route \notin Steps
        /\ ~Has(wire, "login") /\ ~Has(wire, "setup") /\ ~HasCode(wire)
    BY <1>2, <1>5, <2>1, SignedOnly
  <2>3. \A i \in DOMAIN wire : wire[i].kind \notin {"me", "login"} \cup Code
    BY <1>2, <2>2 DEF HasCode, Has, Code
  <2>4. \A i \in DOMAIN wire : May(wire[i].kind, r.kind)
    BY <1>10, <2>3 DEF May, Code
  <2>5. r.kind \notin Code
    BY <1>10 DEF Code
  <2> QED BY <1>0, <1>1, <1>5, <1>6, <1>10, <2>2, <2>4, <2>5, TidyMore
<1> QED BY <1>1, <1>3, <1>7, <1>8, <1>9, <1>10 DEF Kind, Code

(* The answers that send the page on, nobody or the same user being cached. *)
LEMMA OrderlyDeliver ==
    ASSUME Base, Fresh, Orderly, NEW i \in DOMAIN wire, Deliver(i), "late" \notin seen'
    PROVE  Tidy(wire', me', route', shown', last')
<1>0. /\ TypeOK /\ wire \in Seq(Exchange) /\ me \in {"none", "setup", "anon", "user"}
      /\ cookie \in Token /\ Tidy(wire, me, route, shown, last)
      /\ FreshQueue(wire, me, shown)
  BY DEF Base, TypeOK, Fresh, Orderly
<1>1. i = 1 /\ 1 \in DOMAIN wire
  BY <1>0, InTurn, Delivered
<1>2. PICK r : r = wire[1]
  OBVIOUS
<1>3. PICK u : u = Others(1)
  OBVIOUS
<1>4. /\ u \in Seq(Exchange) /\ InOrder(u) /\ Enrolls(u, route)
      /\ \A j \in DOMAIN u : u[j].ans = "waiting" /\ May(r.kind, u[j].kind)
      /\ \A j \in DOMAIN u : \E k \in DOMAIN wire : u[j] = wire[k] /\ k # 1
      /\ \A k : Has(u, k) => Has(wire, k)
      /\ DOMAIN wire = {1} => DOMAIN u = {}
  BY <1>0, <1>1, <1>2, <1>3, HeadGone DEF Others, Tidy
<1>5. Waits(u)
  BY <1>4 DEF Waits
<1>6. ASSUME r.kind # "me"
      PROVE  /\ Tidy(u, me, route, shown, last) /\ \A q : Enrolls(u, q)
             /\ ~Has(u, "setup") /\ me # "none"
             /\ Has(wire, "me") <=> Has(u, "me")
  BY <1>0, <1>1, <1>2, <1>3, <1>6, TidyLess DEF Others
<1>7. /\ r.kind \in Signed => inited /\ me # "setup"
      /\ r.kind \in Code /\ r.ans = "ok" => inited
      /\ r.ans # "lost"
  BY <1>0, <1>1, <1>2 DEF FreshQueue, FreshRequest
<1>8. shown' = shown
  BY Delivered
<1>9. CASE r.kind = "me" /\ r.ans \in {"setup", "anon", "user"} /\ me' = r.ans /\ wire' = u
           /\ UNCHANGED <<route, last>>
  <2>1. \A j \in DOMAIN u : u[j].kind \in {"enroll", "load"}
    BY <1>4, <1>9 DEF May
  <2>2. OnStep(u, route)
    BY <1>0, <1>4 DEF OnStep, Tidy
  <2>3. Vacant(u, me', route)
    <3> SUFFICES ASSUME route \notin Steps, ~inited, NEW j \in DOMAIN u PROVE FALSE
      BY DEF Vacant
    <3>1. u[j].kind # "load"
      BY <1>0, <1>4 DEF FreshQueue, FreshRequest, Signed
    <3>2. PICK k \in DOMAIN wire : u[j] = wire[k] /\ k # 1
      BY <1>4
    <3>3. 1 < k
      BY <1>0, <3>2, LenProperties
    <3>4. wire[k].kind # "enroll"
      BY <1>0, <1>1, <1>2, <1>9, <3>3 DEF Enrolls, Tidy
    <3> QED BY <2>1, <3>1, <3>2, <3>4
  <2>4. last # "out"
    BY <1>0, <1>1, <1>2, <1>9 DEF Tidy, Has
  <2>5. ~Has(u, "me") /\ ~Has(u, "login") /\ ~Has(u, "setup") /\ ~HasCode(u)
    BY <2>1 DEF Has, HasCode
  <2> QED BY <1>4, <1>5, <1>8, <1>9, <2>2, <2>3, <2>4, <2>5 DEF Tidy, Codes, Logins, Setups
<1>10. CASE r.kind # "me" /\ wire' = u /\ me' = "anon" /\ route' = "login"
            /\ (last' = "out" => r.kind = "logout")
  <2>1. "login" \notin Steps
    BY DEF Steps
  <2>2. Logins(u, "anon", "login", shown)
    BY <1>6, <1>10 DEF Logins, Tidy
  <2>3. last' = "out" => ~Has(u, "me")
    BY <1>4, <1>10 DEF May, Code, Has
  <2> QED BY <1>4, <1>5, <1>6, <1>8, <1>10, <2>1, <2>2, <2>3
          DEF Tidy, Codes, OnStep, Setups, Vacant
<1>11. CASE r.kind \in {"load", "init", "confirm", "passwd"} /\ wire' = u
            /\ route' = "login" /\ last' = "none" /\ UNCHANGED me
  <2>1. "login" \notin Steps /\ me # "setup" /\ ~HasCode(u)
    BY <1>4, <1>7, <1>11 DEF Steps, Signed, HasCode, Has, May, Code
  <2>2. Logins(u, me, "login", shown)
    BY <1>6, <1>11 DEF Logins, Tidy
  <2> QED BY <1>4, <1>5, <1>6, <1>8, <1>11, <2>1, <2>2 DEF Tidy, Codes, OnStep, Setups, Vacant
<1>12. CASE r.kind = "login" /\ wire' = u /\ route' \in {"setup", "enroll", "verify"}
            /\ UNCHANGED <<me, last>>
  <2>1. \A j \in DOMAIN u : u[j].kind \in {"me", "logout"}
    BY <1>4, <1>12 DEF May
  <2>2. ~Has(u, "login") /\ ~HasCode(u) /\ OnStep(u, route')
    BY <2>1 DEF Has, HasCode, OnStep
  <2>3. me # "setup"
    BY <1>0, <1>1, <1>2, <1>12 DEF Tidy, Logins, Has
  <2> QED BY <1>4, <1>5, <1>6, <1>8, <1>12, <2>2, <2>3 DEF Tidy, Codes, Logins, Setups, Vacant
<1>13. CASE r.kind = "setup" /\ wire' = u /\ route' = "enroll" /\ UNCHANGED <<me, last>>
  <2>1. DOMAIN u = {}
    BY <1>0, <1>1, <1>2, <1>4, <1>13 DEF Tidy, Setups, Has
  <2> QED BY <1>4, <1>5, <1>6, <1>8, <1>13, <2>1
          DEF Tidy, Codes, Logins, Setups, Vacant, OnStep, HasCode, Has, Steps
<1>14. CASE r.kind # "me" /\ wire' = u /\ UNCHANGED <<me, route, last>>
  BY <1>6, <1>8, <1>14
<1>15. CASE r.kind \in Code /\ r.ans = "ok" /\ wire' = Asked(u, Stored(r)) /\ route' = "sites"
            /\ last' = "in" /\ UNCHANGED me
  <2>1. OneAsk(u) /\ Stored(r) \in Token
    BY <1>0, <1>1, <1>2, <1>3, OthersFit, Delivered
  <2>2. PICK c : c = Cancelled(u)
    OBVIOUS
  <2>3. /\ c \in Seq(Exchange) /\ Within(c, u) /\ \A j \in DOMAIN c : c[j].kind # "me"
        /\ \A k \in DOMAIN u : u[k].kind # "me" => \E j \in 1..Len(c) : c[j] = u[k]
    BY <1>4, <2>1, <2>2, CancelledWire
  <2>4. PICK a : a = Ask(Stored(r))
    OBVIOUS
  <2>5. a \in Exchange /\ a.kind = "me" /\ a.ans = "waiting"
    BY <1>0, <2>1, <2>4, Asks
  <2>6. r.kind # "me"
    BY <1>15 DEF Code
  <2>7. wire' = Append(c, a)
    BY <1>6, <1>15, <2>2, <2>4, <2>6 DEF Asked
  <2>8. PICK f \in [1..Len(c) -> DOMAIN u] : /\ \A j \in 1..Len(c) : c[j] = u[f[j]]
                                             /\ \A j, k \in 1..Len(c) : j < k => f[j] < f[k]
    BY <2>3 DEF Within
  <2>9. \A j \in DOMAIN c : j \in 1..Len(c) /\ f[j] \in DOMAIN u /\ c[j] = u[f[j]]
    BY <2>3, <2>8, LenProperties
  <2>10. InOrder(c) /\ Waits(c)
    BY <1>4, <2>8, <2>9 DEF InOrder, Waits
  <2>11. \A j \in DOMAIN c : c[j].kind \in Code \cup {"login", "load"}
    BY <1>4, <1>15, <2>3, <2>9 DEF May, Code
  <2>12. \A j \in DOMAIN c : May(c[j].kind, "me")
    BY <2>11 DEF May, Code
  <2>13. /\ InOrder(wire') /\ Waits(wire')
         /\ \A k : Has(wire', k) <=> Has(c, k) \/ a.kind = k
    BY <2>3, <2>5, <2>7, <2>10, <2>12, InOrderMore
  <2>14. "sites" \notin Steps /\ inited
    BY <1>7, <1>15 DEF Steps
  <2>15. Enrolls(wire', "sites")
    <3>1. ~Has(wire', "enroll")
      BY <2>5, <2>11, <2>13 DEF Has, Code
    <3> QED BY <3>1 DEF Enrolls, Has
  <2>16. Logins(wire', me, "sites", shown)
    <3>1. Has(wire', "login") => Has(u, "login")
      BY <2>5, <2>9, <2>13 DEF Has
    <3> QED BY <1>6, <2>5, <2>6, <2>13, <3>1 DEF Logins, Tidy
  <2>17. ~Has(wire', "setup") /\ Has(wire', "me")
    BY <2>5, <2>11, <2>13 DEF Has, Code
  <2> QED BY <1>6, <1>8, <1>15, <2>6, <2>13, <2>14, <2>15, <2>16, <2>17
          DEF Tidy, Codes, OnStep, Setups, Vacant
<1>16. CASE r.kind = "confirm" /\ wire' = Append(u, Request("logout", "right", cookie))
            /\ UNCHANGED <<me, route, last>>
  <2>1. PICK q : q = Request("logout", "right", cookie)
    OBVIOUS
  <2>2. q \in Exchange /\ q.kind = "logout" /\ q.ans = "waiting" /\ q.live
    BY <1>0, <2>1, Requests DEF Kind, Typed
  <2>3. \A j \in DOMAIN u : May(u[j].kind, "logout")
    BY <1>4, <1>16 DEF May, Code
  <2>4. me # "setup" /\ "logout" \notin Code
    BY <1>7, <1>16 DEF Signed, Code
  <2>5. Tidy(Append(u, q), me, route, shown, last)
    BY <1>4, <1>6, <1>16, <2>2, <2>3, <2>4, TidyMore
  <2> QED BY <1>8, <1>16, <2>1, <2>5
<1>17. \/ r.kind = "me" /\ r.ans \in {"setup", "anon", "user"} /\ me' = r.ans /\ wire' = u
          /\ UNCHANGED <<route, last>>
       \/ r.kind # "me" /\ wire' = u /\ me' = "anon" /\ route' = "login"
          /\ (last' = "out" => r.kind = "logout")
       \/ r.kind \in {"load", "init", "confirm", "passwd"} /\ wire' = u
          /\ route' = "login" /\ last' = "none" /\ UNCHANGED me
       \/ r.kind = "login" /\ wire' = u /\ route' \in {"setup", "enroll", "verify"}
          /\ UNCHANGED <<me, last>>
       \/ r.kind = "setup" /\ wire' = u /\ route' = "enroll" /\ UNCHANGED <<me, last>>
       \/ r.kind # "me" /\ wire' = u /\ UNCHANGED <<me, route, last>>
       \/ r.kind \in Code /\ r.ans = "ok" /\ wire' = Asked(u, Stored(r)) /\ route' = "sites"
          /\ last' = "in" /\ UNCHANGED me
       \/ r.kind = "confirm" /\ wire' = Append(u, Request("logout", "right", cookie))
          /\ UNCHANGED <<me, route, last>>
  <2>1. i = 1
    BY <1>1
  <2>2. r.kind = "me" => r.ans \notin {"refused", "lost"}
    <3>1. Fit(r)
      BY <1>1, <1>2, <2>1, Delivered
    <3> QED BY <3>1, <1>7, AnswersOf DEF Fit
  <2> QED BY <1>2, <1>3, <2>1, <2>2, Delivered DEF Code
<1> QED BY <1>9, <1>10, <1>11, <1>12, <1>13, <1>14, <1>15, <1>16, <1>17

(* Everything starts over with the first request for ["me"]. *)
LEMMA OrderlyFirst ==
    ASSUME NEW w, DOMAIN w = {1}, w[1].kind = "me", NEW p, NEW s
    PROVE  Tidy(w, "none", p, s, "none")
<1>1. \A k : Has(w, k) <=> k = "me"
  BY DEF Has
<1> QED BY <1>1 DEF Tidy, Waits, InOrder, Enrolls, Codes, HasCode, OnStep, Logins, Setups, Vacant

(* An account, once there, stays. *)
LEMMA InitedKept ==
    ASSUME [Next]_vars
    PROVE  inited => inited'
  BY Cases DEF Redirect, Mount, Serve, Deliver, Lose, Sending, SubmitForm, SubmitCode, SubmitPassword,
     Logout, Use, Quiet, OpenRebind, CloseRebind, Navigate, OtherTab, OtherBinds, OtherSetup,
     Revoke, Reconnect, Reload, server, vars

(* Every step keeps the queue tidy. *)
LEMMA OrderlyNext == OrderlyInv /\ [Next]_vars => OrderlyInv'
<1> SUFFICES ASSUME OrderlyInv, [Next]_vars, Calm(seen') PROVE Orderly'
  BY FreshNext DEF OrderlyInv
<1>0. /\ Base /\ TypeOK /\ wire \in Seq(Exchange) /\ Fresh /\ Orderly
      /\ "lost" \notin seen' /\ "late" \notin seen' /\ "hasty" \notin seen'
      /\ "otherSetup" \notin seen'
  BY FaultsKept DEF OrderlyInv, FreshInv, Base, TypeOK, Calm
<1>1. inited => inited'
  BY InitedKept
<1> SUFFICES Tidy(wire', me', route', shown', last')
  BY <1>1 DEF Orderly, Tidy, Waits, InOrder, Enrolls, Codes, HasCode, OnStep, Logins, Setups, Vacant, Has
<1>2. CASE Redirect
  BY <1>0, <1>2, OrderlyRedirect
<1>3. CASE Mount
  BY <1>0, <1>3, OrderlyMount
<1>4. ASSUME NEW i \in DOMAIN wire, Serve(i) PROVE Tidy(wire', me', route', shown', last')
  BY <1>0, <1>4, OrderlyServe
<1>5. ASSUME NEW i \in DOMAIN wire, Deliver(i) PROVE Tidy(wire', me', route', shown', last')
  BY <1>0, <1>5, OrderlyDeliver
<1>6. ASSUME NEW i \in DOMAIN wire, Lose(i) PROVE Tidy(wire', me', route', shown', last')
  BY <1>0, <1>6 DEF Lose, Happens
<1>7. CASE Sending
  BY <1>0, <1>7, SendingSends, OrderlySend
<1>8. CASE Quiet
  BY <1>0, <1>8, OrderlyQuiet
<1>9. CASE Revoke
  <2>1. wire' = Killed(wire) /\ UNCHANGED <<me, route, shown, last>>
    BY <1>9 DEF Revoke, page
  <2>2. /\ DOMAIN wire' = DOMAIN wire
        /\ \A i \in DOMAIN wire : /\ wire'[i].kind = wire[i].kind /\ wire'[i].live = wire[i].live
                                  /\ wire'[i].ans = wire[i].ans
    BY <1>0, <2>1, KilledWire
  <2>3. Waits(wire')
    BY <1>0, <2>2 DEF Waits, Orderly, Tidy
  <2> QED BY <1>0, <2>1, <2>2, <2>3, TidySame DEF Orderly
<1>10. CASE Reconnect
  BY <1>0, <1>10 DEF Reconnect, Happens
<1>11. ASSUME NEW r \in Route, Reload(r) PROVE Tidy(wire', me', route', shown', last')
  <2>1. wire' = FirstAsk(cookie) /\ me' = "none" /\ last' = "none"
    BY <1>11 DEF Reload
  <2>2. DOMAIN wire' = {1} /\ wire'[1].kind = "me"
    BY <1>0, <2>1, FirstAskFits, Asks DEF TypeOK
  <2> QED BY <2>1, <2>2, OrderlyFirst
<1>12. CASE UNCHANGED vars
  BY <1>0, <1>12 DEF vars, Orderly
<1>13. ASSUME NEW t \in Token, OtherBinds(t) PROVE Tidy(wire', me', route', shown', last')
  <2>1. Waits(wire')
    BY <1>0, <1>13, OtherWire DEF Waits, Orderly, Tidy
  <2> QED BY <1>0, <1>13, <2>1, OtherWire, TidySame DEF Orderly
<1>14. CASE OtherSetup
  BY <1>0, <1>14 DEF OtherSetup, Happens
<1> QED BY <1>2, <1>3, <1>4, <1>5, <1>6, <1>7, <1>8, <1>9, <1>10, <1>11, <1>12, <1>13, <1>14, Cases

(* The first request is the one for ["me"]. *)
LEMMA OrderlyInit == Init => OrderlyInv
<1> SUFFICES ASSUME Init PROVE OrderlyInv
  OBVIOUS
<1>1. TypeOK
  BY BaseInit DEF Base
<1>2. /\ wire = FirstAsk(cookie) /\ me = "none" /\ last = "none"
  BY DEF Init
<1>3. DOMAIN wire = {1} /\ wire[1].kind = "me"
  BY <1>1, <1>2, FirstAskFits, Asks DEF TypeOK
<1> QED BY <1>2, <1>3, OrderlyFirst, FreshInit DEF OrderlyInv, Orderly

(* A log-out sticks, however long the tab is used, whatever other tabs and   *)
(* administrators do and whatever is submitted twice, as long as answers     *)
(* arrive in the order of their requests, the user waits for ["me"] and the  *)
(* first account was not created by somebody else meanwhile.                 *)
THEOREM LogoutHolds ==
    Spec => [](seen \intersect {"hasty", "otherSetup"} = {} => LogoutSticks)
<1>1. OrderlyInv => (seen \intersect {"hasty", "otherSetup"} = {} => LogoutSticks)
  <2> SUFFICES ASSUME OrderlyInv, "late" \notin seen, "hasty" \notin seen, "lost" \notin seen,
                      "otherSetup" \notin seen, Settled, last = "out", shown \in Protected
               PROVE  FALSE
    BY DEF LogoutSticks
  <2>1. TypeOK /\ Orderly
    BY DEF OrderlyInv, FreshInv, Base, Calm
  <2>2. Leads(route) = route /\ shown = route
    BY <2>1, Acting DEF Settled, Protected
  <2>3. me = "user"
    BY <2>1, <2>2, Mountable
  <2> QED BY <2>1, <2>3 DEF Orderly, Tidy
<1> QED BY <1>1, OrderlyInit, OrderlyNext, PTL DEF Spec

-----------------------------------------------------------------------------
(* Answers in order, and a tab that is alone with its cookie *)

(* No full session is left, nor comes back with an answer under way. *)
NoFull(w, c) ==
    /\ c # "full"
    /\ \A i \in DOMAIN w : w[i].kind \in {"load", "passwd"} => w[i].tok # "full" /\ w[i].set # "full"

(* The answer that a full session has, or will have, to ["me"]. *)
AsUser(r) == r.kind = "me" /\ (r.ans = "user" \/ (r.ans = "waiting" /\ r.tok = "full"))

(* The user is cached, or will be, off the pages of the second factor;       *)
(* unless the next login is under way, or the session has been ended.        *)
Lands(w, m, p, c) ==
    \/ m = "user" /\ p \notin Steps /\ ~Has(w, "me")
    \/ Has(w, "login")
    \/ p \notin Steps /\ \E i \in DOMAIN w : AsUser(w[i])
    \/ NoFull(w, c)

(* After a login; a code accepted, whose session has been ended before the   *)
(* answer came.                                                              *)
Landing(w, m, p, c, l) ==
    /\ l = "in" => inited /\ Lands(w, m, p, c)
    /\ \A i \in DOMAIN w : w[i].kind \in Code /\ w[i].ans = "ok" /\ w[i].set # "full" => NoFull(w, c)

Denied(w) == \A i \in DOMAIN w : w[i].ans = "needsSetup" => ~inited

LandingInv ==
    /\ OrderlyInv
    /\ seen \subseteq {"repeat"} => Landing(wire, me, route, cookie, last) /\ Denied(wire)

(* Nothing but the listeners has changed. *)
LEMMA LandingAlike ==
    ASSUME NEW w, NEW v, DOMAIN v = DOMAIN w,
           \A i \in DOMAIN w : /\ v[i].kind = w[i].kind /\ v[i].ans = w[i].ans
                               /\ v[i].tok = w[i].tok /\ v[i].set = w[i].set,
           NEW m, NEW p, NEW c, NEW l, NEW q, p \in Steps \/ q \notin Steps
    PROVE  /\ Landing(w, m, p, c, l) => Landing(v, m, q, c, l)
           /\ Denied(w) => Denied(v)
<1>1. \A k : Has(v, k) <=> Has(w, k)
  BY DEF Has
<1>2. NoFull(w, c) => NoFull(v, c)
  BY DEF NoFull
<1>3. (\E i \in DOMAIN w : AsUser(w[i])) => \E i \in DOMAIN v : AsUser(v[i])
  BY DEF AsUser
<1>4. Lands(w, m, p, c) => Lands(v, m, q, c)
  BY <1>1, <1>2, <1>3 DEF Lands
<1> QED BY <1>2, <1>4 DEF Landing, Denied

(* One request more, with the cookie of the tab. *)
LEMMA LandingMore ==
    ASSUME NEW w \in Seq(Exchange), NEW r \in Exchange, r.kind # "me", r.ans = "waiting",
           r.set = "keep", NEW m, NEW p, NEW c, NEW l, r.tok = c
    PROVE  /\ Landing(w, m, p, c, l) => Landing(Append(w, r), m, p, c, l)
           /\ Denied(w) => Denied(Append(w, r))
<1>1. PICK v : v = Append(w, r)
  OBVIOUS
<1>2. /\ DOMAIN v = DOMAIN w \cup {Len(w) + 1}
      /\ \A i \in DOMAIN w : v[i] = w[i]
      /\ v[Len(w) + 1] = r
  BY <1>1, OneMore
<1>3. /\ \A k : Has(w, k) => Has(v, k)
      /\ Has(v, "me") => Has(w, "me")
  BY <1>2 DEF Has
<1>4. NoFull(w, c) => NoFull(v, c)
  BY <1>2 DEF NoFull
<1>5. (\E i \in DOMAIN w : AsUser(w[i])) => \E i \in DOMAIN v : AsUser(v[i])
  BY <1>2
<1>6. Lands(w, m, p, c) => Lands(v, m, p, c)
  BY <1>3, <1>4, <1>5 DEF Lands
<1>7. Landing(w, m, p, c, l) => Landing(v, m, p, c, l)
  BY <1>2, <1>4, <1>6 DEF Landing
<1>8. Denied(w) => Denied(v)
  BY <1>2 DEF Denied
<1> QED BY <1>1, <1>7, <1>8

(* What is answered never gives a session that the request did not have.     *)
LEMMA LandingServe ==
    ASSUME Base, Fresh, Orderly, Landing(wire, me, route, cookie, last), Denied(wire),
           NEW i \in DOMAIN wire, Serve(i), "late" \notin seen'
    PROVE  Landing(wire', me', route', cookie', last') /\ Denied(wire)'
<1>0. /\ TypeOK /\ wire \in Seq(Exchange) /\ cookie \in Token /\ DOMAIN wire \subseteq Int
      /\ Waits(wire) /\ InOrder(wire)
  BY LenProperties DEF Base, TypeOK, Orderly, Tidy
<1>1. i = 1 /\ 1 \in DOMAIN wire
  BY <1>0, InTurn DEF Serve
<1>2. PICK r : r = wire[1]
  OBVIOUS
<1>3. /\ r \in Exchange /\ Fit(r)
  BY <1>0, <1>1, <1>2, ElementOfSeq, LenProperties DEF Base, Fits
<1>4. /\ DOMAIN wire' = DOMAIN wire
      /\ r.ans = "waiting" /\ wire'[1].ans = Reply(r)
      /\ wire'[1].set \in Cookies(r, Reply(r))
      /\ \A j \in DOMAIN wire :
            /\ wire'[j].kind = wire[j].kind
            /\ wire'[j].tok = wire[j].tok \/ (Bumps(r) /\ wire'[j].tok = Dead(wire[j].tok))
            /\ j # 1 => /\ wire'[j].ans = wire[j].ans
                        /\ wire'[j].set = wire[j].set \/ wire'[j].set = DeadCookie(wire[j].set)
  BY <1>0, <1>1, <1>2, Served
<1>5. /\ UNCHANGED <<me, route, last>>
      /\ cookie' = cookie \/ cookie' = Dead(cookie)
      /\ inited => inited'
      /\ r.kind # "setup" => (inited' => inited)
  <2>1. /\ UNCHANGED <<me, route, last>>
        /\ cookie' = cookie \/ cookie' = Dead(cookie)
        /\ inited' = (inited \/ (wire[i].kind = "setup" /\ Reply(wire[i]) \notin Failed))
    BY DEF Serve
  <2> QED BY <1>1, <1>2, <2>1
<1>6. \A j \in DOMAIN wire : j # 1 => wire'[j].ans = "waiting" /\ May(r.kind, wire[j].kind)
  BY <1>0, <1>1, <1>2, <1>4 DEF Waits, InOrder
<1>7. \A t : Dead(t) # "full"
  BY DEF Dead
<1>8. NoFull(wire, cookie) => NoFull(wire', cookie')
  <2> SUFFICES ASSUME NoFull(wire, cookie) PROVE NoFull(wire', cookie')
    OBVIOUS
  <2>1. cookie' # "full"
    BY <1>5, <1>7 DEF NoFull
  <2>2. ASSUME NEW j \in DOMAIN wire, wire[j].kind \in {"load", "passwd"}
        PROVE  wire'[j].tok # "full" /\ wire'[j].set # "full"
    <3>1. wire[j].tok # "full" /\ wire[j].set # "full"
      BY <2>2 DEF NoFull
    <3>2. wire'[j].tok # "full"
      BY <1>4, <1>7, <3>1
    <3>3. CASE j # 1
      BY <1>4, <1>7, <3>1, <3>2, <3>3 DEF DeadCookie
    <3>4. CASE j = 1
      <4>1. Gate(r.tok) # "ok" /\ r.kind \in {"load", "passwd"}
        BY <1>2, <2>2, <3>1, <3>4 DEF Gate
      <4>2. Reply(r) # "ok"
        BY <4>1, Replies
      <4>3. Cookies(r, Reply(r)) \subseteq {"keep"}
        BY <1>3, <4>1, <4>2, Answered, AnswersOf, SetsOf
      <4> QED BY <1>4, <3>2, <3>4, <4>3
    <3> QED BY <3>3, <3>4
  <2> QED BY <1>4, <2>1, <2>2 DEF NoFull
<1>9. ASSUME last = "in"
      PROVE  inited' /\ Lands(wire', me, route, cookie')
  <2>1. inited /\ Lands(wire, me, route, cookie)
    BY <1>9 DEF Landing
  <2>2. \A k : Has(wire', k) <=> Has(wire, k)
    BY <1>4 DEF Has
  <2>3. ASSUME NEW j \in DOMAIN wire, AsUser(wire[j])
        PROVE  AsUser(wire'[j])
    <3>1. CASE j = 1
      <4>1. r.kind = "me" /\ r.tok = "full"
        BY <1>2, <1>4, <2>3, <3>1 DEF AsUser
      <4>2. Reply(r) = "user"
        BY <2>1, <4>1, Replies DEF MeAnswer
      <4> QED BY <1>2, <1>4, <3>1, <4>1, <4>2 DEF AsUser
    <3>2. CASE j # 1
      <4>1. wire[j].kind = "me" /\ wire[j].ans = "waiting" /\ wire[j].tok = "full"
        BY <1>4, <1>6, <2>3, <3>2 DEF AsUser
      <4>2. ~Bumps(r)
        BY <1>6, <3>2, <4>1 DEF May, Bumps, Code
      <4> QED BY <1>4, <3>2, <4>1, <4>2 DEF AsUser
    <3> QED BY <3>1, <3>2
  <2> QED BY <1>4, <1>5, <1>8, <2>1, <2>2, <2>3 DEF Lands
<1>10. ASSUME NEW j \in DOMAIN wire', wire'[j].kind \in Code, wire'[j].ans = "ok"
       PROVE  wire'[j].set = "full"
  <2>1. j = 1 /\ r.kind \in Code /\ Reply(r) = "ok"
    BY <1>2, <1>4, <1>6, <1>10
  <2>2. Cookies(r, "ok") = {"full"}
    BY <2>1 DEF Cookies, Code
  <2> QED BY <1>4, <2>1, <2>2
<1>11. ASSUME NEW j \in DOMAIN wire', wire'[j].ans = "needsSetup"
       PROVE  ~inited'
  <2>1. Reply(r) = "needsSetup" /\ j = 1
    BY <1>4, <1>6, <1>11
  <2>2. r.kind \in Kind
    BY <1>3, Fields
  <2>3. r.kind = "login"
    BY <2>1, <2>2, <1>3, Answered, AnswersOf DEF Kind
  <2>4. ~inited
    BY <2>1, <2>3, Replies
  <2> QED BY <1>5, <2>3, <2>4
<1> QED BY <1>5, <1>9, <1>10, <1>11 DEF Landing, Denied

(* Fewer requests bring no session back. *)
LEMMA NoFullLess ==
    ASSUME NEW w, NEW v, NEW c, NoFull(w, c), \A j \in DOMAIN v : \E k \in DOMAIN w : v[j] = w[k],
           NEW d, d # "full"
    PROVE  NoFull(v, d)
  BY DEF NoFull

(* The answers, the oldest first: the login, when its code is accepted, asks *)
(* for the user with the cookie that it brings.                              *)
LEMMA LandingDeliver ==
    ASSUME Base, Fresh, Orderly, Landing(wire, me, route, cookie, last), Denied(wire),
           NEW i \in DOMAIN wire, Deliver(i), "late" \notin seen'
    PROVE  Landing(wire', me', route', cookie', last') /\ Denied(wire)'
<1>0. /\ TypeOK /\ wire \in Seq(Exchange) /\ me \in {"none", "setup", "anon", "user"}
      /\ cookie \in Token /\ Tidy(wire, me, route, shown, last)
      /\ FreshQueue(wire, me, shown)
  BY DEF Base, TypeOK, Fresh, Orderly
<1>1. i = 1 /\ 1 \in DOMAIN wire
  BY <1>0, InTurn, Delivered
<1>2. PICK r : r = wire[1]
  OBVIOUS
<1>3. PICK u : u = Others(1)
  OBVIOUS
<1>4. /\ u \in Seq(Exchange)
      /\ \A j \in DOMAIN u : u[j].ans = "waiting" /\ May(r.kind, u[j].kind)
      /\ \A j \in DOMAIN u : \E k \in DOMAIN wire : u[j] = wire[k] /\ k # 1
      /\ \A k : Has(u, k) => Has(wire, k)
      /\ \A k : Has(wire, k) /\ r.kind # k => Has(u, k)
      /\ DOMAIN wire = {1} => DOMAIN u = {}
  BY <1>0, <1>1, <1>2, <1>3, HeadGone DEF Others, Tidy
<1>5. \A k \in DOMAIN wire : k # 1 => \E j \in DOMAIN u : u[j] = wire[k]
  BY <1>0, <1>1, <1>3, OneLessKeeps DEF Others
<1>6. \A c \in Token : c # "full" /\ NoFull(wire, cookie) => NoFull(u, c)
  BY <1>4, NoFullLess
<1>7. /\ r.kind \in Code /\ r.ans = "ok" => inited
      /\ r.ans \notin {"lost", "waiting"} /\ Fit(r) /\ Stored(r) \in Token /\ inited' = inited
  BY <1>0, <1>1, <1>2, Delivered DEF FreshQueue, FreshRequest, server
<1>8. Landing(u, me', route', cookie', last') <=> (last' = "in" => inited /\ Lands(u, me', route', cookie'))
  BY <1>4 DEF Landing
<1>9. Denied(u)'
  BY <1>4 DEF Denied
<1>10. ASSUME last = "in" PROVE inited /\ Lands(wire, me, route, cookie)
  BY <1>10 DEF Landing
<1>11. CASE r.kind = "me" /\ r.ans \in {"setup", "anon", "user"} /\ me' = r.ans /\ wire' = u
            /\ UNCHANGED <<cookie, route, last>>
  <2> SUFFICES ASSUME last = "in" PROVE Lands(u, me', route, cookie)
    BY <1>8, <1>9, <1>10, <1>11
  <2>1. Has(wire, "me") /\ ~Has(u, "me")
    BY <1>1, <1>2, <1>4, <1>11 DEF Has, May
  <2>2. ~Has(wire, "login")
    <3>1. ~Has(u, "login")
      BY <1>4, <1>11 DEF Has, May
    <3> QED BY <1>4, <1>11, <3>1
  <2>3. CASE NoFull(wire, cookie)
    BY <1>0, <1>6, <2>3 DEF Lands, NoFull
  <2>4. CASE route \notin Steps /\ \E j \in DOMAIN wire : AsUser(wire[j])
    <3>1. PICK j \in DOMAIN wire : AsUser(wire[j])
      BY <2>4
    <3>2. j = 1
      BY <1>1, <1>2, <1>11, <3>1 DEF AsUser, Base, OneAsk
    <3>3. me' = "user"
      BY <1>2, <1>11, <3>1, <3>2 DEF AsUser
    <3> QED BY <2>1, <2>4, <3>3 DEF Lands
  <2> QED BY <1>10, <2>1, <2>2, <2>3, <2>4 DEF Lands
<1>12. CASE wire' = u /\ last' # "in"
  BY <1>8, <1>9, <1>12
<1>13. CASE r.kind = "login" /\ r.ans = "needsSetup" /\ wire' = u /\ UNCHANGED last
  <2>1. ~inited
    BY <1>1, <1>2, <1>13 DEF Denied
  <2> QED BY <1>8, <1>9, <1>10, <1>13, <2>1
<1>14. CASE r.kind = "login" /\ r.ans \in {"enrollNext", "totpNext"} /\ wire' = u
            /\ cookie' = Stored(r) /\ UNCHANGED last
  <2>1. r.set \in {"enroll", "totp", "spent"}
    BY <1>7, <1>14, SetsOf DEF Fit
  <2>2. cookie' # "full"
    BY <1>14, <2>1 DEF Stored
  <2>3. NoFull(u, cookie')
    BY <1>4, <1>14, <2>2 DEF NoFull, May
  <2> QED BY <1>8, <1>9, <1>10, <1>14, <2>3 DEF Lands
<1>15. CASE r.kind = "setup" /\ r.ans = "ok" /\ wire' = u /\ cookie' = Stored(r) /\ UNCHANGED last
  <2>1. r.set \in {"enroll", "spent"}
    BY <1>7, <1>15, SetsOf DEF Fit
  <2>2. cookie' # "full" /\ DOMAIN u = {}
    BY <1>0, <1>1, <1>2, <1>4, <1>15, <2>1 DEF Stored, Tidy, Setups, Has
  <2>3. NoFull(u, cookie')
    BY <2>2 DEF NoFull
  <2> QED BY <1>8, <1>9, <1>10, <1>15, <2>3 DEF Lands
(* The user and the address stay, and so does a session that is over. *)
<1>16. ASSUME r.kind \notin {"me", "login"}, UNCHANGED <<me, route, last>>,
              NEW c \in Token, c = cookie \/ (r.kind \in {"load", "passwd"} /\ c = Stored(r))
       PROVE  Landing(u, me, route, c, last)
  <2> SUFFICES ASSUME last = "in" PROVE Lands(u, me, route, c)
    BY <1>4, <1>10 DEF Landing
  <2>1. NoFull(wire, cookie) => NoFull(u, c)
    <3>1. NoFull(wire, cookie) => c # "full"
      BY <1>1, <1>2, <1>16 DEF NoFull, Stored
    <3> QED BY <1>6, <3>1
  <2>2. Has(wire, "login") => Has(u, "login")
    BY <1>4, <1>16
  <2>3. Has(u, "me") => Has(wire, "me")
    BY <1>4
  <2>4. (\E j \in DOMAIN wire : AsUser(wire[j])) => \E j \in DOMAIN u : AsUser(u[j])
    <3> SUFFICES ASSUME NEW k \in DOMAIN wire, AsUser(wire[k]) PROVE \E j \in DOMAIN u : AsUser(u[j])
      OBVIOUS
    <3>1. k # 1
      BY <1>2, <1>16 DEF AsUser
    <3> QED BY <1>5, <3>1
  <2> QED BY <1>10, <2>1, <2>2, <2>3, <2>4 DEF Lands
<1>17. CASE r.kind \notin {"me", "login"} /\ wire' = u /\ UNCHANGED <<me, route, last>>
            /\ (cookie' = cookie \/ (r.kind \in {"load", "passwd"} /\ cookie' = Stored(r)))
  <2>1. cookie' \in Token
    BY <1>0, <1>7, <1>17
  <2> QED BY <1>9, <1>16, <1>17, <2>1
<1>18. CASE r.kind \in Code /\ r.ans = "ok" /\ wire' = Asked(u, Stored(r)) /\ route' = "sites"
            /\ last' = "in" /\ cookie' = Stored(r) /\ UNCHANGED me
  <2>1. PICK c : c = Cancelled(u)
    OBVIOUS
  <2>2. OneAsk(u)
    BY <1>0, <1>1, <1>3, OthersFit
  <2>3. /\ c \in Seq(Exchange) /\ Within(c, u)
    BY <1>4, <2>1, <2>2, CancelledWire
  <2>4. PICK a : a = Ask(Stored(r))
    OBVIOUS
  <2>5. /\ a \in Exchange /\ a.kind = "me" /\ a.ans = "waiting" /\ a.tok = Stored(r)
    BY <1>0, <1>7, <2>4, Asks
  <2>6. me # "none"
    BY <1>0, <1>1, <1>2, <1>18 DEF Tidy, Code
  <2>7. wire' = Append(c, a)
    BY <1>18, <2>1, <2>4, <2>6 DEF Asked
  <2>8. \A j \in DOMAIN c : \E k \in DOMAIN u : c[j] = u[k]
    <3>1. PICK f \in [1..Len(c) -> DOMAIN u] : \A j \in 1..Len(c) : c[j] = u[f[j]]
      BY <2>3 DEF Within
    <3> QED BY <2>3, <3>1, LenProperties
  <2>9. PICK v : v = wire'
    OBVIOUS
  <2>10. /\ DOMAIN v = DOMAIN c \cup {Len(c) + 1} /\ v[Len(c) + 1] = a
         /\ \A j \in DOMAIN c : v[j] = c[j]
    BY <2>3, <2>5, <2>7, <2>9, OneMore
  <2>11. \A j \in DOMAIN v : v[j].ans = "waiting"
    BY <1>4, <2>5, <2>8, <2>10
  <2>12. r.set \in {"full", "dead"} /\ Stored(r) = r.set
    BY <1>7, <1>18, SetsOf DEF Fit, Code, Stored
  <2>13. Lands(v, me, "sites", Stored(r))
    <3>1. CASE r.set = "full"
      <4>1. AsUser(v[Len(c) + 1])
        BY <2>5, <2>10, <2>12, <3>1 DEF AsUser
      <4> QED BY <2>10, <4>1 DEF Lands, Steps
    <3>2. CASE r.set = "dead"
      <4>1. NoFull(wire, cookie)
        BY <1>1, <1>2, <1>18, <3>2 DEF Landing
      <4>2. NoFull(u, "dead")
        BY <1>6, <4>1 DEF Token
      <4>3. NoFull(v, "dead")
        BY <2>5, <2>8, <2>10, <4>2 DEF NoFull
      <4> QED BY <2>12, <3>2, <4>3 DEF Lands
    <3> QED BY <2>12, <3>1, <3>2
  <2>14. Denied(v)' /\ inited
    BY <1>7, <1>18, <2>11, <2>9 DEF Denied
  <2> QED BY <1>18, <2>9, <2>11, <2>13, <2>14 DEF Landing, Denied
<1>19. CASE r.kind = "confirm" /\ wire' = Append(u, Request("logout", "right", cookie))
            /\ UNCHANGED <<cookie, me, route, last>>
  <2>1. PICK q : q = Request("logout", "right", cookie)
    OBVIOUS
  <2>2. /\ q \in Exchange /\ q.kind = "logout" /\ q.ans = "waiting" /\ q.tok = cookie /\ q.set = "keep"
    BY <1>0, <2>1, Requests DEF Kind, Typed
  <2>3. Landing(u, me, route, cookie, last) /\ Denied(u)
    BY <1>0, <1>4, <1>16, <1>19 DEF Denied
  <2>4. Landing(Append(u, q), me, route, cookie, last) /\ Denied(Append(u, q))
    BY <1>4, <2>2, <2>3, LandingMore
  <2> QED BY <1>7, <1>19, <2>1, <2>4 DEF Denied, Landing
<1>20. r.kind \in {"me", "login"} => r.ans # "refused"
  BY <1>7, AnswersOf DEF Fit
<1>21. \/ r.kind = "me" /\ r.ans \in {"setup", "anon", "user"} /\ me' = r.ans /\ wire' = u
          /\ UNCHANGED <<cookie, route, last>>
       \/ wire' = u /\ last' # "in"
       \/ r.kind = "login" /\ r.ans = "needsSetup" /\ wire' = u /\ UNCHANGED last
       \/ r.kind = "login" /\ r.ans \in {"enrollNext", "totpNext"} /\ wire' = u
          /\ cookie' = Stored(r) /\ UNCHANGED last
       \/ r.kind = "setup" /\ r.ans = "ok" /\ wire' = u /\ cookie' = Stored(r) /\ UNCHANGED last
       \/ r.kind \notin {"me", "login"} /\ wire' = u /\ UNCHANGED <<me, route, last>>
          /\ (cookie' = cookie \/ (r.kind \in {"load", "passwd"} /\ cookie' = Stored(r)))
       \/ r.kind \in Code /\ r.ans = "ok" /\ wire' = Asked(u, Stored(r)) /\ route' = "sites"
          /\ last' = "in" /\ cookie' = Stored(r) /\ UNCHANGED me
       \/ r.kind = "confirm" /\ wire' = Append(u, Request("logout", "right", cookie))
          /\ UNCHANGED <<cookie, me, route, last>>
  <2>1. i = 1
    BY <1>1
  <2> QED BY <1>2, <1>3, <1>7, <1>20, <2>1, Delivered DEF Code
<1> QED BY <1>11, <1>12, <1>13, <1>14, <1>15, <1>17, <1>18, <1>19, <1>21

(* Every step keeps a login on its way to the application. *)
LEMMA LandingNext == LandingInv /\ [Next]_vars => LandingInv'
<1> SUFFICES ASSUME LandingInv, [Next]_vars, seen' \subseteq {"repeat"}
             PROVE  Landing(wire', me', route', cookie', last') /\ Denied(wire)'
  BY InitedKept, OrderlyNext DEF LandingInv, Landing, Lands, NoFull, AsUser, Has
<1>0. /\ Base /\ TypeOK /\ wire \in Seq(Exchange) /\ cookie \in Token /\ Fresh /\ Orderly
      /\ Landing(wire, me, route, cookie, last) /\ Denied(wire)
      /\ "lost" \notin seen' /\ "late" \notin seen' /\ "hasty" \notin seen'
      /\ "otherTab" \notin seen' /\ "otherSetup" \notin seen'
  BY FaultsKept DEF LandingInv, OrderlyInv, FreshInv, Base, TypeOK, Calm
<1>1. CASE Redirect
  <2>1. /\ wire' = Orphaned(wire) /\ UNCHANGED <<me, cookie, last, inited>>
        /\ Leads(route) # route /\ (route' = route \/ route' = Leads(route))
    BY <1>1 DEF Redirect, server
  <2>2. /\ DOMAIN wire' = DOMAIN wire
        /\ \A i \in DOMAIN wire : /\ wire'[i].kind = wire[i].kind /\ wire'[i].ans = wire[i].ans
                                  /\ wire'[i].tok = wire[i].tok /\ wire'[i].set = wire[i].set
    BY <1>0, <2>1, OrphanedWire
  <2>3. route' \notin Steps
    BY <1>0, <2>1, OffSteps
  <2>4. Landing(wire', me, route', cookie, last) /\ Denied(wire')
    BY <1>0, <2>2, <2>3, LandingAlike
  <2> QED BY <2>1, <2>4 DEF Denied
<1>2. CASE Mount
  <2>1. PICK v : v = Orphaned(wire)
    OBVIOUS
  <2>2. /\ v \in Seq(Exchange) /\ DOMAIN v = DOMAIN wire
        /\ \A i \in DOMAIN wire : /\ v[i].kind = wire[i].kind /\ v[i].ans = wire[i].ans
                                  /\ v[i].tok = wire[i].tok /\ v[i].set = wire[i].set
    BY <1>0, <2>1, OrphanedWire
  <2>3. Landing(v, me, route, cookie, last) /\ Denied(v)
    BY <1>0, <2>2, LandingAlike
  <2>4. UNCHANGED <<inited, me, route, cookie, last>>
    BY <1>2 DEF Mount, server
  <2>5. Landing(wire', me, route, cookie, last) /\ Denied(wire')
    <3>1. CASE wire' = v
      BY <2>3, <3>1
    <3>2. ASSUME NEW r, Opens(r), wire' = Append(v, r)
          PROVE  Landing(wire', me, route, cookie, last) /\ Denied(wire')
      <4>1. r \in Exchange /\ r.kind # "me" /\ r.ans = "waiting" /\ r.set = "keep" /\ r.tok = cookie
        BY <3>2 DEF Opens
      <4> QED BY <2>2, <2>3, <3>2, <4>1, LandingMore
    <3> QED BY <1>0, <1>2, <2>1, <3>1, <3>2, Mounting
  <2> QED BY <2>4, <2>5 DEF Denied
<1>3. ASSUME NEW i \in DOMAIN wire, Serve(i)
      PROVE  Landing(wire', me', route', cookie', last') /\ Denied(wire)'
  BY <1>0, <1>3, LandingServe
<1>4. ASSUME NEW i \in DOMAIN wire, Deliver(i)
      PROVE  Landing(wire', me', route', cookie', last') /\ Denied(wire)'
  BY <1>0, <1>4, LandingDeliver
<1>5. ASSUME NEW i \in DOMAIN wire, Lose(i) PROVE FALSE
  BY <1>0, <1>5 DEF Lose, Happens
<1>6. CASE Sending
  <2>1. PICK r : Sends(r)
    BY <1>0, <1>6, SendingSends
  <2>2. /\ r \in Exchange /\ r.kind # "me" /\ r.ans = "waiting" /\ r.set = "keep" /\ r.tok = cookie
        /\ wire' = Append(wire, r) /\ UNCHANGED <<inited, me, route, cookie, last>>
    BY <2>1 DEF Sends, server, page
  <2>3. Landing(wire', me, route, cookie, last) /\ Denied(wire')
    BY <1>0, <2>2, LandingMore
  <2> QED BY <2>2, <2>3 DEF Denied
<1>7. CASE Quiet
  <2>1. /\ wire' = wire /\ UNCHANGED <<inited, me, cookie, last>>
        /\ route' = route \/ route' \in Protected
    BY <1>0, <1>7 DEF Quiet, OpenRebind, CloseRebind, Navigate, OtherTab, Happens, page, server
  <2>2. route \in Steps \/ route' \notin Steps
    BY <2>1 DEF Protected, Steps
  <2>3. Landing(wire, me, route', cookie, last)
    BY <1>0, <2>2, LandingAlike
  <2> QED BY <1>0, <2>1, <2>3 DEF Denied
<1>8. CASE Revoke
  <2>1. wire' = Killed(wire) /\ cookie' = Dead(cookie) /\ UNCHANGED <<inited, me, route, last>>
    BY <1>8 DEF Revoke, page, server
  <2>2. /\ DOMAIN wire' = DOMAIN wire
        /\ \A i \in DOMAIN wire : /\ wire'[i].ans = wire[i].ans
                                  /\ wire'[i].tok = Dead(wire[i].tok)
                                  /\ wire'[i].set = DeadCookie(wire[i].set)
    BY <1>0, <2>1, KilledWire
  <2>3. \A t : Dead(t) # "full" /\ DeadCookie(t) # "full"
    BY DEF Dead, DeadCookie
  <2>4. NoFull(wire', cookie')
    BY <2>1, <2>2, <2>3 DEF NoFull
  <2> QED BY <1>0, <2>1, <2>2, <2>4 DEF Landing, Lands, Denied
<1>9. CASE Reconnect
  BY <1>0, <1>9 DEF Reconnect, Happens
<1>10. ASSUME NEW r \in Route, Reload(r)
       PROVE  Landing(wire', me', route', cookie', last') /\ Denied(wire)'
  <2>1. wire' = FirstAsk(cookie) /\ last' = "none"
    BY <1>10 DEF Reload
  <2>2. DOMAIN wire' = {1} /\ wire'[1].ans = "waiting"
    BY <1>0, <2>1, FirstAskFits, Asks
  <2> QED BY <2>1, <2>2 DEF Landing, Denied
<1>11. CASE UNCHANGED vars
  <2>1. Denied(wire)'
    BY <1>0, <1>11 DEF vars, Denied
  <2> QED BY <1>0, <1>11, <2>1 DEF vars
<1>12. ASSUME NEW t \in Token, OtherBinds(t) PROVE FALSE
  BY <1>0, <1>12, OtherWire
<1>13. CASE OtherSetup
  BY <1>0, <1>13 DEF OtherSetup, Happens
<1> QED BY <1>1, <1>2, <1>3, <1>4, <1>5, <1>6, <1>7, <1>8, <1>9, <1>10, <1>11, <1>12, <1>13, Cases

(* A login that is completed lands on a page of the application, however     *)
(* long the tab is used, whatever is submitted twice and whichever sessions  *)
(* are ended, as long as answers arrive in the order of their requests.      *)
THEOREM LoginHolds == Spec => []LoginLands
<1>1. Init => LandingInv
  <2> SUFFICES ASSUME Init PROVE Landing(wire, me, route, cookie, last) /\ Denied(wire)
    BY OrderlyInit DEF LandingInv
  <2>1. TypeOK
    BY BaseInit DEF Base
  <2>2. wire = FirstAsk(cookie) /\ last = "none"
    BY DEF Init
  <2>3. DOMAIN wire = {1} /\ wire[1].ans = "waiting"
    BY <2>1, <2>2, FirstAskFits, Asks DEF TypeOK
  <2> QED BY <2>2, <2>3 DEF Landing, Denied
<1>2. LandingInv => LoginLands
  <2> SUFFICES ASSUME LandingInv, Settled, last = "in", cookie = "full", seen \subseteq {"repeat"}
               PROVE  shown \in Protected
    BY DEF LoginLands
  <2>1. /\ TypeOK /\ route \in Route /\ Lands(wire, me, route, "full")
    BY DEF LandingInv, OrderlyInv, FreshInv, Base, Landing, TypeOK
  <2>2. me = "user" /\ route \notin Steps
    BY <2>1 DEF Lands, Settled, Has, NoFull
  <2>3. route \in {"setup", "login", "sites", "me", "users"}
    BY <2>1, <2>2 DEF Route, Public, Protected, Steps
  <2>4. Leads(route) \in Protected
    BY <2>1, <2>2, <2>3, Led DEF Protected
  <2>5. Leads(route) # "wait"
    BY <2>4 DEF Protected
  <2> QED BY <2>4, <2>5 DEF Settled, Rendered
<1> QED BY <1>1, <1>2, LandingNext, PTL DEF Spec

==============================================================================
