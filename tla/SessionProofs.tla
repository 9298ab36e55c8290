---------------------------- MODULE SessionProofs ----------------------------
(***************************************************************************)
(* The safety of Sessions for any users, requests, lifetimes and replica   *)
(* lag: Invariant is inductive, one lemma for each action, and the         *)
(* properties follow.                                                      *)
(***************************************************************************)
EXTENDS Sessions, TLAPS

Rows == [user : Users, at : Times]

LEMMA ConstantFacts ==
  /\ AccessTtl \in Nat /\ RefreshTtl \in Nat /\ LinkTtl \in Nat /\ MaxTime \in Nat
  /\ Times \subseteq Nat /\ None \notin Users /\ None \notin Times
  BY SessionConstants DEF Times

(* A row read is a row that is there.                                       *)
LEMMA LastLoginIsRow ==
  ASSUME NEW rows \in Seq(Rows), NEW u \in Users, NEW last \in LastLogins(u, rows)
  PROVE  \/ last = None
         \/ \E i \in 1..Len(rows) : rows[i] = [user |-> u, at |-> last]
<1> DEFINE mine == {i \in 1..Len(rows) : rows[i].user = u}
<1>1. CASE mine = {}
  BY <1>1 DEF LastLogins
<1>2. CASE mine # {}
  <2>1. PICK i \in mine : last = rows[i].at
    BY <1>2 DEF LastLogins
  <2>2. rows[i] \in Rows /\ rows[i].user = u
    BY <2>1
  <2> QED BY <2>1, <2>2 DEF Rows
<1> QED BY <1>1, <1>2

(* What report shows is the beginning of what master holds.                 *)
LEMMA ReportIsPrefix ==
  ASSUME Invariant
  PROVE  /\ Report \in Seq(Rows) /\ Len(Report) \in Nat
         /\ Len(Report) <= Len(histories)
         /\ \A i \in 1..Len(Report) : Report[i] = histories[i]
<1>1. histories \in Seq(Rows) /\ replicated \in Nat /\ replicated <= Len(histories)
  BY DEF Invariant, TypeOK, Rows
<1>2. CASE ~ Lagging
  BY <1>1, <1>2 DEF Report
<1>3. CASE Lagging
  <2>1. /\ SubSeq(histories, 1, replicated) \in Seq(Rows)
        /\ Len(SubSeq(histories, 1, replicated)) = replicated
        /\ \A i \in 1..replicated : SubSeq(histories, 1, replicated)[i] = histories[i]
    BY <1>1
  <2> QED BY <1>1, <1>3, <2>1 DEF Report
<1> QED BY <1>2, <1>3

LEMMA InitHolds == Init => Invariant
<1> SUFFICES ASSUME Init PROVE Invariant
  OBVIOUS
<1>1. TypeOK
  BY ConstantFacts, SessionConstants DEF Init, TypeOK, Logins, Idle, Times
<1> QED BY <1>1 DEF Init, Invariant, Signed, InFlight, LastLoginIsPast, Idle

(* What a token traces to stays: rows are appended, links stay mailed.      *)
Kept ==
  /\ UNCHANGED secret
  /\ mailed \subseteq mailed'
  /\ \A u, n, s : OnRecord(u, n, s) => OnRecord(u, n, s)'

LEMMA TraceStays ==
  ASSUME Kept, NEW t, Traced(t)
  PROVE  Traced(t)'
<1>1. LinksShared' = LinksShared /\ RefreshApart' = RefreshApart
  BY DEF Kept, LinksShared, RefreshApart
<1> QED BY <1>1 DEF Kept, Traced

LEMMA SignedStep ==
  ASSUME Signed, Kept, \A t \in tokens' : t \notin tokens => Traced(t)' /\ Bounded(t)
  PROVE  Signed'
<1>1. \A t : Bounded(t)' <=> Bounded(t)
  BY DEF Kept, Bounded, RefreshApart
<1>2. ASSUME NEW t \in tokens' PROVE Traced(t)' /\ Bounded(t)'
  <2>1. CASE t \in tokens
    BY <1>1, <2>1, TraceStays DEF Signed
  <2>2. CASE t \notin tokens
    BY <1>1, <2>2
  <2> QED BY <2>1, <2>2
<1> QED BY <1>2 DEF Signed

LEMMA SignedStays ==
  ASSUME Signed, UNCHANGED <<secret, histories>>, mailed \subseteq mailed',
         tokens' \subseteq tokens
  PROVE  Signed'
  BY SignedStep DEF Kept, OnRecord

LEMMA LoginReadHolds ==
  ASSUME Invariant, NEW r \in Requests, NEW u \in Users, LoginRead(r, u)
  PROVE  Invariant'
<1>1. PICK last \in LastLogins(u, Report) :
        req' = [req EXCEPT ![r] = [pc |-> "save", user |-> u, last |-> last,
                                   since |-> now]]
  BY DEF LoginRead
<1>2. /\ UNCHANGED <<secret, histories, replicated, locked, submitted, tokens, now,
                     mailed>>
      /\ answer' = None
  BY DEF LoginRead
<1>3. \/ last = None
      \/ \E i \in 1..Len(histories) : histories[i] = [user |-> u, at |-> last]
  BY ReportIsPrefix, LastLoginIsRow
<1>4. last \in Times \cup {None}
  <2>1. ASSUME NEW i \in 1..Len(histories), histories[i] = [user |-> u, at |-> last]
        PROVE  last \in Times
    <3>1. histories \in Seq(Rows)
      BY DEF Invariant, TypeOK, Rows
    <3>2. histories[i] \in Rows
      BY <3>1
    <3> QED BY <2>1, <3>2 DEF Rows
  <2> QED BY <1>3, <2>1
<1>5. TypeOK'
  BY <1>1, <1>2, <1>4 DEF Invariant, TypeOK, Logins
<1>6. InFlight'
  <2> SUFFICES ASSUME NEW q \in Requests, req'[q].pc = "save"
               PROVE  /\ req'[q].user \in Users
                      /\ req'[q].since <= now
                      /\ req'[q].last # None =>
                           \E i \in 1..Len(histories) :
                             histories[i] = [user |-> req'[q].user, at |-> req'[q].last]
    BY <1>2 DEF InFlight
  <2>1. CASE q = r
    <3>1. req'[q] = [pc |-> "save", user |-> u, last |-> last, since |-> now]
      BY <1>1, <2>1 DEF Invariant, TypeOK
    <3> QED BY <1>3, <3>1, ConstantFacts DEF Invariant, TypeOK
  <2>2. CASE q # r
    BY <1>1, <2>2 DEF Invariant, InFlight, TypeOK
  <2> QED BY <2>1, <2>2
<1>7. Signed' /\ LastLoginIsPast' /\ (replicated <= Len(histories))'
  BY <1>2, SignedStays DEF Invariant, LastLoginIsPast
<1> QED BY <1>5, <1>6, <1>7 DEF Invariant

(* A new row disturbs nothing that speaks of the rows before it.            *)
LEMMA RowAppended ==
  ASSUME Invariant, NEW r \in Requests, req[r].pc = "save",
         histories' = Append(histories, Row(r)), UNCHANGED replicated
  PROVE  /\ histories' \in Seq([user : Users, at : Times])
         /\ Len(histories) \in Nat /\ Len(histories') = Len(histories) + 1
         /\ \A i \in 1..Len(histories) : i \in 1..Len(histories') /\ histories'[i] = histories[i]
         /\ histories'[Len(histories) + 1] = Row(r)
         /\ replicated' <= Len(histories')
<1>1. Row(r) \in [user : Users, at : Times]
  BY DEF Row, Invariant, TypeOK, InFlight
<1>2. histories \in Seq([user : Users, at : Times]) /\ replicated \in Nat
      /\ replicated <= Len(histories)
  BY DEF Invariant, TypeOK
<1> QED BY <1>1, <1>2

LEMMA IdleIsLogin ==
  ASSUME Invariant, NEW r \in Requests, req' = [req EXCEPT ![r] = Idle]
  PROVE  /\ req' \in [Requests -> Logins]
         /\ \A q \in Requests : req'[q].pc = "save" => q # r /\ req'[q] = req[q]
<1>1. 0 \in Times
  BY ConstantFacts DEF Times
<1> QED BY <1>1 DEF Invariant, TypeOK, Logins, Idle

(* A login in flight that found a row still finds it.                       *)
LEMMA InFlightKept ==
  ASSUME Invariant, NEW r \in Requests, req' = [req EXCEPT ![r] = Idle],
         UNCHANGED now, Len(histories) \in Nat,
         \A i \in 1..Len(histories) : i \in 1..Len(histories') /\ histories'[i] = histories[i]
  PROVE  InFlight'
<1> SUFFICES ASSUME NEW q \in Requests, req'[q].pc = "save"
             PROVE  /\ req'[q].user \in Users
                    /\ req'[q].since <= now'
                    /\ req'[q].last # None =>
                         \E i \in 1..Len(histories') :
                           histories'[i] = [user |-> req'[q].user, at |-> req'[q].last]
  BY DEF InFlight
<1>1. req'[q] = req[q] /\ req[q].pc = "save"
  BY IdleIsLogin
<1>2. /\ req[q].user \in Users /\ req[q].since <= now
      /\ req[q].last # None =>
           \E i \in 1..Len(histories) :
             histories[i] = [user |-> req[q].user, at |-> req[q].last]
  BY <1>1 DEF Invariant, InFlight
<1>3. ASSUME req[q].last # None
      PROVE  \E i \in 1..Len(histories') :
               histories'[i] = [user |-> req[q].user, at |-> req[q].last]
  <2>1. PICK i \in 1..Len(histories) :
          histories[i] = [user |-> req[q].user, at |-> req[q].last]
    BY <1>2, <1>3
  <2>2. i \in 1..Len(histories') /\ histories'[i] = histories[i]
    OBVIOUS
  <2> QED BY <2>1, <2>2
<1> QED BY <1>1, <1>2, <1>3

LEMMA LoginSaveHolds ==
  ASSUME Invariant, NEW r \in Requests, LoginSave(r)
  PROVE  Invariant'
<1>1. /\ req[r].pc = "save"
      /\ histories' = Append(histories, Row(r))
      /\ req' = [req EXCEPT ![r] = Idle]
      /\ UNCHANGED <<secret, replicated, locked, submitted, now, mailed>>
  BY DEF LoginSave
<1>2. /\ histories' \in Seq([user : Users, at : Times])
      /\ Len(histories) \in Nat /\ Len(histories') = Len(histories) + 1
      /\ \A i \in 1..Len(histories) : i \in 1..Len(histories') /\ histories'[i] = histories[i]
      /\ histories'[Len(histories) + 1] = Row(r)
      /\ replicated' <= Len(histories')
  BY <1>1, RowAppended
<1>3. \E n \in Nat \ {0}, u \in Users, s \in Times, last \in Times \cup {None} :
        n = Len(histories) + 1 /\ u = req[r].user /\ s = req[r].since /\ last = req[r].last
  <2>1. Len(histories) + 1 \in Nat \ {0}
    BY <1>2
  <2>2. /\ req[r].user \in Users /\ req[r].since \in Times
        /\ req[r].last \in Times \cup {None}
    BY <1>1 DEF Invariant, TypeOK, Logins, InFlight
  <2> QED BY <2>1, <2>2
<1>4. PICK n \in Nat \ {0}, u \in Users, s \in Times, last \in Times \cup {None} :
        n = Len(histories) + 1 /\ u = req[r].user /\ s = req[r].since /\ last = req[r].last
  BY <1>3
<1> DEFINE a == Token("access", u, s + AccessTtl, n, s)
           b == Token("refresh", u, s + RefreshTtl, n, s)
<1>5. /\ tokens' = tokens \cup {a, b}
      /\ answer' = [user |-> u, last |-> last, login |-> n]
  BY <1>4 DEF LoginSave, Answer
<1>6. /\ s \in Nat /\ s <= now
      /\ last # None =>
           \E i \in 1..Len(histories) : histories[i] = [user |-> u, at |-> last]
  BY <1>1, <1>4, ConstantFacts DEF Invariant, InFlight
<1>7. \A v, k, x : OnRecord(v, k, x) => OnRecord(v, k, x)'
  BY <1>2 DEF OnRecord
<1>8. OnRecord(u, n, s)'
  <2>1. histories'[n] = [user |-> u, at |-> now]
    BY <1>2, <1>4 DEF Row
  <2> QED BY <1>2, <1>4, <1>6, <2>1 DEF OnRecord
<1>9. /\ a \in Tokens /\ a.user = u /\ a.login = n /\ a.since = s
      /\ a.kind = "access" /\ a.exp = s + AccessTtl
      /\ b \in Tokens /\ b.user = u /\ b.login = n /\ b.since = s
      /\ b.kind = "refresh" /\ b.exp = s + RefreshTtl
  BY <1>6, ConstantFacts DEF Token, Tokens, Purposes
<1> HIDE DEF a, b
<1>10. TypeOK'
  <2>1. answer' \in Answers
    BY <1>5 DEF Answers
  <2>2. req' \in [Requests -> Logins]
    BY <1>1, IdleIsLogin
  <2> QED BY <1>1, <1>2, <1>5, <1>9, <2>1, <2>2 DEF Invariant, TypeOK
<1>11. Signed'
  <2>1. n # 0
    OBVIOUS
  <2>2. ASSUME NEW t \in {a, b} PROVE Traced(t)' /\ Bounded(t)
    BY <1>6, <1>8, <1>9, <2>1, ConstantFacts DEF Traced, Bounded
  <2> QED BY <1>1, <1>5, <1>7, <2>2, SignedStep DEF Invariant, Kept
<1>12. InFlight'
  BY <1>1, <1>2, InFlightKept
<1>13. LastLoginIsPast'
  BY <1>2, <1>4, <1>5, <1>6 DEF LastLoginIsPast
<1> QED BY <1>2, <1>10, <1>11, <1>12, <1>13 DEF Invariant

LEMMA LoginFailsHolds ==
  ASSUME Invariant, NEW r \in Requests, LoginFails(r)
  PROVE  Invariant'
<1>1. /\ req[r].pc = "save"
      /\ req' = [req EXCEPT ![r] = Idle]
      /\ answer' = None
      /\ UNCHANGED <<secret, replicated, locked, submitted, tokens, now, mailed>>
  BY DEF LoginFails
<1>2. /\ histories' \in Seq([user : Users, at : Times])
      /\ Len(histories) \in Nat /\ Len(histories') \in Nat
      /\ \A i \in 1..Len(histories) : i \in 1..Len(histories') /\ histories'[i] = histories[i]
      /\ replicated' <= Len(histories')
  <2>1. CASE UNCHANGED histories
    BY <1>1, <2>1 DEF Invariant, TypeOK
  <2>2. CASE histories' = Append(histories, Row(r))
    <3>1. /\ histories' \in Seq([user : Users, at : Times])
          /\ Len(histories) \in Nat /\ Len(histories') = Len(histories) + 1
          /\ \A i \in 1..Len(histories) : i \in 1..Len(histories') /\ histories'[i] = histories[i]
          /\ replicated' <= Len(histories')
      BY <1>1, <2>2, RowAppended
    <3> QED BY <3>1
  <2> QED BY <2>1, <2>2 DEF LoginFails
<1>3. \A v, k, x : OnRecord(v, k, x) => OnRecord(v, k, x)'
  BY <1>2 DEF OnRecord
<1>4. TypeOK'
  BY <1>1, <1>2, IdleIsLogin DEF Invariant, TypeOK
<1>5. Signed'
  BY <1>1, <1>3, SignedStep DEF Invariant, Kept
<1>6. InFlight'
  BY <1>1, <1>2, InFlightKept
<1>7. LastLoginIsPast'
  BY <1>1 DEF LastLoginIsPast
<1> QED BY <1>2, <1>4, <1>5, <1>6, <1>7 DEF Invariant

(* A renewal: only where secrets are shared is it made from anything but a  *)
(* refresh token.                                                           *)
LEMMA GetAccessTokenHolds ==
  ASSUME Invariant, NEW t \in tokens, GetAccessToken(t)
  PROVE  Invariant'
<1>0. PICK new : new = Token("access", t.user, now + AccessTtl, t.login, t.since)
  OBVIOUS
<1>1. /\ now < t.exp /\ secret[t.kind] = secret["refresh"]
      /\ tokens' = tokens \cup {new} /\ answer' = None
      /\ UNCHANGED <<secret, histories, replicated, locked, submitted, req, now,
                     mailed>>
  BY <1>0 DEF GetAccessToken, Passes
<1>2. t \in Tokens /\ now \in Nat /\ t.exp \in Nat /\ t.since \in Nat
      /\ t.kind \in Purposes
  BY ConstantFacts DEF Invariant, TypeOK, Tokens
<1>3. Traced(t) /\ Bounded(t)
  BY DEF Invariant, Signed
<1>4. new \in Tokens /\ new.user = t.user /\ new.login = t.login
      /\ new.since = t.since /\ new.exp = now + AccessTtl /\ new.kind = "access"
  BY <1>0, <1>2, ConstantFacts DEF Token, Tokens, Purposes
<1>5. RefreshApart => t.kind = "refresh"
  BY <1>1, <1>2 DEF RefreshApart, Purposes
<1>6. Bounded(new)
  BY <1>1, <1>2, <1>3, <1>4, <1>5, ConstantFacts DEF Bounded
<1>7. Traced(new)
  <2>1. CASE t.login # 0
    BY <1>3, <1>4, <2>1 DEF Traced
  <2>2. CASE t.login = 0
    <3>1. t.user \in mailed /\ t.kind \in {"verify", "access"}
      BY <1>2, <1>3, <2>2 DEF Traced, Purposes
    <3>2. LinksShared
      BY <1>1, <1>3, <2>2, <3>1 DEF Traced, LinksShared
    <3>3. ~RefreshApart
      BY <1>5, <3>1
    <3> QED BY <1>4, <2>2, <3>1, <3>2, <3>3 DEF Traced
  <2> QED BY <2>1, <2>2
<1>8. TypeOK' /\ InFlight' /\ LastLoginIsPast' /\ (replicated <= Len(histories))'
  BY <1>1, <1>4 DEF Invariant, TypeOK, InFlight, LastLoginIsPast
<1>9. Signed'
  <2>1. Kept
    BY <1>1 DEF Kept, OnRecord
  <2>2. Traced(new)'
    BY <1>7, <2>1, TraceStays
  <2> QED BY <1>1, <1>6, <2>1, <2>2, SignedStep DEF Invariant
<1> QED BY <1>8, <1>9 DEF Invariant

LEMMA SendLinkHolds ==
  ASSUME Invariant, NEW u \in Users, SendLink(u)
  PROVE  Invariant'
<1>0. PICK new : new = Token("verify", u, now + LinkTtl, 0, now)
  OBVIOUS
<1>1. /\ tokens' = tokens \cup {new} /\ mailed' = mailed \cup {u} /\ answer' = None
      /\ UNCHANGED <<secret, histories, replicated, locked, submitted, req, now>>
  BY <1>0 DEF SendLink
<1>2. new \in Tokens /\ new.user = u /\ new.login = 0 /\ new.since = now
      /\ new.exp = now + LinkTtl /\ new.kind = "verify" /\ now \in Nat
  BY <1>0, ConstantFacts DEF Invariant, TypeOK, Token, Tokens, Purposes
<1>3. TypeOK' /\ InFlight' /\ LastLoginIsPast' /\ (replicated <= Len(histories))'
  BY <1>1, <1>2 DEF Invariant, TypeOK, InFlight, LastLoginIsPast
<1>4. Traced(new)' /\ Bounded(new)
  BY <1>1, <1>2, ConstantFacts DEF Traced, Bounded
<1>5. Kept
  BY <1>1 DEF Kept, OnRecord
<1>6. Signed'
  BY <1>1, <1>4, <1>5, SignedStep DEF Invariant
<1> QED BY <1>3, <1>6 DEF Invariant

LEMMA TickHolds ==
  ASSUME Invariant, Tick
  PROVE  Invariant'
<1>1. /\ now < MaxTime /\ now' = now + 1 /\ tokens' \subseteq tokens /\ answer' = None
      /\ UNCHANGED <<secret, histories, replicated, locked, submitted, req, mailed>>
  BY DEF Tick
<1>2. now \in Nat /\ now' \in Times /\ now <= now'
  BY <1>1, ConstantFacts DEF Invariant, TypeOK, Times
<1>3. TypeOK' /\ LastLoginIsPast' /\ (replicated <= Len(histories))'
  BY <1>1, <1>2 DEF Invariant, TypeOK, LastLoginIsPast
<1>4. Signed'
  BY <1>1, SignedStays DEF Invariant
<1>5. InFlight'
  <2>1. ASSUME NEW r \in Requests, req[r].since <= now PROVE req[r].since <= now'
    <3>1. req[r].since \in Nat
      BY ConstantFacts DEF Invariant, TypeOK, Logins
    <3> QED BY <1>1, <1>2, <2>1, <3>1
  <2> QED BY <1>1, <2>1 DEF Invariant, InFlight
<1> QED BY <1>3, <1>4, <1>5 DEF Invariant

(* The steps that touch no token and no login.                              *)
LEMMA OtherHolds ==
  ASSUME Invariant,
         UNCHANGED <<secret, histories, locked, req, tokens, now, mailed>>,
         answer' \in {answer, None}, submitted' \subseteq submitted,
         replicated' \in Nat, replicated' <= Len(histories)
  PROVE  Invariant'
<1>1. TypeOK'
  BY DEF Invariant, TypeOK
<1>2. InFlight'
  BY DEF Invariant, InFlight
<1>3. LastLoginIsPast'
  <2>1. CASE answer' = None
    BY <2>1 DEF LastLoginIsPast
  <2>2. CASE answer' = answer
    BY <2>2 DEF Invariant, LastLoginIsPast
  <2> QED BY <2>1, <2>2
<1>4. Signed'
  BY SignedStays DEF Invariant
<1> QED BY <1>1, <1>2, <1>3, <1>4 DEF Invariant

LEMMA NextHolds == Invariant /\ [Next]_vars => Invariant'
<1> SUFFICES ASSUME Invariant, [Next]_vars PROVE Invariant'
  OBVIOUS
<1>1. replicated \in Nat /\ replicated <= Len(histories) /\ Len(histories) \in Nat
  BY DEF Invariant, TypeOK
<1>2. CASE UNCHANGED vars
  BY <1>1, <1>2, OtherHolds DEF vars
<1>3. ASSUME NEW t \in tokens, VerifyEmail(t) PROVE Invariant'
  BY <1>1, <1>3, OtherHolds DEF VerifyEmail
<1>4. ASSUME CatchUp PROVE Invariant'
  BY <1>1, <1>4, OtherHolds DEF CatchUp
<1> QED BY <1>2, <1>3, <1>4, LoginReadHolds, LoginSaveHolds, LoginFailsHolds,
           GetAccessTokenHolds, SendLinkHolds, TickHolds DEF Next

-----------------------------------------------------------------------------
(* Everything below holds in every reachable state of Sessions, whichever   *)
(* purposes share a secret.                                                 *)
THEOREM SessionInvariantHolds == Spec => []Invariant
<1> QED BY InitHolds, NextHolds, PTL DEF Spec

(* With a refresh secret of its own no number of renewals carries a login   *)
(* beyond the life of one refresh token and one access token, and no link   *)
(* beyond its own (auth.service.ts:154).                                    *)
THEOREM SessionsEnd == Spec => []SessionEnds
<1>1. Invariant => SessionEnds
  <2> SUFFICES ASSUME Invariant, RefreshApart, NEW t \in tokens, Validate(t)
               PROVE  now < t.since + IF t.login = 0 THEN LinkTtl
                                      ELSE RefreshTtl + AccessTtl
    BY DEF SessionEnds
  <2>1. t.kind \in Purposes /\ t.kind # "refresh" /\ now < t.exp
    BY DEF Invariant, TypeOK, Tokens, Validate, Passes, RefreshApart
  <2>2. Traced(t) /\ Bounded(t)
    BY DEF Invariant, Signed
  <2>3. now \in Nat /\ t.exp \in Nat /\ t.since \in Nat
    BY ConstantFacts DEF Invariant, TypeOK, Tokens
  <2>4. CASE t.login = 0
    BY <2>1, <2>2, <2>3, <2>4, ConstantFacts DEF Traced, Bounded, Purposes
  <2>5. CASE t.login # 0
    BY <2>1, <2>2, <2>3, <2>5, ConstantFacts DEF Traced, Bounded, Purposes
  <2> QED BY <2>4, <2>5
<1> QED BY <1>1, SessionInvariantHolds, PTL

(* Whoever is let through is on record in login_histories, or was mailed a  *)
(* link that shares its secret.                                             *)
THEOREM SessionsOnRecord == Spec => []SessionOnRecord
<1>1. Invariant => SessionOnRecord
  <2> SUFFICES ASSUME Invariant, NEW t \in tokens, Validate(t), t.login = 0
               PROVE  t.user \in mailed /\ LinksShared
    BY DEF Invariant, Signed, Traced, SessionOnRecord
  <2>1. Traced(t) /\ t.kind \in Purposes /\ secret[t.kind] = secret["access"]
    BY DEF Invariant, Signed, TypeOK, Tokens, Validate, Passes
  <2> QED BY <2>1 DEF Traced, Purposes, LinksShared
<1> QED BY <1>1, SessionInvariantHolds, PTL

(* The last_login answered is an earlier row of the same user.              *)
THEOREM LastLoginsArePast == Spec => []LastLoginIsPast
<1>1. Invariant => LastLoginIsPast
  BY DEF Invariant
<1> QED BY <1>1, SessionInvariantHolds, PTL
=============================================================================
