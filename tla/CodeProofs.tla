----------------------------- MODULE CodeProofs -----------------------------
(***************************************************************************)
(* No save but that of verifyEmail writes a used reset code back, however  *)
(* far the replica that requests read lags, and although a save may insert *)
(* a removed account again.  The invariant follows a code from the request *)
(* that drew it to the one that uses it: a code drawn once is either on    *)
(* its way, or stored, or being used by requests whose UPDATE will clear   *)
(* it unless it is already cleared.                                        *)
(*                                                                         *)
(* A reset finds its account again by e-mail address.  It finds the right  *)
(* one, and no password lands in the account of another, as long as the    *)
(* address of a removed account is not registered again.                   *)
(***************************************************************************)
EXTENDS AccountProofs

(* An e-mail address is never registered again after its account was        *)
(* removed.                                                                 *)
AddressesStay ==
  "remove" \notin Operations \/ Operations \cap {"create", "register"} = {}

(* A request that has no code of its own.                                   *)
Codeless(q) ==
  /\ ~Drawn(q)
  /\ ~Using(q)
  /\ ~(q.op \in {"reset", "change"} /\ q.pc \in {"save", "write", "restore"})

LEMMA CodelessIsSafe ==
  ASSUME NEW q, Codeless(q)
  PROVE  \A t, f : CodeOf(q, t, f)
  BY DEF Codeless, CodeOf

LEMMA IdleIsCodeless == Codeless(Idle)
  BY DEF Codeless, Idle, Drawn, Using

(* What the replica shows stays safe when it does not move, or shows the    *)
(* table of the next state: nobody takes a code it shows, unless it is      *)
(* drawn again.                                                             *)
LEMMA ReportFollows ==
  ASSUME ReportSafe, StoredCodeIsLive',
         \A s \in Requests : CodeOf(req'[s], master', fate'),
         report' = report \/ report' = master',
         \A u \in Users, c \in Codes :
           /\ fate[u][c] # "new" => fate'[u][c] # "new"
           /\ fate[u][c] \in Loose => fate'[u][c] \in Loose,
         \A s \in Requests : Drawn(req'[s]) =>
           /\ req'[s].user \in Users /\ req'[s].code \in Codes
           /\ \/ /\ Drawn(req[s]) /\ req'[s].user = req[s].user
                 /\ req'[s].code = req[s].code
              \/ ~Stored(report, req'[s].user, req'[s].code)
              \/ fate'[req'[s].user][req'[s].code] \in Loose
  PROVE  ReportSafe'
<1>1. CASE report' = report
  <2>1. \A u \in Users : \A c \in Codes : Stored(report', u, c) <=> Stored(report, u, c)
    BY <1>1
  <2>2. \A u \in Users : \A c \in Codes : Stored(report', u, c) => fate'[u][c] # "new"
    BY <2>1 DEF ReportSafe
  <2>3. ASSUME NEW s \in Requests, NEW u \in Users, NEW c \in Codes,
               Drawn(req'[s]), req'[s].user = u, req'[s].code = c, Stored(report', u, c)
        PROVE  fate'[u][c] \in Loose
    BY <2>1, <2>3 DEF ReportSafe
  <2> QED BY <2>2, <2>3 DEF ReportSafe, Stored
<1>2. CASE report' = master'
  <2>1. \A u \in Users : \A c \in Codes : Stored(report', u, c) => fate'[u][c] # "new"
    BY <1>2 DEF Stored, StoredCodeIsLive, Loose
  <2>2. ASSUME NEW s \in Requests, NEW u \in Users, NEW c \in Codes,
               Drawn(req'[s]), req'[s].user = u, req'[s].code = c, Stored(report', u, c)
        PROVE  fate'[u][c] \in Loose
    BY <1>2, <2>2 DEF Stored, CodeOf
  <2> QED BY <2>1, <2>2 DEF ReportSafe, Stored
<1> QED BY <1>1, <1>2

(* What the replica shows of an account that has the address of a reset is  *)
(* the account that the code was accepted for.                              *)
LEMMA SameAccount ==
  ASSUME Invariant, Steady, NEW r \in Requests, NEW u \in Users,
         req[r].pc = "reload", report[u] # None, report[u].email = req[r].email
  PROVE  u = req[r].user
<1>1. req[r].user \in Users /\ req[r].email \in Emails
  BY DEF Invariant, Shape, ShapeOf, TypeOK, Request
<1>2. CASE removed = {}
  <2>1. AgreementOf(req[r], master, removed)
    BY DEF Invariant, Agreement
  <2>2. master[req[r].user] # None /\ master[req[r].user].email = req[r].email
    BY <1>2, <2>1 DEF AgreementOf
  <2>3. master[u] # None /\ master[u].email = req[r].email
    BY <1>2 DEF Invariant, Agreement, SameIdentity, Identity
  <2>4. UniqueIndexes(master) /\ req[r].email # None
    BY <1>1, TableConstants DEF Invariant, Agreement
  <2> QED BY <1>1, <2>2, <2>3, <2>4 DEF UniqueIndexes
<1>3. CASE Settled
  <2>1. HasEmail(req[r].user, req[r].email)
    BY DEF HasEmail, CarriesEmail
  <2>2. HasEmail(u, req[r].email)
    BY DEF HasEmail, RowHas
  <2> QED BY <1>1, <1>3, <2>1, <2>2 DEF Settled
<1> QED BY <1>2, <1>3 DEF Steady

LEMMA CarriesCode ==
  ASSUME Shape, NEW s \in Requests, Drawn(req[s]) \/ Using(req[s])
  PROVE  req[s].user \in Users /\ req[s].code \in Codes
  BY DEF Shape, ShapeOf, Drawn, Using

LEMMA CodeIsNumber == None \notin Codes /\ 0 \notin Codes
  BY TableConstants

(* A step of a request that reads: what it carries on it had before.        *)
LEMMA CodesRead ==
  ASSUME TypeOK, CodesTraced, NEW r \in Requests, NEW q,
         req' = [req EXCEPT ![r] = q],
         UNCHANGED <<master, fate>>, report' = report \/ report' = master',
         CodeOf(q, master, fate),
         Drawn(q) => Drawn(req[r]) /\ q.user = req[r].user /\ q.code = req[r].code,
         Using(q) => Using(req[r]) /\ q.user = req[r].user /\ q.code = req[r].code
  PROVE  CodesTraced'
<1>1. req'[r] = q /\ \A s \in Requests : s # r => req'[s] = req[s]
  BY DEF TypeOK
<1>2. \A s \in Requests : CodeOf(req'[s], master, fate)
  BY <1>1 DEF CodesTraced
<1>3. InOneHand'
  BY <1>1 DEF CodesTraced, InOneHand
<1>4. StoredCodeIsLive'
  BY DEF CodesTraced, StoredCodeIsLive
<1>5. ReportSafe'
  <2>1. CASE report' = report
    BY <1>1, <2>1 DEF CodesTraced, ReportSafe, Stored
  <2>2. CASE report' = master'
    BY <1>2, <2>2 DEF CodesTraced, ReportSafe, Stored, CodeOf, StoredCodeIsLive
  <2> QED BY <2>1, <2>2
<1> QED BY <1>2, <1>3, <1>4, <1>5 DEF CodesTraced

(* A request that drops what it carried.                                    *)
LEMMA CodesDropped ==
  ASSUME TypeOK, CodesTraced, NEW r \in Requests, NEW q,
         req' = [req EXCEPT ![r] = q], Codeless(q),
         UNCHANGED <<master, fate>>, report' = report \/ report' = master'
  PROVE  CodesTraced'
<1>1. CodeOf(q, master, fate)
  BY CodelessIsSafe
<1>2. ~Drawn(q) /\ ~Using(q)
  BY DEF Codeless
<1> QED BY <1>1, <1>2, CodesRead

LEMMA EndDropsCode ==
  ASSUME TypeOK, CodesTraced, NEW r \in Requests, End(r),
         UNCHANGED <<master, report, fate>>
  PROVE  CodesTraced'
  BY IdleIsCodeless, CodesDropped DEF End

LEMMA StartHasNoCode ==
  ASSUME TypeOK, CodesTraced, NEW r \in Requests,
         NEW op, NEW pc, NEW u, NEW row,
         Start(r, op, pc, u, row), op = "verify" \/
           pc \notin {"reload", "save", "write", "restore"},
         UNCHANGED <<master, report, fate>>
  PROVE  CodesTraced'
<1> DEFINE q == [Idle EXCEPT !.op = op, !.pc = pc, !.user = u, !.row = row]
<1>1. q.pc = pc /\ q.op = op /\ q.row = row
  BY DEF Idle
<1>2. req' = [req EXCEPT ![r] = q]
  BY DEF Start
<1> HIDE DEF q
<1>3. ~Drawn(q) /\ ~Using(q)
  BY <1>1 DEF Drawn, Using
<1>4. CodeOf(q, master, fate)
  BY <1>1, <1>3 DEF CodeOf
<1> QED BY <1>2, <1>3, <1>4, CodesRead

(* The steps that start or end a request, or prepare the UPDATE of one      *)
(* column.                                                                  *)
LEMMA LightStepKeepsCodes ==
  ASSUME TypeOK, Shape, CodesTraced, NEW r \in Requests,
         \/ CreateCheck(r) \/ Register(r) \/ ChangeGuard(r) \/ ResendRead(r)
         \/ VerifyRead(r) \/ ConfirmRead(r) \/ Mail(r) \/ Fail(r)
  PROVE  CodesTraced'
<1>1. CASE Mail(r) \/ Fail(r)
  BY <1>1, EndDropsCode DEF Mail, Fail, tables, history
<1>2. CASE CreateCheck(r) \/ Register(r)
  <2>1. UNCHANGED <<master, report, fate>>
    BY <1>2 DEF CreateCheck, Register, tables, history
  <2>2. \E op, row : Start(r, op, "insert", None, row)
    BY <1>2 DEF CreateCheck, Register
  <2> QED BY <2>1, <2>2, StartHasNoCode
<1>3. CASE ChangeGuard(r) \/ ResendRead(r) \/ ConfirmRead(r) \/ VerifyRead(r)
  <2>1. UNCHANGED <<master, report, fate>>
    BY <1>3 DEF ChangeGuard, ResendRead, ConfirmRead, VerifyRead, tables, history
  <2>2. \E u : \/ Start(r, "change", "compare", u, None)
               \/ Start(r, "resend", "mail", u, None)
               \/ Start(r, "confirm", "forget", u, None)
               \/ \E row : Start(r, "verify", "save", u, row)
    BY <1>3 DEF ChangeGuard, ResendRead, ConfirmRead, VerifyRead
  <2> QED BY <2>1, <2>2, StartHasNoCode
<1> QED BY <1>1, <1>2, <1>3

LEMMA ColumnStepKeepsCodes ==
  ASSUME TypeOK, Shape, CodesTraced, NEW r \in Requests,
         \/ ConfirmForget(r) \/ StatusRead(r)
         \/ LockRead(r, "lock", Locked) \/ LockRead(r, "unlock", Unlocked)
  PROVE  CodesTraced'
<1>1. UNCHANGED <<master, report, fate>>
  BY DEF ConfirmForget, StatusRead, LockRead, tables, history
<1>2. CASE ConfirmForget(r)
  <2> DEFINE q == [req[r] EXCEPT !.pc = "write", !.cols = {"status"},
                     !.row = [BlankRow(None, None) EXCEPT !.status = Active]]
  <2>1. req[r].op = "confirm" /\ req[r] \in Request
    BY <1>2 DEF ConfirmForget, At, Shape, ShapeOf, TypeOK
  <2>2. Codeless(q)
    BY <2>1 DEF Codeless, Drawn, Using, Request
  <2>3. req' = [req EXCEPT ![r] = q]
    BY <1>2 DEF ConfirmForget, TypeOK
  <2> HIDE DEF q
  <2> QED BY <1>1, <2>2, <2>3, CodesDropped
<1>3. CASE \/ StatusRead(r) \/ LockRead(r, "lock", Locked)
           \/ LockRead(r, "unlock", Unlocked)
  <2>0. PICK op \in {"status", "lock", "unlock"} : \E u, cols, row :
          req' = [req EXCEPT ![r] =
            [Idle EXCEPT !.op = op, !.pc = "write", !.user = u, !.cols = cols,
                         !.row = row]]
    BY <1>3 DEF StatusRead, LockRead
  <2>1. PICK u, cols, row :
          req' = [req EXCEPT ![r] =
            [Idle EXCEPT !.op = op, !.pc = "write", !.user = u, !.cols = cols,
                         !.row = row]]
    BY <2>0
  <2> DEFINE q == [Idle EXCEPT !.op = op, !.pc = "write", !.user = u, !.cols = cols,
                               !.row = row]
  <2>2. Codeless(q)
    BY DEF Codeless, Idle, Drawn, Using
  <2>3. req' = [req EXCEPT ![r] = q]
    BY <2>1
  <2> HIDE DEF q
  <2> QED BY <1>1, <2>2, <2>3, CodesDropped
<1> QED BY <1>2, <1>3

-----------------------------------------------------------------------------
(* The steps that read an account and take a copy of it.                    *)
LEMMA ForgotReadKeepsCodes ==
  ASSUME Invariant, CodesTraced, NEW r \in Requests, ForgotRead(r)
  PROVE  CodesTraced'
<1> USE DEF Invariant
<1>1. PICK u \in Users, c \in Codes :
        /\ Admits(report[u], Active)
        /\ req' = [req EXCEPT ![r] =
             [Idle EXCEPT !.op = "forgot", !.pc = "save", !.user = u, !.code = c,
                !.row = [report[u] EXCEPT !.tokenResetPassword = c,
                                          !.expire = now + ResetTtl]]]
        /\ fate' = [fate EXCEPT ![u][c] = IF @ = "new" THEN "issued" ELSE "redrawn"]
  BY DEF ForgotRead
<1> DEFINE row == [report[u] EXCEPT !.tokenResetPassword = c,
                                    !.expire = now + ResetTtl]
           q == [Idle EXCEPT !.op = "forgot", !.pc = "save", !.user = u, !.code = c,
                             !.row = row]
<1>2. UNCHANGED <<master, report>>
  BY DEF ForgotRead, tables
<1>3. row.tokenResetPassword = c
  <2>1. report[u] \in Rows
    BY <1>1 DEF Admits, TypeOK, Tables
  <2> QED BY <2>1 DEF Rows
<1> HIDE DEF row
<1>4. /\ q.op = "forgot" /\ q.pc = "save" /\ q.user = u /\ q.code = c
      /\ q.row.tokenResetPassword = c
  BY <1>3 DEF Idle
<1>5. req' = [req EXCEPT ![r] = q]
  BY <1>1 DEF row
<1> HIDE DEF q
<1>6. req'[r] = q /\ \A s \in Requests : s # r => req'[s] = req[s]
  BY <1>5 DEF TypeOK
<1>7. /\ fate'[u][c] = IF fate[u][c] = "new" THEN "issued" ELSE "redrawn"
      /\ \A v \in Users, d \in Codes :
           v # u \/ d # c => fate'[v][d] = fate[v][d]
  BY <1>1 DEF TypeOK, Numbers
<1>8. ASSUME NEW s \in Requests
      PROVE  /\ Drawn(req[s]) \/ Using(req[s])
                  => req[s].user \in Users /\ req[s].code \in Codes
             /\ Drawn(req[s]) \/ Using(req[s])
                  => fate[req[s].user][req[s].code] # "new"
  <2>1. Drawn(req[s]) \/ Using(req[s])
          => req[s].user \in Users /\ req[s].code \in Codes
    BY DEF Shape, ShapeOf, Drawn, Using
  <2>2. CodeOf(req[s], master, fate)
    BY DEF CodesTraced
  <2> QED BY <2>1, <2>2 DEF CodeOf, Loose
<1>9. Stored(master, u, c) => fate[u][c] # "new"
  BY DEF CodesTraced, StoredCodeIsLive, Stored
<1>11. ASSUME NEW s \in Requests
       PROVE  CodeOf(req'[s], master, fate')
  <2>1. CASE s = r
    <3>1. Drawn(q) /\ ~Using(q)
      BY <1>4 DEF Drawn, Using
    <3>2. CodeOf(q, master, fate')
      BY <1>4, <1>7, <1>9, <3>1 DEF CodeOf, Loose
    <3> QED BY <2>1, <3>2, <1>6
  <2>2. CASE s # r
    <3>1. CodeOf(req[s], master, fate)
      BY DEF CodesTraced
    <3>2. Drawn(req[s]) \/ Using(req[s]) =>
            \/ fate'[req[s].user][req[s].code] = fate[req[s].user][req[s].code]
            \/ fate'[req[s].user][req[s].code] \in Loose
      BY <1>7, <1>8 DEF Loose
    <3>3. CodeOf(req[s], master, fate')
      BY <3>1, <3>2 DEF CodeOf, Loose
    <3> QED BY <2>2, <3>3, <1>6
  <2> QED BY <2>1, <2>2
<1>12. ASSUME NEW s \in Requests, NEW t \in Requests, s # t, Drawn(req'[s]),
              Drawn(req'[t]) \/ Using(req'[t]),
              req'[s].user = req'[t].user, req'[s].code = req'[t].code
       PROVE  fate'[req'[s].user][req'[s].code] \in Loose
  <2>1. CASE s = r
    BY <2>1, <1>4, <1>6, <1>7, <1>8, <1>12 DEF Loose
  <2>2. CASE t = r
    BY <2>2, <1>4, <1>6, <1>7, <1>8, <1>12 DEF Loose
  <2>3. CASE s # r /\ t # r
    <3>1. fate[req[s].user][req[s].code] \in Loose
      BY <2>3, <1>6, <1>12 DEF CodesTraced, InOneHand
    <3> QED BY <2>3, <3>1, <1>6, <1>7, <1>8, <1>12 DEF Loose
  <2> QED BY <2>1, <2>2, <2>3
<1>13. InOneHand'
  BY <1>12 DEF InOneHand
<1>14. StoredCodeIsLive'
  BY <1>2, <1>7 DEF CodesTraced, StoredCodeIsLive
<1>15. ReportSafe'
  <2>1. \A v \in Users, d \in Codes :
          /\ fate[v][d] # "new" => fate'[v][d] # "new"
          /\ fate[v][d] \in Loose => fate'[v][d] \in Loose
    BY <1>7 DEF Loose
  <2>2. ASSUME NEW s \in Requests, Drawn(req'[s])
        PROVE  /\ req'[s].user \in Users /\ req'[s].code \in Codes
               /\ \/ /\ Drawn(req[s]) /\ req'[s].user = req[s].user
                     /\ req'[s].code = req[s].code
                  \/ ~Stored(report, req'[s].user, req'[s].code)
                  \/ fate'[req'[s].user][req'[s].code] \in Loose
    <3>1. CASE s # r
      BY <3>1, <2>2, <1>6, <1>8
    <3>2. CASE s = r
      <4>1. Stored(report, u, c) => fate'[u][c] \in Loose
        BY <1>7 DEF CodesTraced, ReportSafe, Loose
      <4> QED BY <3>2, <4>1, <1>4, <1>6
    <3> QED BY <3>1, <3>2
  <2>3. ReportSafe
    BY DEF CodesTraced
  <2>4. \A s \in Requests : CodeOf(req'[s], master', fate')
    BY <1>2, <1>11
  <2> QED BY <1>2, <1>14, <2>1, <2>2, <2>3, <2>4, ReportFollows
<1> QED BY <1>2, <1>11, <1>13, <1>14, <1>15 DEF CodesTraced

LEMMA ResetCheckKeepsCodes ==
  ASSUME Invariant, CodesTraced, NEW r \in Requests, ResetCheck(r)
  PROVE  CodesTraced'
<1> USE DEF Invariant
<1>1. PICK u \in Users, c \in Numbers, p \in Passwords :
        /\ CodeAccepted(report[u], c, now)
        /\ req' = [req EXCEPT ![r] =
             [Idle EXCEPT !.op = "reset", !.pc = "reload", !.user = u, !.code = c,
                !.email = report[u].email, !.password = p]]
        /\ fate' = IF c = 0 /\ fate[u][0] = "new"
                   THEN [fate EXCEPT ![u][0] = "spent"] ELSE fate
  BY DEF ResetCheck
<1> DEFINE q == [Idle EXCEPT !.op = "reset", !.pc = "reload", !.user = u, !.code = c,
                             !.email = report[u].email, !.password = p]
<1>2. UNCHANGED <<master, report>>
  BY DEF ResetCheck, tables
<1>3. q.op = "reset" /\ q.pc = "reload" /\ q.user = u /\ q.code = c
  BY DEF Idle
<1>4. req' = [req EXCEPT ![r] = q]
  BY <1>1
<1> HIDE DEF q
<1>5. req'[r] = q /\ \A s \in Requests : s # r => req'[s] = req[s]
  BY <1>4 DEF TypeOK
<1>6. c \in Codes => Stored(report, u, c)
  BY <1>1, CodeIsNumber DEF CodeAccepted, Admits, JsNumber, Stored
<1>7. c \in Codes => fate[u][c] # "new"
  BY <1>6 DEF CodesTraced, ReportSafe
<1>8. CodeOf(q, master, fate)
  BY <1>3, <1>7 DEF CodeOf, Drawn, Using
<1>9. ASSUME NEW v \in Users, NEW d \in Codes
      PROVE  fate'[v][d] = fate[v][d]
  <2>1. d # 0
    BY CodeIsNumber
  <2> QED BY <1>1, <2>1 DEF TypeOK
<1>10. ASSUME NEW s \in Requests
       PROVE  /\ CodeOf(req'[s], master, fate)
              /\ Drawn(req'[s]) \/ Using(req'[s]) =>
                   req'[s].user \in Users /\ req'[s].code \in Codes
  <2>1. CASE s = r
    <3>1. Using(q) => c \in Codes
      BY <1>3 DEF Using
    <3> QED BY <1>3, <1>5, <1>8, <2>1, <3>1 DEF Drawn
  <2>2. CASE s # r
    BY <1>5, <2>2, CarriesCode DEF CodesTraced
  <2> QED BY <2>1, <2>2
<1>11. \A s \in Requests : CodeOf(req'[s], master, fate')
  BY <1>9, <1>10 DEF CodeOf
<1>12. ASSUME NEW s \in Requests, NEW t \in Requests, s # t, Drawn(req'[s]),
              Drawn(req'[t]) \/ Using(req'[t]),
              req'[s].user = req'[t].user, req'[s].code = req'[t].code
       PROVE  fate'[req'[s].user][req'[s].code] \in Loose
  <2>1. s # r
    BY <1>3, <1>5, <1>12 DEF Drawn
  <2>2. fate[req'[s].user][req'[s].code] \in Loose
    <3>1. CASE t = r
      <4>1. req[s].user = u /\ req[s].code = c /\ Drawn(req[s]) /\ c \in Codes
        BY <2>1, <3>1, <1>3, <1>5, <1>12 DEF Drawn, Using
      <4> QED BY <2>1, <4>1, <1>5, <1>6 DEF CodesTraced, ReportSafe
    <3>2. CASE t # r
      BY <2>1, <3>2, <1>5, <1>12 DEF CodesTraced, InOneHand
    <3> QED BY <3>1, <3>2
  <2> QED BY <1>9, <1>10, <1>12, <2>2
<1>13. InOneHand'
  BY <1>12 DEF InOneHand
<1>14. StoredCodeIsLive'
  BY <1>2, <1>9 DEF CodesTraced, StoredCodeIsLive
<1>15. ReportSafe'
  <2>1. ~Drawn(q)
    BY <1>3 DEF Drawn
  <2>2. \A v \in Users : \A d \in Codes : Stored(report', v, d) => fate'[v][d] # "new"
    BY <1>2, <1>9 DEF CodesTraced, ReportSafe
  <2>3. ASSUME NEW s \in Requests, Drawn(req'[s]),
               Stored(report', req'[s].user, req'[s].code)
        PROVE  fate'[req'[s].user][req'[s].code] \in Loose
    <3>1. req'[s] = req[s] /\ fate[req[s].user][req[s].code] \in Loose
      BY <1>2, <1>5, <2>1, <2>3 DEF CodesTraced, ReportSafe
    <3> QED BY <1>9, <1>10, <2>3, <3>1
  <2> QED BY <2>2, <2>3 DEF ReportSafe
<1> QED BY <1>2, <1>11, <1>13, <1>14, <1>15 DEF CodesTraced

LEMMA UpdatePasswordKeepsCodes ==
  ASSUME Invariant, Steady, CodesTraced, NEW r \in Requests, UpdatePassword(r)
  PROVE  CodesTraced'
<1> USE DEF Invariant
<1>1. UNCHANGED <<master, report, fate>>
  BY DEF UpdatePassword, tables, history
<1>2. CASE End(r)
  BY <1>1, <1>2, EndDropsCode
<1>3. ASSUME NEW u \in Users, Admits(report[u], Active),
             report[u].email = req[r].email,
             req' = [req EXCEPT ![r].pc = "save", ![r].user = u,
                       ![r].row = [report[u] EXCEPT
                                     !.password = Hash(req[r].password),
                                     !.tokenResetPassword = None]]
      PROVE  CodesTraced'
  <2> DEFINE row == [report[u] EXCEPT !.password = Hash(req[r].password),
                                      !.tokenResetPassword = None]
             q == [req[r] EXCEPT !.pc = "save", !.user = u, !.row = row]
  <2>1. /\ req[r] \in Request /\ req[r].pc = "reload" /\ req[r].op = "reset"
        /\ req[r].user \in Users
    BY DEF UpdatePassword, At, TypeOK, Shape, ShapeOf
  <2>2. report[u] \in Rows
    BY <1>3 DEF Admits, TypeOK, Tables
  <2>3. row.tokenResetPassword = None
    BY <2>2 DEF Rows
  <2>4. u = req[r].user
    BY <1>3, <2>1, SameAccount DEF Admits
  <2> HIDE DEF row
  <2>5. q.op = "reset" /\ q.pc = "save" /\ q.user = req[r].user /\ q.code = req[r].code
        /\ q.row = row
    BY <2>1, <2>4 DEF Request
  <2>6. req' = [req EXCEPT ![r] = q]
    BY <1>3 DEF row, TypeOK
  <2> HIDE DEF q
  <2>7. ~Drawn(q) /\ (Using(q) => Using(req[r]))
    BY <2>1, <2>5 DEF Drawn, Using
  <2>8. CodeOf(req[r], master, fate)
    BY DEF CodesTraced
  <2>9. CodeOf(q, master, fate)
    BY <2>3, <2>5, <2>7, <2>8 DEF CodeOf
  <2> QED BY <1>1, <2>5, <2>6, <2>7, <2>9, CodesRead
<1>4. \/ End(r)
      \/ \E u \in {v \in Users : /\ Admits(report[v], Active)
                               /\ report[v].email = req[r].email} :
           req' = [req EXCEPT ![r].pc = "save", ![r].user = u,
                     ![r].row = [report[u] EXCEPT
                                   !.password = Hash(req[r].password),
                                   !.tokenResetPassword = None]]
  BY DEF UpdatePassword
<1> QED BY <1>2, <1>3, <1>4

LEMMA ChangePasswordKeepsCodes ==
  ASSUME Invariant, CodesTraced, NEW r \in Requests, ChangePassword(r)
  PROVE  CodesTraced'
<1> USE DEF Invariant
<1>1. UNCHANGED <<master, report, fate>>
  BY DEF ChangePassword, tables
<1>2. CASE End(r)
  BY <1>1, <1>2, EndDropsCode
<1>3. ASSUME NEW p \in Passwords, report[req[r].user] # None,
             req' = [req EXCEPT ![r].pc = "save",
                       ![r].row = [report[req[r].user] EXCEPT
                                     !.password = Hash(p),
                                     !.tokenResetPassword = None]]
      PROVE  CodesTraced'
  <2> DEFINE row == [report[req[r].user] EXCEPT !.password = Hash(p),
                                                !.tokenResetPassword = None]
             q == [req[r] EXCEPT !.pc = "save", !.row = row]
  <2>1. req[r] \in Request /\ req[r].op = "change" /\ req[r].user \in Users
    BY DEF ChangePassword, At, TypeOK, Shape, ShapeOf
  <2>2. row.tokenResetPassword = None
    <3>1. report[req[r].user] \in Rows
      BY <1>3, <2>1 DEF TypeOK, Tables
    <3> QED BY <3>1 DEF Rows
  <2> HIDE DEF row
  <2>3. q.op = "change" /\ q.pc = "save" /\ q.row = row
    BY <2>1 DEF Request
  <2>4. req' = [req EXCEPT ![r] = q]
    BY <1>3 DEF row, TypeOK
  <2> HIDE DEF q
  <2>5. ~Drawn(q) /\ ~Using(q)
    BY <2>3 DEF Drawn, Using
  <2>6. CodeOf(q, master, fate)
    BY <2>2, <2>3, <2>5 DEF CodeOf
  <2> QED BY <1>1, <2>4, <2>5, <2>6, CodesRead
<1> QED BY <1>2, <1>3 DEF ChangePassword

LEMMA SaveSelectKeepsCodes ==
  ASSUME Invariant, CodesTraced, NEW r \in Requests, SaveSelect(r)
  PROVE  CodesTraced'
<1> USE DEF Invariant
<1> DEFINE u == req[r].user
<1>1. /\ req[r] \in Request /\ req[r].pc = "save" /\ req[r].op \in Savers
      /\ u \in Users
  BY DEF SaveSelect, At, TypeOK, Shape, ShapeOf
<1>2. CodeOf(req[r], master, fate) /\ UNCHANGED <<master, report, fate>>
  BY DEF CodesTraced, SaveSelect, tables, history
<1>3. CASE master[u] = None
  <2> DEFINE q == [req[r] EXCEPT !.pc = "restore"]
  <2>1. req' = [req EXCEPT ![r] = q]
    BY <1>3 DEF SaveSelect, Continue, TypeOK
  <2>2. /\ q.op = req[r].op /\ q.pc = "restore" /\ q.user = u
        /\ q.code = req[r].code /\ q.row = req[r].row
    BY <1>1 DEF Request
  <2> HIDE DEF q
  <2>3. (Drawn(q) => Drawn(req[r])) /\ ~Using(q)
    BY <1>1, <2>2 DEF Drawn, Using
  <2>4. CodeOf(q, master, fate)
    BY <1>1, <1>2, <2>2, <2>3 DEF CodeOf
  <2> QED BY <1>2, <2>1, <2>2, <2>3, <2>4, CodesRead
<1>4. CASE master[u] # None
  <2> DEFINE cols == Rehashed(req[r].op) \cup
                     (Differing(master[u], req[r].row) \cap EntityColumns(req[r].op))
             q == [req[r] EXCEPT !.pc = "write", !.cols = cols]
  <2>1. req' = [req EXCEPT ![r] = q]
    BY <1>4 DEF SaveSelect, TypeOK
  <2>2. /\ req[r].op = "reset"
        /\ req[r].row.tokenResetPassword # master[u].tokenResetPassword
        => "tokenResetPassword" \in cols
    BY DEF Differing, EntityColumns, Columns
  <2> HIDE DEF cols
  <2>3. /\ q.op = req[r].op /\ q.pc = "write" /\ q.user = u
        /\ q.code = req[r].code /\ q.row = req[r].row /\ q.cols = cols
    BY <1>1 DEF Request
  <2> HIDE DEF q
  <2>4. (Drawn(q) => Drawn(req[r])) /\ (Using(q) => Using(req[r]))
    BY <1>1, <2>3 DEF Drawn, Using
  <2>5. Using(q) =>
          \/ "tokenResetPassword" \in q.cols
          \/ ~Stored(master, q.user, q.code)
    <3> SUFFICES ASSUME Using(q)
                 PROVE  \/ "tokenResetPassword" \in cols
                        \/ ~Stored(master, u, q.code)
      BY <2>3
    <3>1. req[r].op = "reset" /\ q.code \in Codes
      BY <2>3 DEF Using
    <3>2. req[r].row.tokenResetPassword = None
      BY <1>1, <1>2, <3>1 DEF CodeOf
    <3> QED BY <2>2, <3>1, <3>2, CodeIsNumber DEF Stored
  <2>6. CodeOf(q, master, fate)
    BY <1>1, <1>2, <2>3, <2>4, <2>5 DEF CodeOf
  <2> QED BY <1>2, <2>1, <2>3, <2>4, <2>6, CodesRead
<1> QED BY <1>3, <1>4

-----------------------------------------------------------------------------
(* The steps that write the table.  What a write makes of one code: it      *)
(* stays as it was, the request of the write used it or wrote it back, or   *)
(* the account is new.                                                      *)
Spends(q, v, d) == Using(q) /\ q.pc = "write" /\ q.user = v /\ q.code = d

Fresh(v, d) == v \notin used /\ fate'[v][d] = "issued"

FateWritten(q, v, d) ==
  \/ fate'[v][d] = fate[v][d]
  \/ /\ fate[v][d] = "issued" /\ fate'[v][d] = "spent" /\ Spends(q, v, d)
     /\ "tokenResetPassword" \in q.cols => ~Stored(master', v, d)
  \/ fate'[v][d] = "returned"
  \/ Fresh(v, d)

(* A code that a row shows it showed before, or it came with the write.     *)
CodeWritten(q, v, d) ==
  Stored(master', v, d) =>
    \/ Stored(master, v, d)
    \/ Drawn(q) /\ q.user = v /\ q.code = d
    \/ fate'[v][d] = "returned"
    \/ Fresh(v, d)

(* Who carries a code, or shows one, is a registered account.               *)
LEMMA CodesRegistered ==
  ASSUME Invariant
  PROVE  /\ \A s \in Requests :
              Drawn(req[s]) \/ Using(req[s]) => req[s].user \in used
         /\ \A v \in Users, d \in Codes :
              Stored(master, v, d) \/ Stored(report, v, d) => v \in used
<1> USE DEF Invariant
<1>1. ASSUME NEW s \in Requests, Drawn(req[s]) \/ Using(req[s])
      PROVE  req[s].user \in used
  <2>1. req[s].user \in Users
    BY <1>1, CarriesCode
  <2>2. AgreementOf(req[s], master, removed)
    BY DEF Agreement
  <2>3. HoldsRow(req[s]) \/ req[s].pc = "reload"
    BY <1>1 DEF Drawn, Using, HoldsRow, Savers
  <2>4. req[s].user \in removed \/ master[req[s].user] # None
    BY <2>2, <2>3 DEF AgreementOf, SameIdentity
  <2> QED BY <2>1, <2>4 DEF Agreement
<1> QED BY <1>1 DEF Agreement, Stored

LEMMA CodesWritten ==
  ASSUME Invariant, CodesTraced, NEW r \in Requests, NEW q,
         req' = [req EXCEPT ![r] = q], Codeless(q),
         report' = report \/ report' = master',
         \A v \in Users, d \in Codes :
           FateWritten(req[r], v, d) /\ CodeWritten(req[r], v, d)
  PROVE  CodesTraced'
<1> USE DEF Invariant
<1>1. req'[r] = q /\ \A s \in Requests : s # r => req'[s] = req[s]
  BY DEF TypeOK
<1>2. ~Drawn(q) /\ ~Using(q)
  BY DEF Codeless
<1>3. ASSUME NEW s \in Requests, Drawn(req[s]) \/ Using(req[s])
      PROVE  /\ req[s].user \in Users /\ req[s].code \in Codes
             /\ req[s].user \in used /\ CodeOf(req[s], master, fate)
  BY <1>3, CarriesCode, CodesRegistered DEF CodesTraced
<1>4. ASSUME NEW v \in Users, NEW d \in Codes
      PROVE  /\ fate[v][d] # "new" => fate'[v][d] # "new"
             /\ v \in used /\ fate[v][d] \in Loose => fate'[v][d] \in Loose
  BY DEF FateWritten, Fresh, Loose
<1>5. ASSUME NEW s \in Requests, s # r
      PROVE  CodeOf(req[s], master', fate')
  <2> DEFINE v == req[s].user
             d == req[s].code
  <2>1. CodeOf(req[s], master, fate)
    BY DEF CodesTraced
  <2>2. ASSUME Drawn(req[s]), fate[v][d] \notin Loose
        PROVE  \/ fate'[v][d] \in Loose
               \/ fate'[v][d] = "issued" /\ ~Stored(master', v, d)
    <3>1. v \in Users /\ d \in Codes /\ v \in used
      BY <2>2, <1>3
    <3>2. fate[v][d] = "issued" /\ ~Stored(master, v, d)
      BY <2>1, <2>2 DEF CodeOf
    <3>3. ~((Drawn(req[r]) \/ Using(req[r])) /\ req[r].user = v /\ req[r].code = d)
      BY <1>5, <2>2 DEF CodesTraced, InOneHand
    <3>4. fate'[v][d] = "issued" \/ fate'[v][d] = "returned"
      BY <3>1, <3>2, <3>3 DEF FateWritten, Fresh, Spends
    <3>5. fate'[v][d] # "returned" => ~Stored(master', v, d)
      BY <3>1, <3>2, <3>3 DEF CodeWritten, Fresh
    <3> QED BY <3>4, <3>5 DEF Loose
  <2>3. Drawn(req[s]) => (fate[v][d] \in Loose => fate'[v][d] \in Loose)
    BY <1>3, <1>4
  <2>4. ASSUME Using(req[s])
        PROVE  /\ fate'[v][d] # "new"
               /\ req[s].pc = "write" /\ fate'[v][d] = "issued" =>
                    \/ "tokenResetPassword" \in req[s].cols
                    \/ ~Stored(master', v, d)
    <3>1. v \in Users /\ d \in Codes /\ v \in used /\ fate[v][d] # "new"
      BY <2>1, <2>4, <1>3 DEF CodeOf
    <3>2. fate'[v][d] # "new"
      BY <1>4, <3>1
    <3>3. ASSUME req[s].pc = "write", fate'[v][d] = "issued",
                 "tokenResetPassword" \notin req[s].cols
          PROVE  ~Stored(master', v, d)
      <4>1. fate[v][d] = "issued"
        BY <3>1, <3>3 DEF FateWritten, Fresh
      <4>2. ~Stored(master, v, d)
        BY <2>1, <2>4, <3>3, <4>1 DEF CodeOf
      <4>3. ~(Drawn(req[r]) /\ req[r].user = v /\ req[r].code = d)
        BY <1>5, <2>4, <4>1 DEF CodesTraced, InOneHand, Loose
      <4> QED BY <3>1, <3>3, <4>2, <4>3 DEF CodeWritten, Fresh
    <3> QED BY <3>2, <3>3
  <2> QED BY <2>1, <2>2, <2>3, <2>4 DEF CodeOf
<1>6. \A s \in Requests : CodeOf(req'[s], master', fate')
  BY <1>1, <1>5, CodelessIsSafe
<1>7. ASSUME NEW s \in Requests, NEW t \in Requests, s # t, Drawn(req'[s]),
             Drawn(req'[t]) \/ Using(req'[t]),
             req'[s].user = req'[t].user, req'[s].code = req'[t].code
      PROVE  fate'[req'[s].user][req'[s].code] \in Loose
  <2>1. s # r /\ t # r
    BY <1>1, <1>2, <1>7
  <2>2. fate[req[s].user][req[s].code] \in Loose
    BY <2>1, <1>1, <1>7 DEF CodesTraced, InOneHand
  <2>3. req[s].user \in Users /\ req[s].code \in Codes /\ req[s].user \in used
    BY <2>1, <1>1, <1>3, <1>7
  <2> QED BY <2>1, <2>2, <2>3, <1>1, <1>4
<1>8. InOneHand'
  BY <1>7 DEF InOneHand
<1>9. ASSUME NEW v \in Users, NEW d \in Codes, Stored(master', v, d)
      PROVE  fate'[v][d] \in {"issued", "redrawn", "returned"}
  <2>1. CASE Stored(master, v, d)
    <3>1. fate[v][d] \in {"issued", "redrawn", "returned"}
      BY <2>1 DEF CodesTraced, StoredCodeIsLive, Stored
    <3>2. CASE fate'[v][d] = fate[v][d]
      BY <3>1, <3>2
    <3>3. CASE fate[v][d] = "issued" /\ Spends(req[r], v, d)
      <4>1. CodeOf(req[r], master, fate) /\ Using(req[r])
        BY <3>3, <1>3 DEF Spends
      <4>2. "tokenResetPassword" \in req[r].cols
        BY <2>1, <3>3, <4>1 DEF CodeOf, Spends
      <4> QED BY <4>2, <3>1, <1>9 DEF FateWritten, Fresh
    <3> QED BY <3>2, <3>3 DEF FateWritten, Fresh
  <2>2. CASE Drawn(req[r]) /\ req[r].user = v /\ req[r].code = d
    <3>1. fate[v][d] \in {"issued", "redrawn", "returned"}
      BY <2>2, <1>3 DEF CodeOf, Loose
    <3>2. ~Using(req[r])
      BY <2>2 DEF Drawn, Using
    <3> QED BY <3>1, <3>2 DEF FateWritten, Fresh, Spends
  <2> QED BY <2>1, <2>2, <1>9 DEF CodeWritten, Fresh
<1>10. StoredCodeIsLive'
  BY <1>9 DEF StoredCodeIsLive, Stored
<1>11. ReportSafe'
  <2>1. CASE report' = report
    <3>1. \A v \in Users : \A d \in Codes : Stored(report', v, d) => fate'[v][d] # "new"
      BY <2>1, <1>4 DEF CodesTraced, ReportSafe
    <3>2. ASSUME NEW s \in Requests, Drawn(req'[s]),
                 Stored(report', req'[s].user, req'[s].code)
          PROVE  fate'[req'[s].user][req'[s].code] \in Loose
      <4>1. req'[s] = req[s]
        BY <3>2, <1>1, <1>2
      <4>2. /\ req[s].user \in Users /\ req[s].code \in Codes /\ req[s].user \in used
            /\ fate[req[s].user][req[s].code] \in Loose
        BY <2>1, <3>2, <4>1, <1>3 DEF CodesTraced, ReportSafe
      <4> QED BY <4>1, <4>2, <1>4
    <3> QED BY <3>1, <3>2 DEF ReportSafe
  <2>2. CASE report' = master'
    <3>1. \A v \in Users : \A d \in Codes : Stored(report', v, d) => fate'[v][d] # "new"
      BY <2>2, <1>9
    <3>2. ASSUME NEW s \in Requests, Drawn(req'[s]),
                 Stored(report', req'[s].user, req'[s].code)
          PROVE  fate'[req'[s].user][req'[s].code] \in Loose
      BY <2>2, <3>2, <1>6 DEF CodeOf
    <3> QED BY <3>1, <3>2 DEF ReportSafe
  <2> QED BY <2>1, <2>2
<1> QED BY <1>6, <1>8, <1>10, <1>11 DEF CodesTraced

(* A code that comes with a registration is new, like the account.          *)
LEMMA InsertKeepsCodes ==
  ASSUME Invariant, CodesTraced, NEW r \in Requests, Insert(r)
  PROVE  CodesTraced'
<1> USE DEF Invariant
<1> DEFINE row == req[r].row
<1>1. PICK u \in Users \ used :
        IF UniqueIndexes([master EXCEPT ![u] = row])
        THEN /\ Commit([master EXCEPT ![u] = row])
             /\ fate' = [fate EXCEPT ![u] = [c \in Numbers |->
                           IF OpenTo(row, c) THEN "issued" ELSE fate[u][c]]]
        ELSE UNCHANGED <<tables, fate>>
  BY DEF Insert
<1>2. req' = [req EXCEPT ![r] = Idle] /\ End(r)
  BY DEF Insert, End
<1>3. CASE UNCHANGED <<tables, fate>>
  BY <1>2, <1>3, EndDropsCode DEF tables
<1>4. CASE /\ Commit([master EXCEPT ![u] = row])
           /\ fate' = [fate EXCEPT ![u] = [c \in Numbers |->
                         IF OpenTo(row, c) THEN "issued" ELSE fate[u][c]]]
  <2>1. /\ master' = [master EXCEPT ![u] = row]
        /\ report' = report \/ report' = master'
    BY <1>4 DEF Commit
  <2>2. master'[u] = row /\ \A v \in Users \ {u} : master'[v] = master[v]
    BY <2>1 DEF TypeOK, Tables
  <2> HIDE DEF row
  <2>3. \A v \in Users \ {u} : fate'[v] = fate[v]
    BY <1>4 DEF TypeOK
  <2>4. ASSUME NEW d \in Codes
        PROVE  fate'[u][d] = IF OpenTo(row, d) THEN "issued" ELSE fate[u][d]
    BY <1>4 DEF TypeOK, Numbers
  <2>5. ASSUME NEW d \in Codes, Stored(master', u, d)
        PROVE  OpenTo(row, d)
    BY <2>2, <2>5, CodeIsNumber DEF Stored, OpenTo, JsNumber
  <2>6. ASSUME NEW v \in Users, NEW d \in Codes
        PROVE  FateWritten(req[r], v, d) /\ CodeWritten(req[r], v, d)
    <3>1. CASE v = u
      <4>1. FateWritten(req[r], u, d)
        BY <2>4 DEF FateWritten, Fresh
      <4>2. CodeWritten(req[r], u, d)
        BY <2>4, <2>5 DEF CodeWritten, Fresh
      <4> QED BY <3>1, <4>1, <4>2
    <3>2. CASE v # u
      BY <2>2, <2>3, <3>2 DEF FateWritten, CodeWritten, Stored
    <3> QED BY <3>1, <3>2
  <2> QED BY <1>2, <2>1, <2>6, IdleIsCodeless, CodesWritten
<1> QED BY <1>1, <1>3, <1>4

(* What a save makes of one code.                                           *)
LEMMA FateAfterAt ==
  ASSUME TypeOK, NEW q, q.user \in Users, q.row \in Rows, NEW cols,
         NEW v \in Users, NEW d \in Codes
  PROVE  FateAfter(q, cols)[v][d] =
           IF q.op = "reset" /\ q.user = v /\ q.code = d /\ fate[v][d] = "issued"
           THEN "spent"
           ELSE IF /\ q.op = "verify" /\ "tokenResetPassword" \in cols
                   /\ q.user = v /\ q.row.tokenResetPassword = d
           THEN "returned"
           ELSE fate[v][d]
<1> DEFINE e == q.row.tokenResetPassword
           c == q.code
<1>0. d \in Numbers /\ d # None
  BY CodeIsNumber DEF Numbers
<1>1. CASE q.op = "reset" /\ c \in Codes
  <2>1. /\ FateAfter(q, cols) =
              [fate EXCEPT ![q.user][c] = IF @ = "issued" THEN "spent" ELSE @]
        /\ c \in Numbers
    BY <1>1 DEF FateAfter, Numbers
  <2> QED BY <1>0, <1>1, <2>1 DEF TypeOK
<1>2. CASE q.op = "verify" /\ "tokenResetPassword" \in cols /\ e # None
  <2>1. /\ FateAfter(q, cols) = [fate EXCEPT ![q.user][e] = "returned"]
        /\ e \in Numbers
    BY <1>2 DEF FateAfter, Rows, Numbers
  <2> QED BY <1>0, <1>2, <2>1 DEF TypeOK
<1>3. CASE /\ ~(q.op = "reset" /\ c \in Codes)
           /\ ~(q.op = "verify" /\ "tokenResetPassword" \in cols /\ e # None)
  <2>1. FateAfter(q, cols) = fate
    BY <1>3 DEF FateAfter
  <2> QED BY <1>0, <1>3, <2>1
<1> QED BY <1>1, <1>2, <1>3

(* A save that goes on to its mail, or ends, has no code left to store.     *)
LEMMA SavedDropsCode ==
  ASSUME TypeOK, NEW r \in Requests, Saved(r)
  PROVE  \E q : req' = [req EXCEPT ![r] = q] /\ Codeless(q)
<1>1. CASE req[r].op \in {"forgot", "reset"}
  <2> DEFINE m == [req[r] EXCEPT !.pc = "mail"]
  <2>1. req' = [req EXCEPT ![r] = m]
    BY <1>1 DEF Saved, Continue, TypeOK
  <2>2. m.pc = "mail" /\ m.op = req[r].op
    BY DEF TypeOK, Request
  <2> HIDE DEF m
  <2>3. Codeless(m)
    BY <1>1, <2>2 DEF Codeless, Drawn, Using
  <2> QED BY <2>1, <2>3
<1>2. CASE req[r].op \notin {"forgot", "reset"}
  BY <1>2, IdleIsCodeless DEF Saved, End
<1> QED BY <1>1, <1>2

(* save() of a removed account: forgot-password stores its code, a          *)
(* verification the one it read.                                            *)
LEMMA SaveInsertKeepsCodes ==
  ASSUME Invariant, CodesTraced, NEW r \in Requests, SaveInsert(r)
  PROVE  CodesTraced'
<1> USE DEF Invariant
<1> DEFINE u == req[r].user
           c == req[r].code
           row == Restored(req[r])
<1>1. /\ req[r] \in Request /\ req[r].pc = "restore" /\ req[r].op \in Savers
      /\ u \in Users /\ req[r].row \in Rows /\ CodeOf(req[r], master, fate)
  BY DEF SaveInsert, At, TypeOK, Shape, ShapeOf, CodesTraced
<1>2. CASE UNCHANGED <<tables, fate>> /\ End(r)
  BY <1>2, EndDropsCode DEF tables
<1>3. CASE /\ Commit([master EXCEPT ![u] = row])
           /\ fate' = IF req[r].op = "verify" THEN FateAfter(req[r], Columns) ELSE fate
           /\ Saved(r)
  <2>1. PICK q : req' = [req EXCEPT ![r] = q] /\ Codeless(q)
    BY <1>3, SavedDropsCode
  <2>2. ASSUME NEW v \in Users, NEW d \in Codes
        PROVE  fate'[v][d] = IF /\ req[r].op = "verify" /\ u = v
                                /\ req[r].row.tokenResetPassword = d
                             THEN "returned" ELSE fate[v][d]
    <3>1. CASE req[r].op = "verify"
      BY <1>1, <1>3, <3>1, FateAfterAt DEF Columns
    <3>2. CASE req[r].op # "verify"
      BY <1>3, <3>2
    <3> QED BY <3>1, <3>2
  <2>3. ASSUME NEW d \in Codes, row.tokenResetPassword = d
        PROVE  (Drawn(req[r]) /\ d = c) \/ fate'[u][d] = "returned"
    <3>1. CASE req[r].op = "forgot"
      <4>1. Drawn(req[r]) /\ req[r].row.tokenResetPassword = c
        BY <1>1, <3>1 DEF Drawn, CodeOf
      <4>2. row.tokenResetPassword = req[r].row.tokenResetPassword
        BY <3>1 DEF Restored, BlankRow
      <4> QED BY <2>3, <4>1, <4>2
    <3>2. CASE req[r].op # "forgot"
      <4>1. row.tokenResetPassword = req[r].row.tokenResetPassword
        BY <1>1, <3>2 DEF Restored, Rows
      <4>2. req[r].op \in {"reset", "change"} => req[r].row.tokenResetPassword = None
        BY <1>1 DEF CodeOf
      <4>3. req[r].op = "verify"
        BY <1>1, <2>3, <3>2, <4>1, <4>2, CodeIsNumber DEF Savers
      <4> QED BY <1>1, <2>2, <2>3, <4>1, <4>3
    <3> QED BY <3>1, <3>2
  <2> HIDE DEF row
  <2>4. /\ master' = [master EXCEPT ![u] = row]
        /\ report' = report \/ report' = master'
    BY <1>3 DEF Commit
  <2>5. master'[u] = row /\ \A v \in Users \ {u} : master'[v] = master[v]
    BY <1>1, <2>4 DEF TypeOK, Tables
  <2>6. ASSUME NEW v \in Users, NEW d \in Codes
        PROVE  FateWritten(req[r], v, d) /\ CodeWritten(req[r], v, d)
    <3>1. FateWritten(req[r], v, d)
      BY <2>2 DEF FateWritten
    <3>2. CodeWritten(req[r], v, d)
      BY <2>3, <2>5 DEF CodeWritten, Stored
    <3> QED BY <3>1, <3>2
  <2> QED BY <2>1, <2>4, <2>6, CodesWritten
<1> QED BY <1>2, <1>3, SaveInsertCases

LEMMA WriteKeepsCodes ==
  ASSUME Invariant, CodesTraced, NEW r \in Requests, SaveUpdate(r)
  PROVE  CodesTraced'
<1> USE DEF Invariant
<1> DEFINE u == req[r].user
           c == req[r].code
           writes == "tokenResetPassword" \in req[r].cols
<1>1. At(r, "write")
  BY SaveUpdateCases
<1>2. /\ req[r] \in Request /\ ShapeOf(req[r]) /\ CodeOf(req[r], master, fate)
      /\ req[r].pc = "write" /\ u \in Users /\ req[r].row \in Rows
  BY <1>1 DEF At, TypeOK, Shape, ShapeOf, CodesTraced
<1>3. CASE UNCHANGED <<tables, approved, fate>> /\ End(r)
  BY <1>1, <1>3, EndDropsCode DEF tables
<1>4. CASE /\ Commit(AfterUpdate(r))
           /\ fate' = IF master[u] # None
                      THEN FateAfter(req[r], req[r].cols) ELSE fate
           /\ Saved(r)
  <2>1. PICK q : req' = [req EXCEPT ![r] = q] /\ Codeless(q)
    BY <1>4, SavedDropsCode
  <2>2. master' = AfterUpdate(r) /\ (report' = report \/ report' = master')
    BY <1>4 DEF Commit
  <2>3. CASE master[u] = None
    <3>1. UNCHANGED <<master, fate>>
      BY <1>4, <2>2, <2>3 DEF AfterUpdate
    <3> QED BY <2>1, <2>2, <3>1, CodesDropped
  <2>4. CASE master[u] # None
    <3>1. /\ master' = [master EXCEPT ![u] = Updated(@, req[r].row, req[r].cols)]
          /\ master[u] \in Rows
      BY <2>2, <2>4, <1>2 DEF AfterUpdate, TypeOK, Tables
    <3>2. master'[u] = Updated(master[u], req[r].row, req[r].cols)
      BY <3>1, <1>2 DEF TypeOK, Tables
    <3>3. /\ master'[u] # None
          /\ master'[u].tokenResetPassword =
               IF writes THEN req[r].row.tokenResetPassword
               ELSE master[u].tokenResetPassword
      <4>1. master'[u] \in Rows
        BY <3>1, <3>2, <1>2, UpdatedIsRow
      <4> QED BY <3>2, <4>1, NullIsNoRow DEF Updated
    <3>4. \A v \in Users \ {u} : master'[v] = master[v]
      BY <3>1 DEF TypeOK, Tables
    <3>5. ASSUME NEW v \in Users, NEW d \in Codes
          PROVE  fate'[v][d] =
                   IF req[r].op = "reset" /\ u = v /\ c = d /\ fate[v][d] = "issued"
                   THEN "spent"
                   ELSE IF /\ req[r].op = "verify" /\ writes /\ u = v
                           /\ req[r].row.tokenResetPassword = d
                   THEN "returned"
                   ELSE fate[v][d]
      BY <1>2, <1>4, <2>4, FateAfterAt
    <3>6. req[r].op \in {"reset", "change"} => req[r].row.tokenResetPassword = None
      BY <1>2 DEF CodeOf
    <3>7. ASSUME NEW d \in Codes, master'[u].tokenResetPassword = d
          PROVE  \/ master[u].tokenResetPassword = d
                 \/ Drawn(req[r]) /\ d = c
                 \/ fate'[u][d] = "returned"
      <4>1. CASE ~writes \/ req[r].op \in {"reset", "change"}
        BY <4>1, <3>3, <3>6, <3>7, CodeIsNumber
      <4>2. CASE req[r].op = "forgot"
        <5>1. Drawn(req[r])
          BY <4>2, <1>2 DEF Drawn
        <5> QED BY <5>1, <1>2, <3>3, <3>7 DEF CodeOf
      <4>3. CASE writes /\ req[r].op = "verify"
        BY <4>3, <1>2, <3>3, <3>5, <3>7
      <4>4. CASE writes /\ req[r].op \notin Savers
        BY <4>4, <1>2 DEF ShapeOf, Savers
      <4> QED BY <4>1, <4>2, <4>3, <4>4 DEF Savers
    <3>8. ASSUME NEW v \in Users, NEW d \in Codes
          PROVE  FateWritten(req[r], v, d) /\ CodeWritten(req[r], v, d)
      <4>1. CodeWritten(req[r], v, d)
        BY <2>4, <3>4, <3>7 DEF CodeWritten, Stored
      <4>2. CASE req[r].op = "reset" /\ u = v /\ c = d /\ fate[v][d] = "issued"
        <5>1. Spends(req[r], v, d)
          BY <4>2, <1>2 DEF Spends, Using
        <5>2. writes => ~Stored(master', v, d)
          BY <4>2, <3>3, <3>6, CodeIsNumber DEF Stored
        <5> QED BY <4>1, <4>2, <5>1, <5>2, <3>5 DEF FateWritten
      <4>3. CASE ~(req[r].op = "reset" /\ u = v /\ c = d /\ fate[v][d] = "issued")
        BY <4>1, <4>3, <3>5 DEF FateWritten
      <4> QED BY <4>2, <4>3
    <3> QED BY <2>1, <2>2, <3>8, CodesWritten
  <2> QED BY <2>3, <2>4
<1> QED BY <1>3, <1>4, SaveUpdateCases

(* A statement that gives no row a code it did not have.                    *)
LEMMA CodesKept ==
  ASSUME Invariant, CodesTraced, UNCHANGED <<req, fate>>,
         report' = report \/ report' = master',
         \A v \in Users, d \in Codes : Stored(master', v, d) => Stored(master, v, d)
  PROVE  CodesTraced'
<1> USE DEF Invariant
<1>1. ASSUME NEW s \in Requests
      PROVE  CodeOf(req[s], master', fate)
  <2>1. CodeOf(req[s], master, fate)
    BY DEF CodesTraced
  <2> QED BY <2>1, CarriesCode DEF CodeOf
<1>2. InOneHand' /\ StoredCodeIsLive'
  BY DEF CodesTraced, InOneHand, StoredCodeIsLive, Stored
<1>3. ReportSafe'
  <2>1. \A s \in Requests : Drawn(req'[s]) =>
          req'[s] = req[s] /\ req'[s].user \in Users /\ req'[s].code \in Codes
    BY CarriesCode
  <2>2. \A s \in Requests : CodeOf(req'[s], master', fate')
    BY <1>1
  <2> QED BY <1>2, <2>1, <2>2, ReportFollows DEF CodesTraced
<1> QED BY <1>1, <1>2, <1>3 DEF CodesTraced

LEMMA SetFirstLoginKeepsCodes ==
  ASSUME Invariant, CodesTraced, NEW u \in Users, SetFirstLogin(u)
  PROVE  CodesTraced'
<1>1. PICK b \in BOOLEAN : Commit([master EXCEPT ![u].isFirstLogin = b])
  BY DEF SetFirstLogin
<1>2. UNCHANGED <<req, fate>> /\ master[u] \in Rows
  BY DEF SetFirstLogin, history, Invariant, TypeOK, Tables
<1> DEFINE row == [master[u] EXCEPT !.isFirstLogin = b]
<1>3. row.tokenResetPassword = master[u].tokenResetPassword
  BY <1>2 DEF Rows
<1>4. /\ master' = [master EXCEPT ![u] = row]
      /\ report' = report \/ report' = master'
  BY <1>1 DEF Commit, Invariant, TypeOK, Tables
<1> HIDE DEF row
<1>5. \A v \in Users, d \in Codes : Stored(master', v, d) => Stored(master, v, d)
  BY <1>2, <1>3, <1>4, NullIsNoRow DEF Stored, Invariant, TypeOK, Tables
<1> QED BY <1>2, <1>4, <1>5, CodesKept

LEMMA RemoveKeepsCodes ==
  ASSUME Invariant, CodesTraced, NEW u \in Users, Remove(u)
  PROVE  CodesTraced'
<1>1. /\ master' = [master EXCEPT ![u] = None]
      /\ report' = report \/ report' = master'
      /\ UNCHANGED <<req, fate>>
  BY DEF Remove, Commit
<1>2. \A v \in Users, d \in Codes : Stored(master', v, d) => Stored(master, v, d)
  BY <1>1 DEF Stored, Invariant, TypeOK, Tables
<1> QED BY <1>1, <1>2, CodesKept

-----------------------------------------------------------------------------
LEMMA QuietKeepsCodes ==
  ASSUME CodesTraced, UNCHANGED <<master, report, req, fate>>
  PROVE  CodesTraced'
<1>1. InOneHand' /\ StoredCodeIsLive' /\ ReportSafe'
  BY DEF CodesTraced, InOneHand, StoredCodeIsLive, ReportSafe, Stored
<1> QED BY <1>1 DEF CodesTraced

(* Replication shows the table, which is safe.                              *)
LEMMA CatchUpKeepsCodes ==
  ASSUME Invariant, CodesTraced, CatchUp
  PROVE  CodesTraced'
  BY CodesKept DEF CatchUp, history

LEMMA HandlerKeepsCodes ==
  ASSUME Invariant, Steady, CodesTraced,
         NEW r \in Requests, Handler(r)
  PROVE  CodesTraced'
<1>1. TypeOK /\ Shape
  BY DEF Invariant
<1> QED BY <1>1, LightStepKeepsCodes, ColumnStepKeepsCodes, InsertKeepsCodes,
           ForgotReadKeepsCodes, ResetCheckKeepsCodes, UpdatePasswordKeepsCodes,
           ChangePasswordKeepsCodes, SaveSelectKeepsCodes, WriteKeepsCodes,
           SaveInsertKeepsCodes
        DEF Handler

LEMMA CodesStep ==
  ASSUME Invariant, Steady, CodesTraced, [Next]_vars
  PROVE  CodesTraced'
<1>1. CASE Tick \/ UNCHANGED vars
  BY <1>1, QuietKeepsCodes DEF Tick, vars, tables, history
<1>2. CASE \E u \in Users : GenerateActiveToken(u) \/ ActiveTokenExpires(u)
  BY <1>2, QuietKeepsCodes DEF GenerateActiveToken, ActiveTokenExpires, tables, history
<1> QED BY <1>1, <1>2, HandlerKeepsCodes, SetFirstLoginKeepsCodes, RemoveKeepsCodes,
           CatchUpKeepsCodes
        DEF Next, Statement

LEMMA CodesInit ==
  ASSUME Init
  PROVE  CodesTraced
<1>1. report = master /\ \A r \in Requests : req[r] = Idle
  BY DEF Init
<1>2. ~Drawn(Idle)
  BY DEF Drawn, Idle
<1>3. StoredCodeIsLive
  <2>1. ASSUME NEW u \in Users, NEW c \in Codes, master[u] # None,
               master[u].tokenResetPassword = c
        PROVE  fate[u][c] = "issued"
    <3>1. OpenTo(master[u], c) /\ c \in Numbers
      BY <2>1, CodeIsNumber DEF OpenTo, JsNumber, Numbers
    <3> QED BY <2>1, <3>1 DEF Init
  <2> QED BY <2>1 DEF StoredCodeIsLive
<1>4. ReportSafe
  BY <1>1, <1>2, <1>3 DEF ReportSafe, Stored, StoredCodeIsLive
<1> QED BY <1>1, <1>2, <1>3, <1>4, IdleIsCodeless, CodelessIsSafe DEF CodesTraced, InOneHand

-----------------------------------------------------------------------------
(* Without registrations, no step gives a copy of an account an address     *)
(* that no copy of it had.                                                  *)
LEMMA SettledFollows ==
  ASSUME Settled,
         \A s \in Requests : req'[s].pc # "insert",
         \A u \in Users, e \in Emails :
           /\ RowHas(master'[u], e) => HasEmail(u, e)
           /\ RowHas(report'[u], e) => HasEmail(u, e)
           /\ \A s \in Requests : CarriesEmail(req'[s], u, e) => HasEmail(u, e)
  PROVE  Settled'
<1>1. ASSUME NEW u \in Users, NEW e \in Emails, HasEmail(u, e)'
      PROVE  HasEmail(u, e)
  BY <1>1 DEF HasEmail
<1> QED BY <1>1 DEF Settled

LEMMA SettledStep ==
  ASSUME TypeOK, Settled, NEW r \in Requests, NEW q,
         req' = [req EXCEPT ![r] = q], q.pc # "insert",
         report' = report \/ report' = master',
         \A u \in Users, e \in Emails :
           /\ RowHas(master'[u], e) => HasEmail(u, e)
           /\ CarriesEmail(q, u, e) => HasEmail(u, e)
  PROVE  Settled'
<1>1. req'[r] = q /\ \A s \in Requests : s # r => req'[s] = req[s]
  BY DEF TypeOK
<1>2. \A s \in Requests : req'[s].pc # "insert"
  BY <1>1 DEF Settled
<1>3. ASSUME NEW u \in Users, NEW e \in Emails
      PROVE  /\ RowHas(master'[u], e) => HasEmail(u, e)
             /\ RowHas(report'[u], e) => HasEmail(u, e)
             /\ \A s \in Requests : CarriesEmail(req'[s], u, e) => HasEmail(u, e)
  <2>1. RowHas(report[u], e) => HasEmail(u, e)
    BY DEF HasEmail
  <2>2. \A s \in Requests : CarriesEmail(req[s], u, e) => HasEmail(u, e)
    BY DEF HasEmail
  <2> QED BY <1>1, <2>1, <2>2
<1> QED BY <1>2, <1>3, SettledFollows

(* A step of a request that writes nothing.                                 *)
LEMMA SettledRead ==
  ASSUME TypeOK, Settled, NEW r \in Requests, NEW q,
         req' = [req EXCEPT ![r] = q], q.pc # "insert", UNCHANGED <<master, report>>,
         \A u \in Users, e \in Emails : CarriesEmail(q, u, e) => HasEmail(u, e)
  PROVE  Settled'
<1>1. \A u \in Users, e \in Emails : RowHas(master'[u], e) => HasEmail(u, e)
  BY DEF HasEmail
<1> QED BY <1>1, SettledStep

(* A request that has no copy of an account.                                *)
EmptyHanded(q) == ~HoldsRow(q) /\ q.pc \notin {"insert", "reload"}

LEMMA EmptyHandedCarriesNothing ==
  ASSUME NEW q, EmptyHanded(q)
  PROVE  q.pc # "insert" /\ \A u, e : ~CarriesEmail(q, u, e)
  BY DEF EmptyHanded, CarriesEmail

LEMMA IdleIsEmptyHanded == EmptyHanded(Idle)
  BY DEF EmptyHanded, Idle, HoldsRow

LEMMA EndKeepsSettled ==
  ASSUME TypeOK, Settled, NEW r \in Requests, End(r), UNCHANGED <<master, report>>
  PROVE  Settled'
  BY IdleIsEmptyHanded, EmptyHandedCarriesNothing, SettledRead DEF End

(* The steps that start or end a request, or prepare the UPDATE of one      *)
(* column.                                                                  *)
LightStep(r) ==
  \/ ChangeGuard(r) \/ ResendRead(r) \/ ConfirmRead(r) \/ ConfirmForget(r)
  \/ StatusRead(r) \/ Mail(r) \/ Fail(r)
  \/ LockRead(r, "lock", Locked) \/ LockRead(r, "unlock", Unlocked)

LEMMA LightStepTakesNothing ==
  ASSUME TypeOK, Shape, NEW r \in Requests, LightStep(r)
  PROVE  /\ UNCHANGED <<master, report, accepted>>
         /\ \E q : req' = [req EXCEPT ![r] = q] /\ EmptyHanded(q)
<1>1. UNCHANGED <<master, report, accepted>>
  BY DEF LightStep, ChangeGuard, ResendRead, ConfirmRead, ConfirmForget, StatusRead, Mail,
         Fail, LockRead, tables, history
<1>2. CASE Mail(r) \/ Fail(r)
  BY <1>1, <1>2, IdleIsEmptyHanded DEF Mail, Fail, End
<1>3. CASE ChangeGuard(r) \/ ResendRead(r) \/ ConfirmRead(r)
  <2>1. PICK op, u : \/ Start(r, op, "compare", u, None)
                     \/ Start(r, op, "mail", u, None)
                     \/ Start(r, op, "forget", u, None)
    BY <1>3 DEF ChangeGuard, ResendRead, ConfirmRead
  <2>2. PICK pc \in {"compare", "mail", "forget"} : Start(r, op, pc, u, None)
    BY <2>1
  <2> DEFINE q == [Idle EXCEPT !.op = op, !.pc = pc, !.user = u, !.row = None]
  <2>3. req' = [req EXCEPT ![r] = q]
    BY <2>2 DEF Start
  <2>4. EmptyHanded(q)
    BY DEF EmptyHanded, HoldsRow, Idle
  <2> HIDE DEF q
  <2> QED BY <1>1, <2>3, <2>4
<1>4. CASE ConfirmForget(r)
  <2> DEFINE q == [req[r] EXCEPT !.pc = "write", !.cols = {"status"},
                     !.row = [BlankRow(None, None) EXCEPT !.status = Active]]
  <2>1. req[r].op = "confirm" /\ req[r] \in Request
    BY <1>4 DEF ConfirmForget, At, Shape, ShapeOf, TypeOK
  <2>2. EmptyHanded(q)
    BY <2>1 DEF EmptyHanded, HoldsRow, Savers, Request
  <2>3. req' = [req EXCEPT ![r] = q]
    BY <1>4 DEF ConfirmForget, TypeOK
  <2> HIDE DEF q
  <2> QED BY <1>1, <2>2, <2>3
<1>5. CASE \/ StatusRead(r) \/ LockRead(r, "lock", Locked)
           \/ LockRead(r, "unlock", Unlocked)
  <2>0. PICK op \in {"status", "lock", "unlock"} : \E u, cols, row :
          req' = [req EXCEPT ![r] =
            [Idle EXCEPT !.op = op, !.pc = "write", !.user = u, !.cols = cols,
                         !.row = row]]
    BY <1>5 DEF StatusRead, LockRead
  <2>1. PICK u, cols, row :
          req' = [req EXCEPT ![r] =
            [Idle EXCEPT !.op = op, !.pc = "write", !.user = u, !.cols = cols,
                         !.row = row]]
    BY <2>0
  <2> DEFINE q == [Idle EXCEPT !.op = op, !.pc = "write", !.user = u, !.cols = cols,
                               !.row = row]
  <2>2. EmptyHanded(q)
    BY DEF EmptyHanded, HoldsRow, Savers, Idle
  <2>3. req' = [req EXCEPT ![r] = q]
    BY <2>1
  <2> HIDE DEF q
  <2> QED BY <1>1, <2>2, <2>3
<1> QED BY <1>2, <1>3, <1>4, <1>5 DEF LightStep

LEMMA LightStepKeepsSettled ==
  ASSUME TypeOK, Shape, Settled, NEW r \in Requests, LightStep(r)
  PROVE  Settled'
  BY LightStepTakesNothing, EmptyHandedCarriesNothing, SettledRead

(* The steps that take a copy of an account from the replica: its address   *)
(* in a reset, its row otherwise, with the password that was there or one   *)
(* that is cleared.                                                         *)
CopyStep(r) ==
  \/ ForgotRead(r) \/ ResetCheck(r) \/ UpdatePassword(r) \/ ChangePassword(r)
  \/ VerifyRead(r)

Password(r, q, u) ==
  \/ q.row.password = report[u].password
  \/ q.row.password.plain \in accepted'[u]
  \/ /\ req[r].pc = "reload"
     /\ report[u].email = req[r].email
     /\ q.row.password.plain = req[r].password

Copied(r, q, u) ==
  /\ req' = [req EXCEPT ![r] = q]
  /\ q.user = u
  /\ report[u] # None
  /\ \/ q.pc = "save" /\ q.row.email = report[u].email /\ Password(r, q, u)
     \/ q.pc = "reload" /\ q.email = report[u].email /\ q.password \in accepted'[u]

LEMMA CopyTaken ==
  ASSUME TypeOK, Shape, NEW r \in Requests, CopyStep(r), ~End(r)
  PROVE  \E q : \E u \in Users : Copied(r, q, u)
<1>1. req[r] \in Request
  BY DEF TypeOK
<1>2. \A u \in Users : report[u] # None => report[u] \in Rows
  BY DEF TypeOK, Tables
<1>3. CASE ForgotRead(r)
  <2>1. PICK u \in Users, c \in Codes :
          /\ Admits(report[u], Active)
          /\ req' = [req EXCEPT ![r] =
               [Idle EXCEPT !.op = "forgot", !.pc = "save", !.user = u, !.code = c,
                  !.row = [report[u] EXCEPT !.tokenResetPassword = c,
                                            !.expire = now + ResetTtl]]]
    BY <1>3 DEF ForgotRead
  <2> DEFINE row == [report[u] EXCEPT !.tokenResetPassword = c,
                                      !.expire = now + ResetTtl]
             q == [Idle EXCEPT !.op = "forgot", !.pc = "save", !.user = u, !.code = c,
                               !.row = row]
  <2>2. report[u] # None
    BY <2>1 DEF Admits
  <2>3. row.email = report[u].email /\ row.password = report[u].password
    BY <1>2, <2>2 DEF Rows
  <2>4. req' = [req EXCEPT ![r] = q]
    BY <2>1
  <2> HIDE DEF row
  <2>5. q.pc = "save" /\ q.user = u /\ q.row = row
    BY DEF Idle
  <2> HIDE DEF q
  <2> QED BY <2>2, <2>3, <2>4, <2>5 DEF Copied, Password
<1>4. CASE VerifyRead(r)
  <2>1. PICK u \in Users :
          /\ report[u] # None
          /\ Start(r, "verify", "save", u, [report[u] EXCEPT !.status = PendingActive])
    BY <1>4 DEF VerifyRead, TypeOK
  <2> DEFINE row == [report[u] EXCEPT !.status = PendingActive]
             q == [Idle EXCEPT !.op = "verify", !.pc = "save", !.user = u, !.row = row]
  <2>2. row.email = report[u].email /\ row.password = report[u].password
    BY <1>2, <2>1 DEF Rows
  <2>3. req' = [req EXCEPT ![r] = q]
    BY <2>1 DEF Start
  <2> HIDE DEF row
  <2>4. q.pc = "save" /\ q.user = u /\ q.row = row
    BY DEF Idle
  <2> HIDE DEF q
  <2> QED BY <2>1, <2>2, <2>3, <2>4 DEF Copied, Password
<1>5. CASE ResetCheck(r)
  <2>1. PICK u \in Users, c \in Numbers, p \in Passwords :
          /\ CodeAccepted(report[u], c, now)
          /\ req' = [req EXCEPT ![r] =
               [Idle EXCEPT !.op = "reset", !.pc = "reload", !.user = u, !.code = c,
                  !.email = report[u].email, !.password = p]]
          /\ accepted' = [accepted EXCEPT ![u] = @ \cup {p}]
    BY <1>5 DEF ResetCheck
  <2> DEFINE q == [Idle EXCEPT !.op = "reset", !.pc = "reload", !.user = u, !.code = c,
                               !.email = report[u].email, !.password = p]
  <2>2. report[u] # None
    BY <2>1 DEF CodeAccepted, Admits
  <2>3. /\ q.pc = "reload" /\ q.user = u /\ q.email = report[u].email
        /\ q.password = p
    BY DEF Idle
  <2>4. req' = [req EXCEPT ![r] = q]
    BY <2>1
  <2>5. p \in accepted'[u]
    BY <2>1 DEF TypeOK
  <2> HIDE DEF q
  <2> QED BY <2>2, <2>3, <2>4, <2>5 DEF Copied
<1>6. ASSUME NEW u \in Users, NEW p, report[u] # None,
             req' = [req EXCEPT ![r].pc = "save", ![r].user = u,
                       ![r].row = [report[u] EXCEPT !.password = Hash(p),
                                                    !.tokenResetPassword = None]],
             \/ p \in accepted'[u]
             \/ /\ req[r].pc = "reload" /\ report[u].email = req[r].email
                /\ p = req[r].password
      PROVE  \E q : Copied(r, q, u)
  <2> DEFINE row == [report[u] EXCEPT !.password = Hash(p), !.tokenResetPassword = None]
             q == [req[r] EXCEPT !.pc = "save", !.user = u, !.row = row]
  <2>1. row.email = report[u].email /\ row.password.plain = p
    BY <1>2, <1>6 DEF Rows, Hash
  <2>2. req' = [req EXCEPT ![r] = q]
    BY <1>6 DEF TypeOK
  <2> HIDE DEF row
  <2>3. q.pc = "save" /\ q.user = u /\ q.row = row
    BY <1>1 DEF Request
  <2> HIDE DEF q
  <2> QED BY <1>6, <2>1, <2>2, <2>3 DEF Copied, Password
<1>7. CASE UpdatePassword(r)
  <2>1. PICK u \in Users :
          /\ Admits(report[u], Active)
          /\ report[u].email = req[r].email
          /\ req' = [req EXCEPT ![r].pc = "save", ![r].user = u,
                       ![r].row = [report[u] EXCEPT
                                     !.password = Hash(req[r].password),
                                     !.tokenResetPassword = None]]
    BY <1>7 DEF UpdatePassword
  <2> QED BY <2>1, <1>6, <1>7 DEF Admits, UpdatePassword, At
<1>8. CASE ChangePassword(r)
  <2> DEFINE u == req[r].user
  <2>1. u \in Users
    BY <1>8 DEF ChangePassword, At, Shape, ShapeOf
  <2>2. PICK p \in Passwords :
          /\ report[u] # None
          /\ req' = [req EXCEPT ![r].pc = "save",
                       ![r].row = [report[u] EXCEPT !.password = Hash(p),
                                                    !.tokenResetPassword = None]]
          /\ accepted' = [accepted EXCEPT ![u] = @ \cup {p}]
    BY <1>8 DEF ChangePassword
  <2>3. req' = [req EXCEPT ![r].pc = "save", ![r].user = u,
                       ![r].row = [report[u] EXCEPT !.password = Hash(p),
                                                    !.tokenResetPassword = None]]
    BY <1>1, <2>2 DEF Request, TypeOK
  <2>4. p \in accepted'[u]
    BY <2>1, <2>2 DEF TypeOK
  <2> HIDE DEF u
  <2> QED BY <2>1, <2>2, <2>3, <2>4, <1>6
<1> QED BY <1>3, <1>4, <1>5, <1>7, <1>8 DEF CopyStep

LEMMA CopyKeepsSettled ==
  ASSUME TypeOK, Shape, Settled, NEW r \in Requests, CopyStep(r)
  PROVE  Settled'
<1>1. UNCHANGED <<master, report>>
  BY DEF CopyStep, ForgotRead, ResetCheck, UpdatePassword, ChangePassword, VerifyRead,
         tables
<1>2. CASE End(r)
  BY <1>1, <1>2, EndKeepsSettled
<1>3. CASE ~End(r)
  <2>1. PICK q : \E u \in Users : Copied(r, q, u)
    BY <1>3, CopyTaken
  <2>2. PICK u \in Users : Copied(r, q, u)
    BY <2>1
  <2>3. /\ req' = [req EXCEPT ![r] = q] /\ q.user = u /\ report[u] # None
        /\ \/ q.pc = "save" /\ q.row.email = report[u].email
           \/ q.pc = "reload" /\ q.email = report[u].email
    BY <2>2 DEF Copied
  <2>4. q.pc # "insert" /\ (HoldsRow(q) => q.pc # "reload")
    BY <2>3 DEF HoldsRow
  <2>5. \A e : RowHas(report[u], e) => HasEmail(u, e)
    BY DEF HasEmail
  <2>6. \A v, e : CarriesEmail(q, v, e) => v = u /\ RowHas(report[u], e)
    BY <2>3, <2>4 DEF CarriesEmail, RowHas
  <2> QED BY <1>1, <2>3, <2>4, <2>5, <2>6, SettledRead
<1> QED BY <1>2, <1>3

(* The SELECT of save() leaves the request with the row it has.             *)
LEMMA SelectKeepsRow ==
  ASSUME TypeOK, Shape, NEW r \in Requests, SaveSelect(r)
  PROVE  /\ HoldsRow(req[r]) /\ UNCHANGED <<master, report, accepted>>
         /\ \E q : /\ req' = [req EXCEPT ![r] = q] /\ q.pc \in {"write", "restore"}
                  /\ q.user = req[r].user /\ q.row = req[r].row
<1>1. /\ req[r] \in Request /\ req[r].pc = "save" /\ HoldsRow(req[r])
      /\ UNCHANGED <<master, report, accepted>>
  BY DEF SaveSelect, At, TypeOK, Shape, ShapeOf, HoldsRow, tables, history
<1>2. CASE master[req[r].user] = None
  <2> DEFINE q == [req[r] EXCEPT !.pc = "restore"]
  <2>1. q.pc = "restore" /\ q.user = req[r].user /\ q.row = req[r].row
    BY <1>1 DEF Request
  <2>2. req' = [req EXCEPT ![r] = q]
    BY <1>2 DEF SaveSelect, Continue, TypeOK
  <2> HIDE DEF q
  <2> QED BY <1>1, <2>1, <2>2
<1>3. CASE master[req[r].user] # None
  <2> DEFINE cols == Rehashed(req[r].op) \cup
                     (Differing(master[req[r].user], req[r].row)
                        \cap EntityColumns(req[r].op))
             q == [req[r] EXCEPT !.pc = "write", !.cols = cols]
  <2>1. req' = [req EXCEPT ![r] = q]
    BY <1>3 DEF SaveSelect, TypeOK
  <2> HIDE DEF cols
  <2>2. q.pc = "write" /\ q.user = req[r].user /\ q.row = req[r].row
    BY <1>1 DEF Request
  <2> HIDE DEF q
  <2> QED BY <1>1, <2>1, <2>2
<1> QED BY <1>2, <1>3

LEMMA SelectKeepsSettled ==
  ASSUME TypeOK, Shape, Settled, NEW r \in Requests, SaveSelect(r)
  PROVE  Settled'
<1>1. PICK q : /\ req' = [req EXCEPT ![r] = q] /\ q.pc \in {"write", "restore"}
               /\ q.user = req[r].user /\ q.row = req[r].row
  BY SelectKeepsRow
<1>2. HoldsRow(req[r]) /\ UNCHANGED <<master, report>>
  BY SelectKeepsRow
<1>3. \A u \in Users, e \in Emails : CarriesEmail(q, u, e) => HasEmail(u, e)
  BY <1>1, <1>2 DEF CarriesEmail, HasEmail
<1> QED BY <1>1, <1>2, <1>3, SettledRead

(* A save that goes on to its mail, or ends, has no row left.               *)
LEMMA SavedIsEmptyHanded ==
  ASSUME TypeOK, NEW r \in Requests, Saved(r)
  PROVE  \E q : req' = [req EXCEPT ![r] = q] /\ EmptyHanded(q)
<1>1. CASE req[r].op \in {"forgot", "reset"}
  <2> DEFINE m == [req[r] EXCEPT !.pc = "mail"]
  <2>1. req' = [req EXCEPT ![r] = m]
    BY <1>1 DEF Saved, Continue, TypeOK
  <2>2. m.pc = "mail"
    BY DEF TypeOK, Request
  <2> HIDE DEF m
  <2>3. EmptyHanded(m)
    BY <2>2 DEF EmptyHanded, HoldsRow
  <2> QED BY <2>1, <2>3
<1>2. CASE req[r].op \notin {"forgot", "reset"}
  BY <1>2, IdleIsEmptyHanded DEF Saved, End
<1> QED BY <1>1, <1>2

(* A save writes the address its request carries, or leaves the one there.  *)
LEMMA SaveKeepsSettled ==
  ASSUME TypeOK, Settled, NEW r \in Requests, NEW u \in Users, NEW row,
         Commit([master EXCEPT ![u] = row]), Saved(r),
         \A e \in Emails : RowHas(row, e) => HasEmail(u, e)
  PROVE  Settled'
<1>1. /\ master' = [master EXCEPT ![u] = row]
      /\ report' = report \/ report' = master'
  BY DEF Commit
<1>2. \A v \in Users, e \in Emails : RowHas(master'[v], e) => HasEmail(v, e)
  BY <1>1 DEF HasEmail, TypeOK, Tables
<1>3. PICK q : req' = [req EXCEPT ![r] = q] /\ EmptyHanded(q)
  BY SavedIsEmptyHanded
<1> QED BY <1>1, <1>2, <1>3, EmptyHandedCarriesNothing, SettledStep

LEMMA UpdateKeepsSettled ==
  ASSUME TypeOK, Shape, Settled, NEW r \in Requests, SaveUpdate(r)
  PROVE  Settled'
<1> DEFINE u == req[r].user
<1>1. req[r].pc = "write" /\ u \in Users /\ ShapeOf(req[r]) /\ master[u] \in Rows \cup {None}
  BY SaveUpdateCases DEF At, Shape, ShapeOf, TypeOK, Tables
<1>2. CASE UNCHANGED tables /\ End(r)
  BY <1>2, EndKeepsSettled DEF tables
<1>3. CASE Commit(AfterUpdate(r)) /\ Saved(r)
  <2> DEFINE row == IF master[u] # None
                    THEN Updated(master[u], req[r].row, req[r].cols) ELSE None
  <2>1. AfterUpdate(r) = [master EXCEPT ![u] = row]
    BY <1>1 DEF AfterUpdate, TypeOK, Tables
  <2>2. ASSUME NEW e \in Emails, RowHas(row, e)
        PROVE  HasEmail(u, e)
    <3>1. /\ master[u] # None
          /\ e = IF "email" \in req[r].cols THEN req[r].row.email ELSE master[u].email
      BY <2>2 DEF RowHas, Updated
    <3>2. CASE "email" \notin req[r].cols
      BY <3>1, <3>2 DEF HasEmail, RowHas
    <3>3. CASE "email" \in req[r].cols
      <4>1. HoldsRow(req[r])
        BY <1>1, <3>3 DEF ShapeOf, HoldsRow
      <4> QED BY <3>1, <3>3, <4>1 DEF HasEmail, CarriesEmail
    <3> QED BY <3>2, <3>3
  <2> HIDE DEF row
  <2> QED BY <1>1, <1>3, <2>1, <2>2, SaveKeepsSettled
<1> QED BY <1>2, <1>3, SaveUpdateCases

LEMMA RestoreKeepsSettled ==
  ASSUME TypeOK, Shape, Settled, NEW r \in Requests, SaveInsert(r)
  PROVE  Settled'
<1> DEFINE u == req[r].user
           row == Restored(req[r])
<1>1. /\ req[r].pc = "restore" /\ u \in Users /\ req[r].row \in Rows
      /\ req[r].op \in Savers /\ HoldsRow(req[r])
  BY DEF SaveInsert, At, Shape, ShapeOf, HoldsRow
<1>2. CASE UNCHANGED tables /\ End(r)
  BY <1>2, EndKeepsSettled DEF tables
<1>3. CASE Commit([master EXCEPT ![u] = row]) /\ Saved(r)
  <2>1. row.email = None \/ row.email = req[r].row.email
    BY <1>1 DEF Restored, BlankRow, Rows
  <2> HIDE DEF row
  <2>2. \A e \in Emails : RowHas(row, e) => HasEmail(u, e)
    BY <1>1, <2>1, TableConstants DEF RowHas, HasEmail, CarriesEmail
  <2> QED BY <1>1, <1>3, <2>2, SaveKeepsSettled
<1> QED BY <1>2, <1>3 DEF SaveInsert

(* A statement that gives no row an address it did not have.                *)
LEMMA StatementKeepsSettled ==
  ASSUME Settled, req' = req, report' = report \/ report' = master',
         \A u \in Users, e \in Emails : RowHas(master'[u], e) => RowHas(master[u], e)
  PROVE  Settled'
<1>1. ASSUME NEW u \in Users, NEW e \in Emails
      PROVE  /\ RowHas(master'[u], e) => HasEmail(u, e)
             /\ RowHas(report'[u], e) => HasEmail(u, e)
             /\ \A s \in Requests : CarriesEmail(req'[s], u, e) => HasEmail(u, e)
  BY DEF HasEmail
<1> QED BY <1>1, SettledFollows DEF Settled

LEMMA TableStatementKeepsSettled ==
  ASSUME TypeOK, Settled, NEW u \in Users, SetFirstLogin(u) \/ Remove(u)
  PROVE  Settled'
<1>1. req' = req
  BY DEF SetFirstLogin, Remove
<1>2. CASE Remove(u)
  <2>1. /\ master' = [master EXCEPT ![u] = None]
        /\ report' = report \/ report' = master'
    BY <1>2 DEF Remove, Commit
  <2>2. \A v \in Users, e \in Emails : RowHas(master'[v], e) => RowHas(master[v], e)
    BY <2>1 DEF RowHas, TypeOK, Tables
  <2> QED BY <1>1, <2>1, <2>2, StatementKeepsSettled
<1>3. CASE SetFirstLogin(u)
  <2>1. PICK b \in BOOLEAN : Commit([master EXCEPT ![u].isFirstLogin = b])
    BY <1>3 DEF SetFirstLogin
  <2>2. master[u] \in Rows
    BY <1>3 DEF SetFirstLogin, TypeOK, Tables
  <2> DEFINE row == [master[u] EXCEPT !.isFirstLogin = b]
  <2>3. row.email = master[u].email
    BY <2>2 DEF Rows
  <2>4. /\ master' = [master EXCEPT ![u] = row]
        /\ report' = report \/ report' = master'
    BY <2>1 DEF Commit, TypeOK, Tables
  <2> HIDE DEF row
  <2>5. \A v \in Users, e \in Emails : RowHas(master'[v], e) => RowHas(master[v], e)
    BY <2>2, <2>3, <2>4, NullIsNoRow DEF RowHas, TypeOK, Tables
  <2> QED BY <1>1, <2>4, <2>5, StatementKeepsSettled
<1> QED BY <1>2, <1>3

LEMMA SettledNext ==
  ASSUME Operations \cap {"create", "register"} = {},
         TypeOK, Shape, Settled, [Next]_vars
  PROVE  Settled'
<1>1. CASE \/ Tick \/ UNCHANGED vars
           \/ \E u \in Users : GenerateActiveToken(u) \/ ActiveTokenExpires(u)
  <2>1. UNCHANGED <<req, master, report>>
    BY <1>1 DEF Tick, GenerateActiveToken, ActiveTokenExpires, vars, tables
  <2> QED BY <2>1, StatementKeepsSettled
<1>2. CASE CatchUp
  <2>1. req' = req /\ master' = master /\ report' = master'
    BY <1>2 DEF CatchUp
  <2> QED BY <2>1, StatementKeepsSettled
<1>3. ASSUME NEW r \in Requests, Handler(r)
      PROVE  Settled'
  <2>1. ~CreateCheck(r) /\ ~Register(r) /\ ~Insert(r)
    BY DEF CreateCheck, Register, Insert, Free, At, Settled
  <2> QED BY <1>3, <2>1, LightStepKeepsSettled, CopyKeepsSettled, SelectKeepsSettled,
             UpdateKeepsSettled, RestoreKeepsSettled
          DEF Handler, LightStep, CopyStep
<1> QED BY <1>1, <1>2, <1>3, TableStatementKeepsSettled DEF Next, Statement

LEMMA NobodyRemoved ==
  ASSUME "remove" \notin Operations, removed = {}, [Next]_vars
  PROVE  removed' = {}
<1>1. ASSUME NEW r \in Requests, Handler(r)
      PROVE  removed' = removed
  <2>1. CASE SaveUpdate(r)
    BY <2>1, SaveUpdateCases
  <2>2. CASE \/ Insert(r) \/ ForgotRead(r) \/ ResetCheck(r) \/ ChangePassword(r)
             \/ SaveInsert(r)
    BY <2>2 DEF Insert, ForgotRead, ResetCheck, ChangePassword, SaveInsert
  <2>3. CASE ~SaveUpdate(r) /\ UNCHANGED history
    BY <2>3 DEF history
  <2>4. \/ SaveUpdate(r) \/ Insert(r) \/ ForgotRead(r) \/ ResetCheck(r)
        \/ ChangePassword(r) \/ SaveInsert(r) \/ UNCHANGED history
    BY <1>1
       DEF Handler, CreateCheck, Register, UpdatePassword, ChangeGuard, ResendRead,
           VerifyRead, ConfirmRead, ConfirmForget, LockRead, StatusRead, SaveSelect,
           Mail, Fail
  <2> QED BY <2>1, <2>2, <2>3, <2>4
<1>2. ASSUME NEW u \in Users, Statement(u)
      PROVE  removed' = removed
  BY <1>2 DEF Statement, GenerateActiveToken, ActiveTokenExpires, SetFirstLogin, Remove,
              history
<1>3. CASE CatchUp \/ Tick \/ UNCHANGED vars
  BY <1>3 DEF CatchUp, Tick, vars, history
<1> QED BY <1>1, <1>2, <1>3 DEF Next

LEMMA SteadyStep ==
  ASSUME Invariant, Steady, [Next]_vars
  PROVE  Steady'
<1>1. CASE "remove" \notin Operations /\ removed = {}
  BY <1>1, NobodyRemoved DEF Steady
<1>2. CASE Operations \cap {"create", "register"} = {} /\ Settled
  <2>1. Settled'
    BY <1>2, SettledNext DEF Invariant
  <2> QED BY <1>2, <2>1 DEF Steady
<1> QED BY <1>1, <1>2 DEF Steady

LEMMA SettledInit ==
  ASSUME Init
  PROVE  Settled
<1>1. /\ report = master /\ UniqueIndexes(master)
      /\ \A r \in Requests : req[r] = Idle
  BY AccountConstants DEF Init
<1>2. \A u, e : ~CarriesEmail(Idle, u, e) /\ Idle.pc # "insert"
  BY IdleIsEmptyHanded, EmptyHandedCarriesNothing
<1>3. \A u \in Users, e \in Emails : HasEmail(u, e) => RowHas(master[u], e)
  BY <1>1, <1>2 DEF HasEmail
<1>4. \A e \in Emails : e # None
  BY TableConstants
<1> QED BY <1>1, <1>2, <1>3, <1>4 DEF Settled, RowHas, UniqueIndexes

LEMMA SteadyInit ==
  ASSUME Init, AddressesStay
  PROVE  Steady
  BY SettledInit DEF Init, Steady, AddressesStay

-----------------------------------------------------------------------------
(* A reset code leaves the table for good when it is used: no               *)
(* forgot-password, change-password or reset of any account, on any row it  *)
(* read before on however late a replica (users.service.ts:166, 192, 215),  *)
(* saves a used code back; nor does one that inserts a removed account      *)
(* again.  Only verifyEmail (auth.service.ts:97) and a second draw do.  One *)
(* thing is excluded: registering the address of a removed account again,   *)
(* after which a reset writes to the new account with the code of the old.  *)
THEOREM CodesLive ==
  ASSUME AddressesStay
  PROVE  Spec => []StoredCodeIsLive
<1>1. Init => CodesSafe
  BY CodesInit, SteadyInit DEF CodesSafe
<1>2. CodesSafe /\ Invariant /\ [Next]_vars => CodesSafe'
  BY CodesStep, SteadyStep DEF CodesSafe
<1>3. CodesSafe => StoredCodeIsLive
  BY DEF CodesSafe, CodesTraced
<1> QED BY <1>1, <1>2, <1>3, InvariantHolds, PTL DEF Spec

-----------------------------------------------------------------------------
(* While nobody registers, no step gives a copy of an account the password  *)
(* of another.                                                              *)
LEMMA OwnStep ==
  ASSUME TypeOK, Shape, OwnCopies, NEW r \in Requests, NEW q,
         req' = [req EXCEPT ![r] = q],
         report' = report \/ report' = master',
         \A u \in Users : accepted[u] \subseteq accepted'[u],
         \A u \in Users : RowOwn(master'[u], u, accepted'),
         OwnOf(q, accepted')
  PROVE  OwnCopies'
<1>1. req'[r] = q /\ \A s \in Requests : s # r => req'[s] = req[s]
  BY DEF TypeOK
<1>2. ASSUME NEW s \in Requests, s # r
      PROVE  OwnOf(req[s], accepted')
  <2>1. OwnOf(req[s], accepted)
    BY DEF OwnCopies
  <2>2. HoldsRow(req[s]) \/ req[s].pc = "reload" => req[s].user \in Users
    BY DEF Shape, ShapeOf, HoldsRow
  <2> QED BY <2>1, <2>2 DEF OwnOf, RowOwn
<1>3. \A u \in Users : RowOwn(report'[u], u, accepted')
  BY DEF OwnCopies, RowOwn
<1> QED BY <1>1, <1>2, <1>3 DEF OwnCopies

(* A step of a request that writes nothing.                                 *)
LEMMA OwnRead ==
  ASSUME TypeOK, Shape, OwnCopies, NEW r \in Requests, NEW q,
         req' = [req EXCEPT ![r] = q], UNCHANGED <<master, report>>,
         \A u \in Users : accepted[u] \subseteq accepted'[u],
         OwnOf(q, accepted')
  PROVE  OwnCopies'
<1>1. \A u \in Users : RowOwn(master'[u], u, accepted')
  BY DEF OwnCopies, RowOwn
<1> QED BY <1>1, OwnStep

LEMMA EmptyHandedIsOwn ==
  ASSUME NEW q, EmptyHanded(q)
  PROVE  \A ok : OwnOf(q, ok)
  BY DEF EmptyHanded, OwnOf

LEMMA EndKeepsOwn ==
  ASSUME TypeOK, Shape, OwnCopies, NEW r \in Requests, End(r),
         UNCHANGED <<master, report, accepted>>
  PROVE  OwnCopies'
  BY IdleIsEmptyHanded, EmptyHandedIsOwn, OwnRead DEF End

LEMMA LightStepKeepsOwn ==
  ASSUME TypeOK, Shape, OwnCopies, NEW r \in Requests, LightStep(r)
  PROVE  OwnCopies'
  BY LightStepTakesNothing, EmptyHandedIsOwn, OwnRead

LEMMA SelectKeepsOwn ==
  ASSUME TypeOK, Shape, OwnCopies, NEW r \in Requests, SaveSelect(r)
  PROVE  OwnCopies'
<1>1. PICK q : /\ req' = [req EXCEPT ![r] = q] /\ q.pc \in {"write", "restore"}
               /\ q.user = req[r].user /\ q.row = req[r].row
  BY SelectKeepsRow
<1>2. HoldsRow(req[r]) /\ UNCHANGED <<master, report, accepted>>
  BY SelectKeepsRow
<1>3. OwnOf(q, accepted')
  BY <1>1, <1>2 DEF OwnCopies, OwnOf
<1> QED BY <1>1, <1>2, <1>3, OwnRead

(* A reset copies the account that its code was accepted for.               *)
LEMMA CopyKeepsOwn ==
  ASSUME Invariant, Steady, OwnCopies, NEW r \in Requests, CopyStep(r)
  PROVE  OwnCopies'
<1>1. UNCHANGED <<master, report>> /\ TypeOK /\ Shape
  BY DEF CopyStep, ForgotRead, ResetCheck, UpdatePassword, ChangePassword, VerifyRead,
         tables, Invariant
<1>2. \A u \in Users : accepted[u] \subseteq accepted'[u]
  <2>1. CASE ForgotRead(r) \/ UpdatePassword(r) \/ VerifyRead(r)
    BY <2>1 DEF ForgotRead, UpdatePassword, VerifyRead, history
  <2>2. CASE ResetCheck(r) \/ ChangePassword(r)
    <3>1. \/ accepted' = accepted
          \/ \E u, p : accepted' = [accepted EXCEPT ![u] = @ \cup {p}]
      BY <2>2 DEF ResetCheck, ChangePassword
    <3> QED BY <1>1, <3>1 DEF TypeOK
  <2> QED BY <2>1, <2>2 DEF CopyStep
<1>3. CASE End(r)
  BY <1>1, <1>2, <1>3, IdleIsEmptyHanded, EmptyHandedIsOwn, OwnRead DEF End
<1>4. CASE ~End(r)
  <2>1. PICK q : \E u \in Users : Copied(r, q, u)
    BY <1>1, <1>4, CopyTaken
  <2>2. PICK u \in Users : Copied(r, q, u)
    BY <2>1
  <2>3. RowOwn(report[u], u, accepted) /\ OwnOf(req[r], accepted)
    BY DEF OwnCopies
  <2>4. ASSUME q.pc = "save", Password(r, q, u)
        PROVE  q.row.password.plain \in accepted'[u] \cup {Blank}
    <3>1. CASE q.row.password = report[u].password
      BY <1>2, <2>2, <2>3, <3>1 DEF Copied, RowOwn
    <3>2. CASE /\ req[r].pc = "reload" /\ report[u].email = req[r].email
               /\ q.row.password.plain = req[r].password
      <4>1. u = req[r].user
        BY <2>2, <3>2, SameAccount DEF Copied
      <4> QED BY <1>2, <2>3, <3>2, <4>1 DEF OwnOf
    <3> QED BY <2>4, <3>1, <3>2 DEF Password
  <2>5. OwnOf(q, accepted')
    BY <2>2, <2>4 DEF Copied, OwnOf, RowOwn, HoldsRow
  <2> QED BY <1>1, <1>2, <2>2, <2>5, OwnRead DEF Copied
<1> QED BY <1>3, <1>4

(* A save writes the password its request has, or leaves the one there.     *)
LEMMA SaveKeepsOwn ==
  ASSUME TypeOK, Shape, OwnCopies, NEW r \in Requests, NEW u \in Users, NEW row,
         Commit([master EXCEPT ![u] = row]), Saved(r), accepted' = accepted,
         RowOwn(row, u, accepted)
  PROVE  OwnCopies'
<1>1. /\ master' = [master EXCEPT ![u] = row]
      /\ report' = report \/ report' = master'
  BY DEF Commit
<1>2. \A v \in Users : RowOwn(master'[v], v, accepted)
  BY <1>1 DEF OwnCopies, TypeOK, Tables
<1>3. PICK q : req' = [req EXCEPT ![r] = q] /\ EmptyHanded(q)
  BY SavedIsEmptyHanded
<1> QED BY <1>1, <1>2, <1>3, EmptyHandedIsOwn, OwnStep

LEMMA UpdateKeepsOwn ==
  ASSUME TypeOK, Shape, OwnCopies, NEW r \in Requests, SaveUpdate(r)
  PROVE  OwnCopies'
<1> DEFINE u == req[r].user
<1>1. /\ req[r].pc = "write" /\ u \in Users /\ ShapeOf(req[r]) /\ accepted' = accepted
      /\ RowOwn(master[u], u, accepted) /\ OwnOf(req[r], accepted)
      /\ master[u] \in Rows \cup {None} /\ req[r].row \in Rows
  BY SaveUpdateCases DEF At, Shape, ShapeOf, TypeOK, Tables, OwnCopies
<1>2. CASE UNCHANGED tables /\ End(r)
  BY <1>1, <1>2, EndKeepsOwn DEF tables
<1>3. CASE Commit(AfterUpdate(r)) /\ Saved(r)
  <2> DEFINE row == IF master[u] # None
                    THEN Updated(master[u], req[r].row, req[r].cols) ELSE None
  <2>1. AfterUpdate(r) = [master EXCEPT ![u] = row]
    BY <1>1 DEF AfterUpdate, TypeOK, Tables
  <2>2. RowOwn(row, u, accepted)
    <3>1. CASE master[u] = None
      BY <3>1 DEF RowOwn
    <3>2. CASE master[u] # None
      <4>1. row.password = IF "password" \in req[r].cols
                           THEN req[r].row.password ELSE master[u].password
        BY <3>2 DEF Updated
      <4>2. "password" \in req[r].cols => HoldsRow(req[r])
        BY <1>1 DEF ShapeOf, HoldsRow
      <4>3. HoldsRow(req[r]) => req[r].row.password.plain \in accepted[u] \cup {Blank}
        BY <1>1, NullIsNoRow DEF OwnOf, RowOwn
      <4>4. master[u].password.plain \in accepted[u] \cup {Blank}
        BY <1>1, <3>2 DEF RowOwn
      <4> HIDE DEF row
      <4> QED BY <4>1, <4>2, <4>3, <4>4 DEF RowOwn
    <3> QED BY <3>1, <3>2
  <2> HIDE DEF row
  <2> QED BY <1>1, <1>3, <2>1, <2>2, SaveKeepsOwn
<1> QED BY <1>2, <1>3, SaveUpdateCases

LEMMA RestoreKeepsOwn ==
  ASSUME TypeOK, Shape, OwnCopies, NEW r \in Requests, SaveInsert(r)
  PROVE  OwnCopies'
<1> DEFINE u == req[r].user
           row == Restored(req[r])
<1>1. /\ req[r].pc = "restore" /\ u \in Users /\ req[r].row \in Rows
      /\ req[r].op \in Savers /\ HoldsRow(req[r]) /\ accepted' = accepted
      /\ OwnOf(req[r], accepted)
  BY DEF SaveInsert, At, Shape, ShapeOf, HoldsRow, history, OwnCopies
<1>2. CASE UNCHANGED tables /\ End(r)
  BY <1>1, <1>2, EndKeepsOwn DEF tables
<1>3. CASE Commit([master EXCEPT ![u] = row]) /\ Saved(r)
  <2>1. row.password.plain = Blank \/ row.password.plain = req[r].row.password.plain
    BY <1>1 DEF Restored, BlankRow, HashAgain, Rows
  <2> HIDE DEF row
  <2>2. RowOwn(row, u, accepted)
    BY <1>1, <2>1, NullIsNoRow DEF RowOwn, OwnOf
  <2> QED BY <1>1, <1>3, <2>2, SaveKeepsOwn
<1> QED BY <1>2, <1>3 DEF SaveInsert

(* A statement that gives no row a password it did not have.                *)
LEMMA StatementKeepsOwn ==
  ASSUME OwnCopies, UNCHANGED <<req, accepted>>,
         report' = report \/ report' = master',
         \A u \in Users : RowOwn(master'[u], u, accepted)
  PROVE  OwnCopies'
  BY DEF OwnCopies

LEMMA TableStatementKeepsOwn ==
  ASSUME TypeOK, OwnCopies, NEW u \in Users, SetFirstLogin(u) \/ Remove(u)
  PROVE  OwnCopies'
<1>1. UNCHANGED <<req, accepted>>
  BY DEF SetFirstLogin, Remove, history
<1>2. CASE Remove(u)
  <2>1. /\ master' = [master EXCEPT ![u] = None]
        /\ report' = report \/ report' = master'
    BY <1>2 DEF Remove, Commit
  <2>2. \A v \in Users : RowOwn(master'[v], v, accepted)
    BY <2>1 DEF OwnCopies, RowOwn, TypeOK, Tables
  <2> QED BY <1>1, <2>1, <2>2, StatementKeepsOwn
<1>3. CASE SetFirstLogin(u)
  <2>1. PICK b \in BOOLEAN : Commit([master EXCEPT ![u].isFirstLogin = b])
    BY <1>3 DEF SetFirstLogin
  <2>2. master[u] \in Rows
    BY <1>3 DEF SetFirstLogin, TypeOK, Tables
  <2> DEFINE row == [master[u] EXCEPT !.isFirstLogin = b]
  <2>3. row.password = master[u].password
    BY <2>2 DEF Rows
  <2>4. /\ master' = [master EXCEPT ![u] = row]
        /\ report' = report \/ report' = master'
    BY <2>1 DEF Commit, TypeOK, Tables
  <2> HIDE DEF row
  <2>5. \A v \in Users : RowOwn(master'[v], v, accepted)
    BY <2>2, <2>3, <2>4, NullIsNoRow DEF OwnCopies, RowOwn, TypeOK, Tables
  <2> QED BY <1>1, <2>4, <2>5, StatementKeepsOwn
<1> QED BY <1>2, <1>3

LEMMA OwnNext ==
  ASSUME Operations \cap {"create", "register"} = {},
         Invariant, Settled, OwnCopies, [Next]_vars
  PROVE  OwnCopies'
<1>1. TypeOK /\ Shape /\ Steady
  BY DEF Invariant, Steady
<1>2. CASE \/ Tick \/ UNCHANGED vars
           \/ \E u \in Users : GenerateActiveToken(u) \/ ActiveTokenExpires(u)
  <2>1. UNCHANGED <<req, accepted, master, report>>
    BY <1>2 DEF Tick, GenerateActiveToken, ActiveTokenExpires, vars, tables, history
  <2> QED BY <2>1, StatementKeepsOwn DEF OwnCopies
<1>3. CASE CatchUp
  <2>1. UNCHANGED <<req, accepted, master>> /\ report' = master'
    BY <1>3 DEF CatchUp, history
  <2> QED BY <2>1, StatementKeepsOwn DEF OwnCopies
<1>4. ASSUME NEW r \in Requests, Handler(r)
      PROVE  OwnCopies'
  <2>1. ~CreateCheck(r) /\ ~Register(r) /\ ~Insert(r)
    BY DEF CreateCheck, Register, Insert, Free, At, Settled
  <2> QED BY <1>1, <1>4, <2>1, LightStepKeepsOwn, CopyKeepsOwn, SelectKeepsOwn,
             UpdateKeepsOwn, RestoreKeepsOwn
          DEF Handler, LightStep, CopyStep
<1> QED BY <1>1, <1>2, <1>3, <1>4, TableStatementKeepsOwn DEF Next, Statement

LEMMA OwnInit ==
  ASSUME Init
  PROVE  OwnCopies
<1>1. report = master /\ \A r \in Requests : req[r] = Idle
  BY DEF Init
<1>2. \A u \in Users : RowOwn(master[u], u, accepted)
  BY DEF Init, RowOwn
<1> QED BY <1>1, <1>2, IdleIsEmptyHanded, EmptyHandedIsOwn DEF OwnCopies

(* No password lands in the account of another: updatePassword              *)
(* (users.service.ts:187) looks its account up again by e-mail address,     *)
(* after remove() (users.service.ts:112) may have deleted it and a pending  *)
(* save brought it back.  Registering the address of a removed account      *)
(* again is excluded: a reset under way would write to the new account.     *)
THEOREM PasswordsOwn ==
  ASSUME AddressesStay
  PROVE  Spec => []OwnPassword
<1>1. CASE "remove" \notin Operations
  <2>1. Init => removed = {}
    BY DEF Init
  <2>2. removed = {} /\ [Next]_vars => (removed = {})'
    BY <1>1, NobodyRemoved
  <2>3. removed = {} /\ StoredPasswordWasAccepted => OwnPassword
    BY DEF StoredPasswordWasAccepted, OwnPassword
  <2> QED BY <2>1, <2>2, <2>3, PasswordsAccepted, PTL DEF Spec
<1>2. CASE Operations \cap {"create", "register"} = {}
  <2>1. Init => Settled /\ OwnCopies
    BY SettledInit, OwnInit
  <2>2. Settled /\ OwnCopies /\ Invariant /\ [Next]_vars => Settled' /\ OwnCopies'
    BY <1>2, SettledNext, OwnNext DEF Invariant
  <2>3. OwnCopies => OwnPassword
    BY DEF OwnCopies, RowOwn, OwnPassword
  <2> QED BY <2>1, <2>2, <2>3, InvariantHolds, PTL DEF Spec
<1> QED BY <1>1, <1>2 DEF AddressesStay

-----------------------------------------------------------------------------
(* What became of a number never leads back to an account that had no code. *)
FateKept ==
  \A u \in Users :
    /\ fate[u][0] = "issued" => fate'[u][0] = "issued"
    /\ \A c \in Codes : fate[u][c] # "new" => fate'[u][c] # "new"
    /\ fate'[u][0] = "spent" =>
         fate[u][0] = "spent" \/ \E c \in Codes : fate[u][c] # "new"

LEMMA UnchangedIsKept == fate' = fate => FateKept
  BY DEF FateKept

LEMMA StaysOpen ==
  ASSUME FateKept, NEW u \in Users, NEW row, RowOpened(row, u, fate)
  PROVE  RowOpened(row, u, fate')
  BY DEF FateKept, RowOpened, Opened

LEMMA ZeroStep ==
  ASSUME FateKept, ZeroNeedsCode
  PROVE  ZeroNeedsCode'
  BY DEF FateKept, ZeroNeedsCode

(* One request goes on, and the table keeps to the codes that were given.   *)
LEMMA OpenedStep ==
  ASSUME TypeOK, Shape, OpeningsKnown, FateKept, NEW r \in Requests, NEW q,
         req' = [req EXCEPT ![r] = q],
         report' = report \/ report' = master',
         \A u \in Users : RowOpened(master'[u], u, fate'),
         HoldsRow(q) => RowOpened(q.row, q.user, fate')
  PROVE  OpeningsKnown'
<1>1. req'[r] = q /\ \A s \in Requests : s # r => req'[s] = req[s]
  BY DEF TypeOK
<1>2. ASSUME NEW s \in Requests, HoldsRow(req'[s])
      PROVE  RowOpened(req'[s].row, req'[s].user, fate')
  <2>1. CASE s = r
    BY <1>1, <1>2, <2>1
  <2>2. CASE s # r
    <3>1. HoldsRow(req[s]) /\ RowOpened(req[s].row, req[s].user, fate)
      BY <1>1, <1>2, <2>2 DEF OpeningsKnown
    <3>2. req[s].user \in Users
      BY <3>1 DEF Shape, ShapeOf, HoldsRow
    <3> QED BY <1>1, <2>2, <3>1, <3>2, StaysOpen
  <2> QED BY <2>1, <2>2
<1>3. \A u \in Users : RowOpened(report'[u], u, fate')
  BY StaysOpen DEF OpeningsKnown
<1>4. ZeroNeedsCode'
  BY ZeroStep DEF OpeningsKnown
<1> QED BY <1>2, <1>3, <1>4 DEF OpeningsKnown

LEMMA OpenedRead ==
  ASSUME TypeOK, Shape, OpeningsKnown, FateKept, NEW r \in Requests, NEW q,
         req' = [req EXCEPT ![r] = q], UNCHANGED <<master, report>>,
         HoldsRow(q) => RowOpened(q.row, q.user, fate')
  PROVE  OpeningsKnown'
<1>1. \A u \in Users : RowOpened(master'[u], u, fate')
  BY StaysOpen DEF OpeningsKnown
<1> QED BY <1>1, OpenedStep

LEMMA EndKeepsOpenings ==
  ASSUME TypeOK, Shape, OpeningsKnown, NEW r \in Requests, End(r),
         UNCHANGED <<master, report, fate>>
  PROVE  OpeningsKnown'
  BY IdleIsEmptyHanded, OpenedRead, UnchangedIsKept DEF End, EmptyHanded

LEMMA LightStepKeepsOpenings ==
  ASSUME TypeOK, Shape, OpeningsKnown, NEW r \in Requests,
         LightStep(r) \/ CreateCheck(r) \/ Register(r)
  PROVE  OpeningsKnown'
<1>1. fate' = fate /\ FateKept
  <2>1. fate' = fate
    BY DEF LightStep, ChangeGuard, ResendRead, ConfirmRead, ConfirmForget, StatusRead,
           Mail, Fail, LockRead, CreateCheck, Register, history
  <2> QED BY <2>1, UnchangedIsKept
<1>2. CASE LightStep(r)
  BY <1>1, <1>2, LightStepTakesNothing, OpenedRead DEF EmptyHanded
<1>3. CASE CreateCheck(r) \/ Register(r)
  <2>1. UNCHANGED <<master, report>>
    BY <1>3 DEF CreateCheck, Register, tables
  <2>2. PICK op, row : Start(r, op, "insert", None, row)
    BY <1>3 DEF CreateCheck, Register
  <2> DEFINE q == [Idle EXCEPT !.op = op, !.pc = "insert", !.user = None, !.row = row]
  <2>3. req' = [req EXCEPT ![r] = q]
    BY <2>2 DEF Start
  <2>4. ~HoldsRow(q)
    BY DEF HoldsRow, Idle
  <2> HIDE DEF q
  <2> QED BY <1>1, <2>1, <2>3, <2>4, OpenedRead
<1> QED BY <1>2, <1>3

(* A drawn code opens the account; every other copy keeps the expiry it     *)
(* was taken with.                                                          *)
LEMMA ForgotKeepsOpenings ==
  ASSUME TypeOK, Shape, OpeningsKnown, NEW r \in Requests, ForgotRead(r)
  PROVE  OpeningsKnown'
<1>1. PICK u \in Users, c \in Codes :
        /\ \E row : req' = [req EXCEPT ![r] =
             [Idle EXCEPT !.op = "forgot", !.pc = "save", !.user = u, !.code = c,
                          !.row = row]]
        /\ fate' = [fate EXCEPT ![u][c] = IF @ = "new" THEN "issued" ELSE "redrawn"]
        /\ UNCHANGED <<master, report>>
  BY DEF ForgotRead, tables
<1>2. PICK row : req' = [req EXCEPT ![r] =
             [Idle EXCEPT !.op = "forgot", !.pc = "save", !.user = u, !.code = c,
                          !.row = row]]
  BY <1>1
<1> DEFINE q == [Idle EXCEPT !.op = "forgot", !.pc = "save", !.user = u, !.code = c,
                             !.row = row]
<1>3. q.user = u
  BY DEF Idle
<1>4. req' = [req EXCEPT ![r] = q]
  BY <1>2
<1> HIDE DEF q
<1>5. c \in Numbers /\ c # 0
  BY CodeIsNumber DEF Numbers
<1>6. /\ fate'[u][c] # "new"
      /\ \A v \in Users, d \in Numbers : v # u \/ d # c => fate'[v][d] = fate[v][d]
  BY <1>1, <1>5 DEF TypeOK
<1>7. FateKept
  BY <1>5, <1>6 DEF FateKept, Numbers
<1>8. RowOpened(q.row, u, fate')
  BY <1>6 DEF RowOpened, Opened
<1> QED BY <1>1, <1>3, <1>4, <1>7, <1>8, OpenedRead

LEMMA ResetKeepsOpenings ==
  ASSUME TypeOK, Shape, OpeningsKnown, NEW r \in Requests, ResetCheck(r)
  PROVE  OpeningsKnown'
<1>1. PICK u \in Users, c \in Numbers :
        /\ CodeAccepted(report[u], c, now)
        /\ \E e, p : req' = [req EXCEPT ![r] =
             [Idle EXCEPT !.op = "reset", !.pc = "reload", !.user = u, !.code = c,
                          !.email = e, !.password = p]]
        /\ fate' = IF c = 0 /\ fate[u][0] = "new"
                   THEN [fate EXCEPT ![u][0] = "spent"] ELSE fate
        /\ UNCHANGED <<master, report>>
  BY DEF ResetCheck, tables
<1>2. PICK e, p : req' = [req EXCEPT ![r] =
             [Idle EXCEPT !.op = "reset", !.pc = "reload", !.user = u, !.code = c,
                          !.email = e, !.password = p]]
  BY <1>1
<1> DEFINE q == [Idle EXCEPT !.op = "reset", !.pc = "reload", !.user = u, !.code = c,
                             !.email = e, !.password = p]
<1>3. q.pc = "reload"
  BY DEF Idle
<1>4. req' = [req EXCEPT ![r] = q]
  BY <1>2
<1> HIDE DEF q
<1>5. Opened(u, fate)
  BY <1>1 DEF CodeAccepted, Admits, OpeningsKnown, RowOpened
<1>6. CASE fate' = fate
  BY <1>1, <1>3, <1>4, <1>6, UnchangedIsKept, OpenedRead DEF HoldsRow
<1>7. CASE fate[u][0] = "new" /\ fate' = [fate EXCEPT ![u][0] = "spent"]
  <2>1. \A v \in Users, d \in Numbers : v # u \/ d # 0 => fate'[v][d] = fate[v][d]
    BY <1>7 DEF TypeOK
  <2>2. \E d \in Codes : fate[u][d] # "new"
    BY <1>5, <1>7 DEF Opened
  <2>3. FateKept
    BY <1>7, <2>1, <2>2, CodeIsNumber DEF FateKept, Numbers
  <2> QED BY <1>1, <1>3, <1>4, <2>3, OpenedRead DEF HoldsRow
<1> QED BY <1>1, <1>6, <1>7

LEMMA CopyKeepsOpenings ==
  ASSUME TypeOK, Shape, OpeningsKnown, NEW r \in Requests,
         VerifyRead(r) \/ UpdatePassword(r) \/ ChangePassword(r)
  PROVE  OpeningsKnown'
<1>1. UNCHANGED <<master, report, fate>> /\ FateKept
  BY UnchangedIsKept DEF VerifyRead, UpdatePassword, ChangePassword, tables, history
<1>2. CASE End(r)
  BY <1>1, <1>2, EndKeepsOpenings
<1>3. CASE ~End(r)
  <2>1. PICK u, q :
          /\ req' = [req EXCEPT ![r] = q]
          /\ u \in Users
          /\ q.user = u
          /\ report[u] # None
          /\ q.row.expire = report[u].expire
    <3>1. \A u \in Users : report[u] # None => report[u] \in Rows
      BY DEF TypeOK, Tables
    <3>2. CASE VerifyRead(r)
      <4>1. PICK u \in Users :
              /\ report[u] # None
              /\ Start(r, "verify", "save", u, [report[u] EXCEPT !.status = PendingActive])
        BY <3>2 DEF VerifyRead, TypeOK
      <4> DEFINE row == [report[u] EXCEPT !.status = PendingActive]
                 q == [Idle EXCEPT !.op = "verify", !.pc = "save", !.user = u, !.row = row]
      <4>2. row.expire = report[u].expire
        BY <3>1, <4>1 DEF Rows
      <4>3. req' = [req EXCEPT ![r] = q]
        BY <4>1 DEF Start
      <4> HIDE DEF row
      <4>4. q.user = u /\ q.row = row
        BY DEF Idle
      <4> HIDE DEF q
      <4> QED BY <4>1, <4>2, <4>3, <4>4
    <3>3. CASE UpdatePassword(r)
      <4>1. PICK u \in Users :
              /\ Admits(report[u], Active)
              /\ req' = [req EXCEPT ![r].pc = "save", ![r].user = u,
                    ![r].row = [report[u] EXCEPT
                                  !.password = Hash(req[r].password),
                                  !.tokenResetPassword = None]]
        BY <1>3, <3>3 DEF UpdatePassword
      <4> DEFINE row == [report[u] EXCEPT !.password = Hash(req[r].password),
                                          !.tokenResetPassword = None]
                 q == [req[r] EXCEPT !.pc = "save", !.user = u, !.row = row]
      <4>2. report[u] # None /\ row.expire = report[u].expire
        BY <3>1, <4>1 DEF Rows, Admits
      <4>3. req' = [req EXCEPT ![r] = q]
        BY <4>1 DEF TypeOK
      <4> HIDE DEF row
      <4>4. q.user = u /\ q.row = row
        BY DEF TypeOK, Request
      <4> HIDE DEF q
      <4> QED BY <4>2, <4>3, <4>4
    <3>4. CASE ChangePassword(r)
      <4> DEFINE u == req[r].user
      <4>1. PICK p \in Passwords :
              /\ report[u] # None
              /\ req' = [req EXCEPT ![r].pc = "save",
                       ![r].row = [report[u] EXCEPT !.password = Hash(p),
                                                    !.tokenResetPassword = None]]
        BY <1>3, <3>4 DEF ChangePassword
      <4> DEFINE row == [report[u] EXCEPT !.password = Hash(p),
                                          !.tokenResetPassword = None]
                 q == [req[r] EXCEPT !.pc = "save", !.row = row]
      <4>2. u \in Users
        BY <3>4 DEF ChangePassword, At, Shape, ShapeOf
      <4>3. row.expire = report[u].expire
        BY <3>1, <4>1, <4>2 DEF Rows
      <4>4. req' = [req EXCEPT ![r] = q]
        BY <4>1 DEF TypeOK
      <4> HIDE DEF row
      <4>5. q.user = u /\ q.row = row
        BY DEF TypeOK, Request
      <4> HIDE DEF q
      <4> QED BY <4>1, <4>2, <4>3, <4>4, <4>5
    <3> QED BY <3>2, <3>3, <3>4
  <2>2. RowOpened(report[u], u, fate)
    BY <2>1 DEF OpeningsKnown
  <2>3. RowOpened(q.row, q.user, fate')
    BY <1>1, <2>1, <2>2 DEF RowOpened
  <2> QED BY <1>1, <2>1, <2>3, OpenedRead
<1> QED BY <1>2, <1>3

LEMMA SelectKeepsOpenings ==
  ASSUME TypeOK, Shape, OpeningsKnown, NEW r \in Requests, SaveSelect(r)
  PROVE  OpeningsKnown'
<1>1. PICK q : /\ req' = [req EXCEPT ![r] = q] /\ q.pc \in {"write", "restore"}
               /\ q.user = req[r].user /\ q.row = req[r].row
  BY SelectKeepsRow
<1>2. HoldsRow(req[r]) /\ UNCHANGED <<master, report, fate>> /\ FateKept
  BY SelectKeepsRow, UnchangedIsKept DEF SaveSelect, history
<1>3. RowOpened(q.row, q.user, fate')
  BY <1>1, <1>2 DEF OpeningsKnown
<1> QED BY <1>1, <1>2, <1>3, OpenedRead

(* A write stores the expiry its request holds, or leaves the one there.    *)
LEMMA WriteKeepsOpenings ==
  ASSUME TypeOK, Shape, OpeningsKnown, FateKept, NEW r \in Requests, NEW q,
         req' = [req EXCEPT ![r] = q], ~HoldsRow(q),
         NEW u \in Users, NEW row, Commit([master EXCEPT ![u] = row]),
         RowOpened(row, u, fate')
  PROVE  OpeningsKnown'
<1>1. /\ master' = [master EXCEPT ![u] = row]
      /\ report' = report \/ report' = master'
  BY DEF Commit
<1>2. ASSUME NEW v \in Users PROVE RowOpened(master'[v], v, fate')
  <2>1. master'[v] = IF v = u THEN row ELSE master[v]
    BY <1>1 DEF TypeOK, Tables
  <2>2. RowOpened(master[v], v, fate')
    BY StaysOpen DEF OpeningsKnown
  <2> QED BY <2>1, <2>2
<1> QED BY <1>1, <1>2, OpenedStep

LEMMA InsertKeepsOpenings ==
  ASSUME TypeOK, Shape, OpeningsKnown, NEW r \in Requests, Insert(r)
  PROVE  OpeningsKnown'
<1> DEFINE row == req[r].row
<1>1. row \in Rows /\ End(r)
  BY DEF Insert, At, Shape, ShapeOf
<1>2. CASE UNCHANGED <<tables, fate>>
  BY <1>1, <1>2, EndKeepsOpenings DEF tables
<1>3. CASE ~UNCHANGED <<tables, fate>>
  <2>1. PICK u \in Users :
          /\ Commit([master EXCEPT ![u] = row])
          /\ fate' = [fate EXCEPT ![u] = [c \in Numbers |->
                        IF OpenTo(row, c) THEN "issued" ELSE fate[u][c]]]
    BY <1>3 DEF Insert
  <2>2. \A v \in Users, c \in Numbers :
          fate'[v][c] = IF v = u /\ OpenTo(row, c) THEN "issued" ELSE fate[v][c]
    BY <2>1 DEF TypeOK
  <2>3. FateKept
    BY <2>2 DEF FateKept, Numbers
  <2>4. RowOpened(row, u, fate')
    <3>1. CASE row.expire = None
      BY <3>1 DEF RowOpened
    <3>2. CASE row.expire # None /\ row.tokenResetPassword = None
      BY <2>2, <3>2 DEF OpenTo, JsNumber, Numbers, RowOpened, Opened
    <3>3. CASE row.expire # None /\ row.tokenResetPassword # None
      <4>1. row.tokenResetPassword \in Codes
        BY <1>1, <3>3 DEF Rows
      <4> QED BY <2>2, <3>3, <4>1 DEF OpenTo, JsNumber, Numbers, RowOpened, Opened
    <3> QED BY <3>1, <3>2, <3>3
  <2>5. ~HoldsRow(Idle) /\ req' = [req EXCEPT ![r] = Idle]
    BY <1>1, IdleIsEmptyHanded DEF EmptyHanded, End
  <2> HIDE DEF row
  <2> QED BY <2>1, <2>3, <2>4, <2>5, WriteKeepsOpenings
<1> QED BY <1>2, <1>3

(* What a save makes of the codes spends no 0.                              *)
LEMMA FateAfterIsKept ==
  ASSUME TypeOK, NEW q, q.user \in Users, q.row \in Rows, NEW cols,
         fate' = FateAfter(q, cols)
  PROVE  FateKept
<1> DEFINE e == q.row.tokenResetPassword
<1>1. ASSUME NEW v \in Users PROVE fate'[v][0] = fate[v][0]
  <2>1. CASE q.op = "reset" /\ q.code \in Codes
    <3>1. fate' = [fate EXCEPT ![q.user][q.code] = IF @ = "issued" THEN "spent" ELSE @]
      BY <2>1 DEF FateAfter
    <3> QED BY <2>1, <3>1, CodeIsNumber DEF TypeOK, Numbers
  <2>2. CASE q.op = "verify" /\ "tokenResetPassword" \in cols /\ e # None
    <3>1. /\ fate' = [fate EXCEPT ![q.user][e] = "returned"]
          /\ e \in Codes
      BY <2>2 DEF FateAfter, Rows
    <3> QED BY <3>1, CodeIsNumber DEF TypeOK, Numbers
  <2>3. CASE /\ ~(q.op = "reset" /\ q.code \in Codes)
             /\ ~(q.op = "verify" /\ "tokenResetPassword" \in cols /\ e # None)
    <3>1. fate' = fate
      BY <2>3 DEF FateAfter
    <3> QED BY <3>1
  <2> QED BY <2>1, <2>2, <2>3
<1>2. ASSUME NEW v \in Users, NEW d \in Codes, fate[v][d] # "new"
      PROVE  fate'[v][d] # "new"
  BY <1>2, FateAfterAt
<1> QED BY <1>1, <1>2 DEF FateKept

LEMMA UpdateKeepsOpenings ==
  ASSUME TypeOK, Shape, OpeningsKnown, NEW r \in Requests, SaveUpdate(r)
  PROVE  OpeningsKnown'
<1> DEFINE u == req[r].user
<1>1. /\ req[r].pc = "write" /\ u \in Users /\ ShapeOf(req[r])
      /\ RowOpened(master[u], u, fate)
      /\ HoldsRow(req[r]) => RowOpened(req[r].row, u, fate)
      /\ master[u] \in Rows \cup {None} /\ req[r].row \in Rows
  BY SaveUpdateCases DEF At, Shape, ShapeOf, TypeOK, Tables, OpeningsKnown
<1>2. CASE UNCHANGED <<tables, fate>> /\ End(r)
  BY <1>1, <1>2, EndKeepsOpenings DEF tables
<1>3. CASE /\ Commit(AfterUpdate(r)) /\ Saved(r)
           /\ fate' = IF master[u] # None THEN FateAfter(req[r], req[r].cols) ELSE fate
  <2> DEFINE row == IF master[u] # None
                    THEN Updated(master[u], req[r].row, req[r].cols) ELSE None
  <2>1. AfterUpdate(r) = [master EXCEPT ![u] = row]
    BY <1>1 DEF AfterUpdate, TypeOK, Tables
  <2>2. RowOpened(row, u, fate)
    <3>1. CASE master[u] = None
      BY <3>1 DEF RowOpened
    <3>2. CASE master[u] # None
      <4>1. row.expire = IF "expire" \in req[r].cols
                         THEN req[r].row.expire ELSE master[u].expire
        BY <3>2 DEF Updated
      <4>2. "expire" \in req[r].cols => HoldsRow(req[r])
        BY <1>1 DEF ShapeOf, HoldsRow
      <4> HIDE DEF row
      <4> QED BY <1>1, <3>2, <4>1, <4>2, NullIsNoRow DEF RowOpened
    <3> QED BY <3>1, <3>2
  <2> HIDE DEF row
  <2>3. FateKept
    BY <1>1, <1>3, FateAfterIsKept, UnchangedIsKept
  <2>4. PICK q : req' = [req EXCEPT ![r] = q] /\ ~HoldsRow(q)
    BY <1>3, SavedIsEmptyHanded DEF EmptyHanded
  <2>5. RowOpened(row, u, fate')
    BY <1>1, <2>2, <2>3, StaysOpen
  <2> QED BY <1>1, <1>3, <2>1, <2>3, <2>4, <2>5, WriteKeepsOpenings
<1> QED BY <1>2, <1>3, SaveUpdateCases

LEMMA RestoreKeepsOpenings ==
  ASSUME TypeOK, Shape, OpeningsKnown, NEW r \in Requests, SaveInsert(r)
  PROVE  OpeningsKnown'
<1> DEFINE u == req[r].user
           row == Restored(req[r])
<1>1. /\ req[r].pc = "restore" /\ u \in Users /\ req[r].row \in Rows
      /\ HoldsRow(req[r]) /\ RowOpened(req[r].row, u, fate)
  BY DEF SaveInsert, At, Shape, ShapeOf, HoldsRow, OpeningsKnown
<1>2. CASE UNCHANGED <<tables, fate>> /\ End(r)
  BY <1>1, <1>2, EndKeepsOpenings DEF tables
<1>3. CASE /\ Commit([master EXCEPT ![u] = row]) /\ Saved(r)
           /\ fate' = IF req[r].op = "verify" THEN FateAfter(req[r], Columns) ELSE fate
  <2>1. row.expire = req[r].row.expire
    BY <1>1 DEF Restored, BlankRow, HashAgain, Rows
  <2>2. RowOpened(row, u, fate)
    BY <1>1, <2>1, NullIsNoRow DEF RowOpened
  <2> HIDE DEF row
  <2>3. FateKept
    BY <1>1, <1>3, FateAfterIsKept, UnchangedIsKept
  <2>4. PICK q : req' = [req EXCEPT ![r] = q] /\ ~HoldsRow(q)
    BY <1>3, SavedIsEmptyHanded DEF EmptyHanded
  <2>5. RowOpened(row, u, fate')
    BY <1>1, <2>2, <2>3, StaysOpen
  <2> QED BY <1>1, <1>3, <2>3, <2>4, <2>5, WriteKeepsOpenings
<1> QED BY <1>2, <1>3 DEF SaveInsert

LEMMA StatementKeepsOpenings ==
  ASSUME TypeOK, OpeningsKnown, UNCHANGED <<req, fate>>,
         report' = report \/ report' = master',
         \A u \in Users : \/ master'[u] = None
                          \/ /\ master[u] # None
                             /\ master'[u].expire = master[u].expire
  PROVE  OpeningsKnown'
<1>1. \A u \in Users : RowOpened(master'[u], u, fate)
  BY DEF OpeningsKnown, RowOpened
<1> QED BY <1>1 DEF OpeningsKnown, ZeroNeedsCode

LEMMA OpeningsNext ==
  ASSUME TypeOK, Shape, OpeningsKnown, [Next]_vars
  PROVE  OpeningsKnown'
<1>1. CASE \/ Tick \/ UNCHANGED vars \/ CatchUp
           \/ \E u \in Users : GenerateActiveToken(u) \/ ActiveTokenExpires(u)
  <2>1. /\ UNCHANGED <<req, fate, master>>
        /\ report' = report \/ report' = master'
    BY <1>1 DEF Tick, GenerateActiveToken, ActiveTokenExpires, CatchUp, vars, tables, history
  <2> QED BY <2>1 DEF OpeningsKnown, ZeroNeedsCode
<1>2. ASSUME NEW u \in Users, Remove(u)
      PROVE  OpeningsKnown'
  <2>1. /\ master' = [master EXCEPT ![u] = None]
        /\ report' = report \/ report' = master'
        /\ UNCHANGED <<req, fate>>
    BY <1>2 DEF Remove, Commit
  <2>2. \A v \in Users : master'[v] = None \/ master'[v] = master[v]
    BY <2>1 DEF TypeOK, Tables
  <2> QED BY <2>1, <2>2, StatementKeepsOpenings
<1>3. ASSUME NEW u \in Users, SetFirstLogin(u)
      PROVE  OpeningsKnown'
  <2>1. PICK b \in BOOLEAN : Commit([master EXCEPT ![u].isFirstLogin = b])
    BY <1>3 DEF SetFirstLogin
  <2>2. master[u] \in Rows /\ master[u] # None /\ UNCHANGED <<req, fate>>
    BY <1>3 DEF SetFirstLogin, TypeOK, Tables, history
  <2> DEFINE row == [master[u] EXCEPT !.isFirstLogin = b]
  <2>3. row.expire = master[u].expire
    BY <2>2 DEF Rows
  <2>4. /\ master' = [master EXCEPT ![u] = row]
        /\ report' = report \/ report' = master'
    BY <2>1 DEF Commit, TypeOK, Tables
  <2> HIDE DEF row
  <2>5. \A v \in Users : \/ master'[v] = None
                         \/ /\ master[v] # None
                            /\ master'[v].expire = master[v].expire
    BY <2>2, <2>3, <2>4 DEF TypeOK, Tables
  <2> QED BY <2>2, <2>4, <2>5, StatementKeepsOpenings
<1>4. ASSUME NEW r \in Requests, Handler(r)
      PROVE  OpeningsKnown'
  BY <1>4, LightStepKeepsOpenings, ForgotKeepsOpenings, ResetKeepsOpenings,
     CopyKeepsOpenings, InsertKeepsOpenings, SelectKeepsOpenings,
     UpdateKeepsOpenings, RestoreKeepsOpenings
  DEF Handler, LightStep
<1> QED BY <1>1, <1>2, <1>3, <1>4 DEF Next, Statement

LEMMA OpeningsInit ==
  ASSUME Init
  PROVE  OpeningsKnown
<1>1. TypeOK /\ report = master /\ \A r \in Requests : ~HoldsRow(req[r])
  BY TypesInit, IdleIsEmptyHanded DEF Init, EmptyHanded
<1>2. \A u \in Users, c \in Numbers :
        fate[u][c] = IF master[u] # None /\ OpenTo(master[u], c) THEN "issued" ELSE "new"
  BY DEF Init
<1>3. ASSUME NEW u \in Users, master[u] # None, master[u].expire # None
      PROVE  Opened(u, fate)
  <2>1. CASE master[u].tokenResetPassword = None
    BY <1>2, <1>3, <2>1 DEF OpenTo, JsNumber, Numbers, Opened
  <2>2. CASE master[u].tokenResetPassword # None
    <3>1. master[u].tokenResetPassword \in Codes
      BY <1>1, <1>3, <2>2 DEF TypeOK, Tables, Rows
    <3> QED BY <1>2, <1>3, <2>2, <3>1 DEF OpenTo, JsNumber, Numbers, Opened
  <2> QED BY <2>1, <2>2
<1>4. ZeroNeedsCode
  BY <1>2 DEF ZeroNeedsCode, Numbers
<1> QED BY <1>1, <1>3, <1>4 DEF OpeningsKnown, RowOpened

(* The number 0 resets the password of nobody who never had a code or an    *)
(* expiry (users.service.ts:176-183): every row a request or the replica    *)
(* holds takes its expiry from the account itself, and only a drawn code    *)
(* (users.service.ts:161) or a registration sets the first.                 *)
THEOREM ZerosNeedCodes == Spec => []ZeroNeedsCode
<1>1. Init => OpeningsKnown
  BY OpeningsInit
<1>2. OpeningsKnown /\ Invariant /\ [Next]_vars => OpeningsKnown'
  BY OpeningsNext DEF Invariant
<1>3. OpeningsKnown => ZeroNeedsCode
  BY DEF OpeningsKnown
<1> QED BY <1>1, <1>2, <1>3, InvariantHolds, PTL DEF Spec
=============================================================================
