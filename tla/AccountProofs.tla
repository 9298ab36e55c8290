---------------------------- MODULE AccountProofs ----------------------------
(***************************************************************************)
(* The safety of Accounts for every set of users, requests and seeds.  The *)
(* invariant says that every copy of an account (the replica's row, a row  *)
(* held for saving) agrees with the account on what must not change: its   *)
(* identity, whether it was approved, which passwords it was given.        *)
(* A stale save can then write back only such a copy.                      *)
(***************************************************************************)
EXTENDS AccountTypeProofs

(* A request that reads: the tables stay, one request changes.              *)
LEMMA AgreementRead ==
  ASSUME TypeOK, Agreement, NEW r \in Requests, NEW q,
         req' = [req EXCEPT ![r] = q],
         UNCHANGED <<master, report, used, removed>>,
         AgreementOf(q, master, removed)
  PROVE  Agreement'
  BY DEF Agreement, TypeOK

LEMMA ApprovalsRead ==
  ASSUME TypeOK, Approvals, NEW r \in Requests, NEW q,
         req' = [req EXCEPT ![r] = q],
         UNCHANGED <<master, report, approved>>,
         ApprovalOf(q, approved)
  PROVE  Approvals'
  BY DEF Approvals, TypeOK

(* An accepted password stays accepted.                                     *)
Grows == \A u \in Users : accepted[u] \subseteq accepted'[u]

LEMMA AcceptanceGrows ==
  ASSUME Grows, NEW q, q.pc \in {"reload", "save", "write", "restore"} => q.user \in Users,
         AcceptanceOf(q, accepted)
  PROVE  AcceptanceOf(q, accepted')
  BY DEF Grows, AcceptanceOf, RowAccepted, HoldsRow

LEMMA AcceptancesRead ==
  ASSUME TypeOK, Shape, Acceptances, NEW r \in Requests, NEW q,
         req' = [req EXCEPT ![r] = q],
         UNCHANGED <<master, report, removed>>,
         Grows,
         removed = {} => AcceptanceOf(q, accepted')
  PROVE  Acceptances'
<1> SUFFICES ASSUME removed = {}
             PROVE  /\ \A u \in Users : RowAccepted(master[u], u, accepted')
                    /\ \A u \in Users : RowAccepted(report[u], u, accepted')
                    /\ \A s \in Requests : AcceptanceOf(req'[s], accepted')
  BY DEF Acceptances
<1>1. \A u \in Users : RowAccepted(master[u], u, accepted')
  BY DEF Acceptances, RowAccepted, Grows
<1>2. \A u \in Users : RowAccepted(report[u], u, accepted')
  BY DEF Acceptances, RowAccepted, Grows
<1>3. ASSUME NEW s \in Requests
      PROVE  AcceptanceOf(req'[s], accepted')
  <2>1. CASE s = r
    BY <2>1 DEF TypeOK
  <2>2. CASE s # r
    <3>1. req'[s] = req[s] /\ AcceptanceOf(req[s], accepted)
      BY <2>2 DEF TypeOK, Acceptances
    <3>2. req[s].pc \in {"reload", "save", "write", "restore"} => req[s].user \in Users
      BY DEF Shape, ShapeOf
    <3> QED BY <3>1, <3>2, AcceptanceGrows
  <2> QED BY <2>1, <2>2
<1> QED BY <1>1, <1>2, <1>3

(* A request that holds no row and reloads nothing has nothing to respect.  *)
LEMMA Unburdened ==
  ASSUME NEW q, ~HoldsRow(q), q.pc # "reload"
  PROVE  /\ \A t, g : AgreementOf(q, t, g)
         /\ \A ok : ApprovalOf(q, ok)
         /\ \A ok : AcceptanceOf(q, ok)
  BY DEF AgreementOf, ApprovalOf, AcceptanceOf

Safe == Agreement /\ Approvals /\ Acceptances

LEMMA UnburdenedStep ==
  ASSUME TypeOK, Shape, Safe, NEW r \in Requests, NEW q,
         req' = [req EXCEPT ![r] = q], ~HoldsRow(q), q.pc # "reload",
         UNCHANGED <<master, report, used, approved, removed>>, Grows
  PROVE  Safe'
  BY AgreementRead, ApprovalsRead, AcceptancesRead, Unburdened DEF Safe

LEMMA EndIsSafe ==
  ASSUME TypeOK, Shape, Safe, NEW r \in Requests, End(r),
         UNCHANGED <<master, report, used, approved, removed>>, Grows
  PROVE  Safe'
<1>1. ~HoldsRow(Idle) /\ Idle.pc # "reload"
  BY DEF HoldsRow, Idle
<1> QED BY <1>1, UnburdenedStep DEF End

LEMMA StartIsSafe ==
  ASSUME TypeOK, Shape, Safe, NEW r \in Requests, NEW op, NEW pc, NEW u, NEW row,
         Start(r, op, pc, u, row), pc \notin {"reload", "save", "write", "restore"},
         UNCHANGED <<master, report, used, approved, removed>>, Grows
  PROVE  Safe'
<1> DEFINE q == [Idle EXCEPT !.op = op, !.pc = pc, !.user = u, !.row = row]
<1>1. q.pc = pc
  BY DEF Idle
<1>2. ~HoldsRow(q) /\ q.pc # "reload"
  BY <1>1 DEF HoldsRow
<1>3. req' = [req EXCEPT ![r] = q]
  BY DEF Start
<1> HIDE DEF q
<1> QED BY <1>2, <1>3, UnburdenedStep

LEMMA AcceptedStays == UNCHANGED accepted => Grows
  BY DEF Grows

(* The steps that start or end a request without a row to save.             *)
LEMMA LightStepIsSafe ==
  ASSUME TypeOK, Shape, Safe, NEW r \in Requests,
         \/ CreateCheck(r) \/ Register(r) \/ ChangeGuard(r) \/ ResendRead(r)
         \/ ConfirmRead(r) \/ Mail(r) \/ Fail(r)
  PROVE  Safe'
<1>1. CASE Mail(r) \/ Fail(r)
  <2>1. End(r) /\ UNCHANGED <<master, report, used, approved, removed>> /\ Grows
    BY <1>1, AcceptedStays DEF Mail, Fail, tables, history
  <2> QED BY <2>1, EndIsSafe
<1>2. CASE CreateCheck(r) \/ Register(r)
  <2>1. UNCHANGED <<master, report, used, approved, removed>> /\ Grows
    BY <1>2, AcceptedStays DEF CreateCheck, Register, tables, history
  <2>2. PICK op, row : Start(r, op, "insert", None, row)
    BY <1>2 DEF CreateCheck, Register
  <2> QED BY <2>1, <2>2, StartIsSafe
<1>3. CASE ChangeGuard(r) \/ ResendRead(r) \/ ConfirmRead(r)
  <2>1. UNCHANGED <<master, report, used, approved, removed>> /\ Grows
    BY <1>3, AcceptedStays DEF ChangeGuard, ResendRead, ConfirmRead, tables, history
  <2>2. \E u : \/ Start(r, "change", "compare", u, None)
               \/ Start(r, "resend", "mail", u, None)
               \/ Start(r, "confirm", "forget", u, None)
    BY <1>3 DEF ChangeGuard, ResendRead, ConfirmRead
  <2> QED BY <2>1, <2>2, StartIsSafe
<1> QED BY <1>1, <1>2, <1>3

(* The steps that prepare the UPDATE of one column.                         *)
LEMMA ColumnStepIsSafe ==
  ASSUME TypeOK, Shape, Safe, NEW r \in Requests,
         \/ ConfirmForget(r) \/ StatusRead(r)
         \/ LockRead(r, "lock", Locked) \/ LockRead(r, "unlock", Unlocked)
  PROVE  Safe'
<1>1. CASE ConfirmForget(r)
  <2> DEFINE q == [req[r] EXCEPT !.pc = "write", !.cols = {"status"},
                     !.row = [BlankRow(None, None) EXCEPT !.status = Active]]
  <2>1. req[r].op = "confirm" /\ req[r] \in Request
    BY <1>1 DEF ConfirmForget, At, Shape, ShapeOf, TypeOK
  <2>2. ~HoldsRow(q) /\ q.pc # "reload"
    BY <2>1 DEF HoldsRow, Savers, Request
  <2>3. req' = [req EXCEPT ![r] = q]
    BY <1>1 DEF ConfirmForget, TypeOK
  <2>4. UNCHANGED <<master, report, used, approved, removed>> /\ Grows
    BY <1>1, AcceptedStays DEF ConfirmForget, tables, history
  <2> HIDE DEF q
  <2> QED BY <2>2, <2>3, <2>4, UnburdenedStep
<1>2. CASE \/ StatusRead(r) \/ LockRead(r, "lock", Locked)
           \/ LockRead(r, "unlock", Unlocked)
  <2>1. PICK op \in {"status", "lock", "unlock"}, u \in Users,
             cols \in {{"status"}, {"locked"}}, row \in Rows :
          req' = [req EXCEPT ![r] =
            [Idle EXCEPT !.op = op, !.pc = "write", !.user = u, !.cols = cols,
                         !.row = row]]
    <3>1. CASE StatusRead(r)
      BY <3>1, BlankStatus DEF StatusRead
    <3>2. CASE LockRead(r, "lock", Locked) \/ LockRead(r, "unlock", Unlocked)
      BY <3>2, BlankLock DEF LockRead
    <3> QED BY <1>2, <3>1, <3>2
  <2> DEFINE q == [Idle EXCEPT !.op = op, !.pc = "write", !.user = u, !.cols = cols,
                               !.row = row]
  <2>2. ~HoldsRow(q) /\ q.pc # "reload"
    BY DEF HoldsRow, Idle, Savers
  <2>3. UNCHANGED <<master, report, used, approved, removed>> /\ Grows
    BY <1>2, AcceptedStays DEF StatusRead, LockRead, tables, history
  <2>4. req' = [req EXCEPT ![r] = q]
    BY <2>1
  <2> HIDE DEF q
  <2> QED BY <2>2, <2>3, <2>4, UnburdenedStep
<1> QED BY <1>1, <1>2

-----------------------------------------------------------------------------
(* The steps that read an account and take a copy of it.                    *)

LEMMA ReportRowIsCopy ==
  ASSUME TypeOK, Agreement, Approvals, NEW u \in Users, report[u] # None
  PROVE  /\ report[u] \in Rows
         /\ u \notin removed => SameIdentity(report[u], u, master)
         /\ report[u].status = Active => u \in approved
  BY DEF TypeOK, Tables, Agreement, Approvals, RowApproved

LEMMA IdentityOfRow ==
  ASSUME NEW row \in Rows
  PROVE  Identity(row) = [address |-> row.address, email |-> row.email,
                          role |-> row.role]
  BY NullIsNoRow DEF Identity

LEMMA ForgotReadIsSafe ==
  ASSUME TypeOK, Shape, Safe, NEW r \in Requests, ForgotRead(r)
  PROVE  Safe'
<1>1. PICK u \in Users, c \in Codes, x \in Times :
        /\ Admits(report[u], Active)
        /\ req' = [req EXCEPT ![r] =
             [Idle EXCEPT !.op = "forgot", !.pc = "save", !.user = u, !.code = c,
                !.row = [report[u] EXCEPT !.tokenResetPassword = c, !.expire = x]]]
        /\ x = now + ResetTtl
  BY ExpiryIsTime DEF ForgotRead
<1> DEFINE row == [report[u] EXCEPT !.tokenResetPassword = c, !.expire = x]
           q == [Idle EXCEPT !.op = "forgot", !.pc = "save", !.user = u, !.code = c,
                             !.row = row]
<1>2. report[u] # None
  BY <1>1 DEF Admits
<1>4. report[u] \in Rows
  BY <1>2, ReportRowIsCopy DEF Safe
<1>5. row \in Rows /\ Identity(row) = Identity(report[u])
        /\ row.status = report[u].status /\ row.password = report[u].password
  <2>1. row \in Rows
    BY <1>4 DEF Rows
  <2> QED BY <1>4, <2>1, IdentityOfRow DEF Rows
<1> HIDE DEF row
<1>6. q.pc = "save" /\ q.user = u /\ q.row = row
  BY DEF Idle
<1>7. req' = [req EXCEPT ![r] = q]
  BY <1>1 DEF row
<1> HIDE DEF q
<1>8. UNCHANGED <<master, report, used, approved, removed, accepted>> /\ Grows
  BY AcceptedStays DEF ForgotRead, tables
<1>9. Agreement'
  <2>1. AgreementOf(q, master, removed)
    BY <1>2, <1>5, <1>6, ReportRowIsCopy DEF AgreementOf, SameIdentity, Safe
  <2> QED BY <1>7, <1>8, <2>1, AgreementRead DEF Safe
<1>10. Approvals'
  <2>1. ApprovalOf(q, approved)
    BY <1>2, <1>5, <1>6, ReportRowIsCopy DEF ApprovalOf, RowApproved, Safe
  <2> QED BY <1>7, <1>8, <2>1, ApprovalsRead DEF Safe
<1>11. Acceptances'
  <2>1. ASSUME removed = {} PROVE AcceptanceOf(q, accepted')
    BY <1>2, <1>5, <1>6, <1>8, <2>1 DEF AcceptanceOf, RowAccepted, Acceptances, Safe
  <2> QED BY <1>7, <1>8, <2>1, AcceptancesRead DEF Safe
<1> QED BY <1>9, <1>10, <1>11 DEF Safe

LEMMA VerifyReadIsSafe ==
  ASSUME TypeOK, Shape, Safe, NEW r \in Requests, VerifyRead(r)
  PROVE  Safe'
<1>1. PICK l \in links :
        /\ report[l[1]] # None
        /\ Start(r, "verify", "save", l[1],
                 [report[l[1]] EXCEPT !.status = PendingActive])
  BY DEF VerifyRead
<1> DEFINE u == l[1]
           row == [report[u] EXCEPT !.status = PendingActive]
           q == [Idle EXCEPT !.op = "verify", !.pc = "save", !.user = u, !.row = row]
<1>2. u \in Users
  BY DEF TypeOK
<1>3. report[u] # None /\ req' = [req EXCEPT ![r] = q]
  BY <1>1 DEF Start
<1> HIDE DEF u
<1>4. report[u] \in Rows
  BY <1>2, <1>3, ReportRowIsCopy DEF Safe
<1>5. /\ Identity(row) = Identity(report[u]) /\ row.status # Active
      /\ row.password = report[u].password
  <2>1. row \in Rows
    BY <1>4 DEF Rows, Statuses, PendingActive
  <2>2. row.status # Active
    BY <1>4 DEF Rows, PendingActive, Active
  <2> QED BY <1>4, <2>1, <2>2, IdentityOfRow DEF Rows
<1> HIDE DEF row
<1>6. q.pc = "save" /\ q.user = u /\ q.row = row
  BY DEF Idle
<1> HIDE DEF q
<1>8. UNCHANGED <<master, report, used, approved, removed, accepted>> /\ Grows
  BY AcceptedStays DEF VerifyRead, tables, history
<1>9. Agreement'
  <2>1. AgreementOf(q, master, removed)
    BY <1>2, <1>3, <1>5, <1>6, ReportRowIsCopy DEF AgreementOf, SameIdentity, Safe
  <2> QED BY <1>3, <1>8, <2>1, AgreementRead DEF Safe
<1>10. Approvals'
  <2>1. ApprovalOf(q, approved)
    BY <1>5, <1>6 DEF ApprovalOf, RowApproved
  <2> QED BY <1>3, <1>8, <2>1, ApprovalsRead DEF Safe
<1>11. Acceptances'
  <2>1. ASSUME removed = {} PROVE AcceptanceOf(q, accepted')
    BY <1>2, <1>3, <1>5, <1>6, <1>8, <2>1 DEF AcceptanceOf, RowAccepted, Acceptances, Safe
  <2> QED BY <1>3, <1>8, <2>1, AcceptancesRead DEF Safe
<1> QED BY <1>9, <1>10, <1>11 DEF Safe

LEMMA ResetCheckIsSafe ==
  ASSUME TypeOK, Shape, Safe, NEW r \in Requests, ResetCheck(r)
  PROVE  Safe'
<1>1. PICK u \in Users, c \in Numbers, p \in Passwords :
        /\ CodeAccepted(report[u], c, now)
        /\ req' = [req EXCEPT ![r] =
             [Idle EXCEPT !.op = "reset", !.pc = "reload", !.user = u, !.code = c,
                !.email = report[u].email, !.password = p]]
        /\ accepted' = [accepted EXCEPT ![u] = @ \cup {p}]
  BY DEF ResetCheck
<1> DEFINE q == [Idle EXCEPT !.op = "reset", !.pc = "reload", !.user = u, !.code = c,
                             !.email = report[u].email, !.password = p]
<1>2. report[u] # None
  BY <1>1 DEF CodeAccepted, Admits
<1>3. /\ q.pc = "reload" /\ q.user = u /\ q.email = report[u].email
      /\ q.password = p /\ ~HoldsRow(q)
  BY DEF Idle, HoldsRow
<1>4. req' = [req EXCEPT ![r] = q]
  BY <1>1
<1> HIDE DEF q
<1>5. UNCHANGED <<master, report, used, approved, removed>> /\ Grows
  BY <1>1 DEF ResetCheck, tables, TypeOK, Grows
<1>6. Agreement'
  <2>1. ASSUME u \notin removed
        PROVE  master[u] # None /\ master[u].email = report[u].email
    <3>1. /\ master[u] # None /\ Identity(report[u]) = Identity(master[u])
          /\ report[u] \in Rows /\ master[u] \in Rows
      BY <1>2, <2>1, ReportRowIsCopy DEF SameIdentity, Safe, TypeOK, Tables
    <3> QED BY <3>1, IdentityOfRow
  <2>2. AgreementOf(q, master, removed)
    BY <1>3, <2>1 DEF AgreementOf
  <2> QED BY <1>4, <1>5, <2>2, AgreementRead DEF Safe
<1>7. Approvals'
  <2>1. ApprovalOf(q, approved)
    BY <1>3 DEF ApprovalOf
  <2> QED BY <1>4, <1>5, <2>1, ApprovalsRead DEF Safe
<1>8. Acceptances'
  <2>1. AcceptanceOf(q, accepted')
    BY <1>1, <1>3 DEF AcceptanceOf, TypeOK
  <2> QED BY <1>4, <1>5, <2>1, AcceptancesRead DEF Safe
<1> QED BY <1>6, <1>7, <1>8 DEF Safe

(* A request takes a copy of the account u and an accepted password.        *)
LEMMA PasswordCopyIsSafe ==
  ASSUME TypeOK, Shape, Safe, NEW r \in Requests, NEW u \in Users, report[u] # None,
         NEW p \in Passwords, NEW q,
         req' = [req EXCEPT ![r] = q], q.pc = "save", q.user = u,
         q.row = [report[u] EXCEPT !.password = Hash(p), !.tokenResetPassword = None],
         UNCHANGED <<master, report, used, approved, removed>>, Grows,
         removed = {} => p \in accepted'[u]
  PROVE  Safe'
<1> DEFINE row == [report[u] EXCEPT !.password = Hash(p), !.tokenResetPassword = None]
<1>1. report[u] \in Rows
  BY ReportRowIsCopy DEF Safe
<1>2. row \in Rows
  BY <1>1, NewPassword
<1>3. /\ Identity(row) = Identity(report[u]) /\ row.status = report[u].status
      /\ row.password = Hash(p) /\ q.row = row
  BY <1>1, <1>2, IdentityOfRow DEF Rows
<1> HIDE DEF row
<1>4. Agreement'
  <2>1. AgreementOf(q, master, removed)
    BY <1>3, ReportRowIsCopy DEF AgreementOf, SameIdentity, Safe
  <2> QED BY <2>1, AgreementRead DEF Safe
<1>5. Approvals'
  <2>1. ApprovalOf(q, approved)
    BY <1>3, ReportRowIsCopy DEF ApprovalOf, RowApproved, Safe
  <2> QED BY <2>1, ApprovalsRead DEF Safe
<1>6. Acceptances'
  <2>1. ASSUME removed = {} PROVE AcceptanceOf(q, accepted')
    BY <1>3, <2>1, HashIsHash DEF AcceptanceOf, RowAccepted
  <2> QED BY <2>1, AcceptancesRead DEF Safe
<1> QED BY <1>4, <1>5, <1>6 DEF Safe

LEMMA UpdatePasswordIsSafe ==
  ASSUME TypeOK, Shape, Safe, NEW r \in Requests, UpdatePassword(r)
  PROVE  Safe'
<1>1. UNCHANGED <<master, report, used, approved, removed, accepted>> /\ Grows
  BY AcceptedStays DEF UpdatePassword, tables, history
<1>2. CASE End(r)
  BY <1>1, <1>2, EndIsSafe
<1>3. CASE \E u \in Users :
             /\ Admits(report[u], Active)
             /\ report[u].email = req[r].email
             /\ req' = [req EXCEPT ![r].pc = "save", ![r].user = u,
                  ![r].row = [report[u] EXCEPT
                                !.password = Hash(req[r].password),
                                !.tokenResetPassword = None]]
  <2>1. PICK u \in Users :
             /\ Admits(report[u], Active)
             /\ report[u].email = req[r].email
             /\ req' = [req EXCEPT ![r].pc = "save", ![r].user = u,
                  ![r].row = [report[u] EXCEPT
                                !.password = Hash(req[r].password),
                                !.tokenResetPassword = None]]
    BY <1>3
  <2> DEFINE v == req[r].user
             p == req[r].password
             row == [report[u] EXCEPT !.password = Hash(p), !.tokenResetPassword = None]
             q == [req[r] EXCEPT !.pc = "save", !.user = u, !.row = row]
  <2>2. /\ req[r].pc = "reload" /\ v \in Users /\ p \in Passwords
        /\ req[r].email # None /\ req[r] \in Request
    BY DEF UpdatePassword, At, Shape, ShapeOf, TypeOK
  <2>3. report[u] # None
    BY <2>1 DEF Admits
  <2>4. req' = [req EXCEPT ![r] = q]
    BY <2>1 DEF TypeOK
  <2>5. q.pc = "save" /\ q.user = u /\ q.row = row
    BY <2>2 DEF Request
  <2>6. ASSUME removed = {} PROVE p \in accepted'[u]
    <3>1. p \in accepted[v]
      BY <2>2, <2>6 DEF Safe, Acceptances, AcceptanceOf
    <3>2. master[v] # None /\ master[v].email = req[r].email
      BY <2>2, <2>6 DEF Safe, Agreement, AgreementOf
    <3>3. /\ master[u] # None /\ Identity(report[u]) = Identity(master[u])
          /\ report[u] \in Rows /\ master[u] \in Rows
      BY <2>3, <2>6, ReportRowIsCopy DEF SameIdentity, Safe, TypeOK, Tables
    <3>4. master[u].email = req[r].email
      BY <2>1, <3>3, IdentityOfRow
    <3>5. u = v
      BY <2>2, <3>2, <3>3, <3>4 DEF Safe, Agreement, UniqueIndexes
    <3> QED BY <1>1, <3>1, <3>5
  <2> HIDE DEF q
  <2> QED BY <1>1, <2>2, <2>3, <2>4, <2>5, <2>6, PasswordCopyIsSafe
<1> QED BY <1>2, <1>3 DEF UpdatePassword

LEMMA ChangePasswordIsSafe ==
  ASSUME TypeOK, Shape, Safe, NEW r \in Requests, ChangePassword(r)
  PROVE  Safe'
<1> DEFINE u == req[r].user
<1>1. UNCHANGED <<master, report, used, approved, removed>>
  BY DEF ChangePassword, tables
<1>2. u \in Users /\ req[r] \in Request
  BY DEF ChangePassword, At, Shape, ShapeOf, TypeOK
<1>3. CASE End(r) /\ UNCHANGED accepted
  BY <1>1, <1>3, EndIsSafe, AcceptedStays
<1>4. CASE \E p \in Passwords :
             /\ report[u] # None
             /\ req' = [req EXCEPT ![r].pc = "save",
                         ![r].row = [report[u] EXCEPT !.password = Hash(p),
                                                      !.tokenResetPassword = None]]
             /\ accepted' = [accepted EXCEPT ![u] = @ \cup {p}]
  <2>1. PICK p \in Passwords :
             /\ report[u] # None
             /\ req' = [req EXCEPT ![r].pc = "save",
                         ![r].row = [report[u] EXCEPT !.password = Hash(p),
                                                      !.tokenResetPassword = None]]
             /\ accepted' = [accepted EXCEPT ![u] = @ \cup {p}]
    BY <1>4
  <2> DEFINE row == [report[u] EXCEPT !.password = Hash(p), !.tokenResetPassword = None]
             q == [req[r] EXCEPT !.pc = "save", !.row = row]
  <2>2. q.pc = "save" /\ q.user = u /\ q.row = row
    BY <1>2 DEF Request
  <2>3. req' = [req EXCEPT ![r] = q]
    BY <2>1 DEF TypeOK
  <2>4. Grows /\ p \in accepted'[u]
    BY <1>2, <2>1 DEF TypeOK, Grows
  <2> HIDE DEF q
  <2> QED BY <1>1, <1>2, <2>1, <2>2, <2>3, <2>4, PasswordCopyIsSafe
<1> QED BY <1>3, <1>4 DEF ChangePassword

LEMMA SaveSelectIsSafe ==
  ASSUME TypeOK, Shape, Safe, NEW r \in Requests, SaveSelect(r)
  PROVE  Safe'
<1> DEFINE u == req[r].user
<1>1. UNCHANGED <<master, report, used, approved, removed, accepted>> /\ Grows
  BY AcceptedStays DEF SaveSelect, tables, history
<1>2. req[r].pc = "save" /\ req[r].op \in Savers /\ u \in Users /\ req[r] \in Request
  BY DEF SaveSelect, At, Shape, ShapeOf, TypeOK
<1>3. HoldsRow(req[r])
  BY <1>2 DEF HoldsRow
<1>4. PICK q : /\ req' = [req EXCEPT ![r] = q]
               /\ q.user = u /\ q.row = req[r].row /\ q.pc \in {"write", "restore"}
               /\ q.pc = "restore" => master[u] = None
  <2>1. CASE master[u] = None
    <3> DEFINE q == [req[r] EXCEPT !.pc = "restore"]
    <3>1. req' = [req EXCEPT ![r] = q]
      BY <2>1 DEF SaveSelect, Continue, TypeOK
    <3>2. q.user = u /\ q.row = req[r].row /\ q.pc = "restore"
      BY <1>2 DEF Request
    <3> QED BY <2>1, <3>1, <3>2
  <2>2. CASE master[u] # None
    <3>1. PICK cols : req' = [req EXCEPT ![r].pc = "write", ![r].cols = cols]
      BY <2>2 DEF SaveSelect
    <3> DEFINE q == [req[r] EXCEPT !.pc = "write", !.cols = cols]
    <3>2. req' = [req EXCEPT ![r] = q]
      BY <3>1 DEF TypeOK
    <3>3. q.user = u /\ q.row = req[r].row /\ q.pc = "write"
      BY <1>2 DEF Request
    <3> QED BY <3>2, <3>3
  <2> QED BY <2>1, <2>2
<1>5. AgreementOf(q, master, removed)
  BY <1>3, <1>4 DEF Safe, Agreement, AgreementOf, SameIdentity
<1>6. ApprovalOf(q, approved)
  BY <1>3, <1>4 DEF Safe, Approvals, ApprovalOf
<1>7. removed = {} => AcceptanceOf(q, accepted')
  BY <1>1, <1>3, <1>4 DEF Safe, Acceptances, AcceptanceOf
<1> QED BY <1>1, <1>4, <1>5, <1>6, <1>7, AgreementRead, ApprovalsRead, AcceptancesRead
        DEF Safe

-----------------------------------------------------------------------------
(* The steps that write the table.  A committed table t is safe when it     *)
(* keeps the identities, approvals and passwords, and no request takes up a *)
(* row in the same step.                                                    *)
Keeps(t) ==
  \A u \in Users : u \notin removed' /\ master[u] # None =>
    t[u] # None /\ Identity(t[u]) = Identity(master[u])

RequestsRelease ==
  \A s \in Requests :
    req'[s] = req[s] \/ (~HoldsRow(req'[s]) /\ req'[s].pc # "reload")

LEMMA KeepsIdentity ==
  ASSUME TypeOK, NEW t \in Tables, Keeps(t), NEW u \in Users, u \notin removed',
         NEW row, SameIdentity(row, u, master)
  PROVE  SameIdentity(row, u, t) /\ master[u].email = t[u].email
<1>1. master[u] # None /\ t[u] # None /\ Identity(t[u]) = Identity(master[u])
  BY DEF Keeps, SameIdentity
<1>2. master[u] \in Rows /\ t[u] \in Rows
  BY <1>1 DEF TypeOK, Tables
<1>3. master[u].email = t[u].email
  BY <1>1, <1>2, IdentityOfRow
<1> QED BY <1>1, <1>3 DEF SameIdentity

LEMMA CommitAgreement ==
  ASSUME TypeOK, Shape, Agreement, NEW t \in Tables, UniqueIndexes(t), Commit(t),
         Keeps(t), RequestsRelease, removed \subseteq removed',
         \A u \in Users : u \in used \/ t[u] # None => u \in used',
         \A u \in Users : u \in removed' => u \in used'
  PROVE  Agreement'
<1>1. master' = t /\ report' \in {report, t}
  BY DEF Commit
<1>2. \A u \in Users : master'[u] # None \/ report'[u] # None \/ u \in removed' => u \in used'
  BY <1>1 DEF Agreement
<1>3. ASSUME NEW u \in Users, u \notin removed', report'[u] # None
      PROVE  SameIdentity(report'[u], u, t)
  <2>1. CASE report' = t
    BY <1>3, <2>1 DEF SameIdentity
  <2>2. CASE report' = report
    <3>1. SameIdentity(report[u], u, master)
      BY <1>3, <2>2 DEF Agreement
    <3> QED BY <1>3, <2>2, <3>1, KeepsIdentity
  <2> QED BY <1>1, <2>1, <2>2
<1>4. ASSUME NEW s \in Requests
      PROVE  AgreementOf(req'[s], t, removed')
  <2>1. CASE ~HoldsRow(req'[s]) /\ req'[s].pc # "reload"
    BY <2>1, Unburdened
  <2>2. CASE req'[s] = req[s] /\ (HoldsRow(req[s]) \/ req[s].pc = "reload")
    <3> DEFINE q == req[s]
    <3>1. q.user \in Users
      BY <2>2 DEF HoldsRow, Shape, ShapeOf
    <3>2. SUFFICES ASSUME q.user \notin removed'
                   PROVE  AgreementOf(q, t, removed')
      BY <2>2 DEF AgreementOf
    <3>3. AgreementOf(q, master, removed) /\ q.user \notin removed
      BY <3>2 DEF Agreement
    <3>4. CASE HoldsRow(q)
      <4>1. SameIdentity(q.row, q.user, t)
        BY <3>1, <3>2, <3>3, <3>4, KeepsIdentity DEF AgreementOf
      <4> QED BY <3>3, <3>4, <4>1 DEF AgreementOf, HoldsRow
    <3>5. CASE q.pc = "reload"
      <4>1. master[q.user] # None /\ master[q.user].email = q.email
        BY <3>3, <3>5 DEF AgreementOf
      <4>2. SameIdentity(master[q.user], q.user, master)
        BY <4>1 DEF SameIdentity
      <4>3. t[q.user] # None /\ t[q.user].email = q.email
        BY <3>1, <3>2, <4>1, <4>2, KeepsIdentity DEF SameIdentity
      <4> QED BY <3>5, <4>3 DEF AgreementOf, HoldsRow
    <3> QED BY <2>2, <3>4, <3>5
  <2> QED BY <2>1, <2>2 DEF RequestsRelease
<1> QED BY <1>1, <1>2, <1>3, <1>4 DEF Agreement

LEMMA CommitApprovals ==
  ASSUME Approvals, NEW t, Commit(t), RequestsRelease, approved \subseteq approved',
         \A u \in Users : RowApproved(t[u], u, approved')
  PROVE  Approvals'
<1>1. \A u \in Users : RowApproved(master'[u], u, approved')
  BY DEF Commit
<1>2. \A u \in Users : RowApproved(report'[u], u, approved')
  BY DEF Commit, Approvals, RowApproved
<1>3. ASSUME NEW s \in Requests
      PROVE  ApprovalOf(req'[s], approved')
  BY DEF RequestsRelease, Approvals, ApprovalOf, RowApproved
<1> QED BY <1>1, <1>2, <1>3 DEF Approvals

LEMMA CommitAcceptances ==
  ASSUME Shape, Agreement, Acceptances, NEW t, Commit(t), RequestsRelease,
         removed \subseteq removed',
         \A u \in Users : u \in used => accepted[u] \subseteq accepted'[u],
         removed' = {} => \A u \in Users : RowAccepted(t[u], u, accepted')
  PROVE  Acceptances'
<1> SUFFICES ASSUME removed' = {}
             PROVE  /\ \A u \in Users : RowAccepted(master'[u], u, accepted')
                    /\ \A u \in Users : RowAccepted(report'[u], u, accepted')
                    /\ \A s \in Requests : AcceptanceOf(req'[s], accepted')
  BY DEF Acceptances
<1>0. removed = {}
  OBVIOUS
<1>1. \A u \in Users : RowAccepted(master'[u], u, accepted')
  BY DEF Commit
<1>2. \A u \in Users : RowAccepted(report[u], u, accepted')
  BY <1>0 DEF Acceptances, RowAccepted, Agreement
<1>3. \A u \in Users : RowAccepted(report'[u], u, accepted')
  BY <1>1, <1>2 DEF Commit
<1>4. ASSUME NEW s \in Requests
      PROVE  AcceptanceOf(req'[s], accepted')
  <2>1. CASE ~HoldsRow(req'[s]) /\ req'[s].pc # "reload"
    BY <2>1, Unburdened
  <2>2. CASE req'[s] = req[s] /\ (HoldsRow(req[s]) \/ req[s].pc = "reload")
    <3> DEFINE q == req[s]
    <3>1. q.user \in Users
      BY <2>2 DEF HoldsRow, Shape, ShapeOf
    <3>2. master[q.user] # None
      BY <1>0, <2>2 DEF Agreement, AgreementOf, SameIdentity
    <3>3. accepted[q.user] \subseteq accepted'[q.user]
      BY <3>1, <3>2 DEF Agreement
    <3>4. AcceptanceOf(q, accepted)
      BY <1>0 DEF Acceptances
    <3> QED BY <2>2, <3>3, <3>4 DEF AcceptanceOf, RowAccepted
  <2> QED BY <2>1, <2>2 DEF RequestsRelease
<1> QED BY <1>1, <1>3, <1>4

LEMMA EndReleases ==
  ASSUME TypeOK, NEW r \in Requests, End(r)
  PROVE  RequestsRelease
<1>1. ~HoldsRow(Idle) /\ Idle.pc # "reload"
  BY DEF HoldsRow, Idle
<1> HIDE DEF Idle
<1> QED BY <1>1 DEF End, RequestsRelease, TypeOK

LEMMA SavedReleases ==
  ASSUME TypeOK, NEW r \in Requests, Saved(r)
  PROVE  RequestsRelease
<1>1. CASE End(r)
  BY <1>1, EndReleases
<1>2. CASE Continue(r, "mail")
  <2>1. req'[r].pc = "mail" /\ \A s \in Requests : s # r => req'[s] = req[s]
    BY <1>2 DEF Continue, TypeOK, Request
  <2> QED BY <2>1 DEF RequestsRelease, HoldsRow
<1> QED BY <1>1, <1>2 DEF Saved

LEMMA InsertIsSafe ==
  ASSUME TypeOK, Shape, Safe, NEW r \in Requests, Insert(r)
  PROVE  Safe'
<1> DEFINE row == req[r].row
<1>1. row \in Rows /\ row.password.plain \in Passwords /\ row.password.rounds = 1
  BY DEF Insert, At, Shape, ShapeOf, HashedOnce
<1>2. PICK u \in Users \ used :
        LET table == [master EXCEPT ![u] = row] IN
        /\ used' = used \cup {u}
        /\ IF UniqueIndexes(table)
           THEN /\ Commit(table)
                /\ accepted' = [accepted EXCEPT ![u] = {row.password.plain}]
                /\ approved' = IF row.status = Active
                               THEN approved \cup {u} ELSE approved
           ELSE UNCHANGED <<tables, accepted, approved, fate>>
  BY DEF Insert
<1> DEFINE table == [master EXCEPT ![u] = row]
<1>3. End(r) /\ UNCHANGED removed /\ RequestsRelease
  BY EndReleases DEF Insert
<1>4. master[u] = None /\ u \notin removed
  BY <1>2 DEF Safe, Agreement
<1>5. CASE UniqueIndexes(table)
  <2>0. table \in Tables /\ table[u] = row /\ \A v \in Users : v # u => table[v] = master[v]
    BY <1>1 DEF TypeOK, Tables
  <2>1. /\ Commit(table)
        /\ accepted' = [accepted EXCEPT ![u] = {row.password.plain}]
        /\ approved' = IF row.status = Active THEN approved \cup {u} ELSE approved
        /\ used' = used \cup {u}
    BY <1>2, <1>5
  <2> HIDE DEF table, row
  <2>2. Agreement'
    <3>1. Keeps(table)
      BY <1>4, <2>0 DEF Keeps
    <3>2. \A v \in Users : v \in used \/ table[v] # None => v \in used'
      BY <2>0, <2>1 DEF Safe, Agreement
    <3>3. \A v \in Users : v \in removed' => v \in used'
      BY <1>3, <2>1 DEF Safe, Agreement
    <3> QED BY <1>3, <1>5, <2>0, <2>1, <3>1, <3>2, <3>3, CommitAgreement DEF Safe
  <2>3. Approvals'
    <3>1. \A v \in Users : RowApproved(table[v], v, approved')
      BY <1>1, <2>0, <2>1 DEF Safe, Approvals, RowApproved
    <3>2. approved \subseteq approved'
      BY <2>1
    <3> QED BY <1>3, <2>1, <3>1, <3>2, CommitApprovals DEF Safe
  <2>4. Acceptances'
    <3>1. \A v \in Users : v \in used => accepted[v] \subseteq accepted'[v]
      BY <1>2, <2>1 DEF TypeOK
    <3>2. ASSUME removed' = {}, NEW v \in Users
          PROVE  RowAccepted(table[v], v, accepted')
      <4>1. CASE v = u
        BY <1>1, <2>0, <2>1, <4>1 DEF RowAccepted, TypeOK
      <4>2. CASE v # u
        BY <1>3, <2>0, <2>1, <3>2, <4>2 DEF Safe, Acceptances, RowAccepted, TypeOK
      <4> QED BY <4>1, <4>2
    <3> QED BY <1>3, <2>1, <3>1, <3>2, CommitAcceptances DEF Safe
  <2> QED BY <2>2, <2>3, <2>4 DEF Safe
<1>6. CASE ~UniqueIndexes(table)
  <2>1. UNCHANGED <<master, report, accepted, approved>> /\ used' = used \cup {u}
    BY <1>2, <1>6 DEF tables
  <2>2. ~HoldsRow(Idle) /\ Idle.pc # "reload"
    BY DEF HoldsRow, Idle
  <2>3. req' = [req EXCEPT ![r] = Idle]
    BY <1>3 DEF End
  <2> HIDE DEF Idle
  <2>4. Agreement'
    <3>1. \A s \in Requests : AgreementOf(req'[s], master, removed)
      BY <2>2, <2>3, Unburdened DEF Safe, Agreement, TypeOK
    <3> QED BY <1>3, <2>1, <3>1 DEF Safe, Agreement
  <2>5. Approvals'
    BY <2>1, <2>2, <2>3, ApprovalsRead, Unburdened DEF Safe
  <2>6. Acceptances'
    BY <1>3, <2>1, <2>2, <2>3, AcceptancesRead, AcceptedStays, Unburdened DEF Safe
  <2> QED BY <2>4, <2>5, <2>6 DEF Safe
<1> QED BY <1>5, <1>6

(* SET cols with the values of a row of the same identity.                  *)
LEMMA UpdatedIdentity ==
  ASSUME NEW old \in Rows, NEW new \in Rows, NEW cols,
         \/ Identity(new) = Identity(old)
         \/ cols = {"locked"}
         \/ cols = {"status"}
  PROVE  Identity(Updated(old, new, cols)) = Identity(old)
<1>1. Updated(old, new, cols) \in Rows
  BY UpdatedIsRow
<1>2. /\ Updated(old, new, cols).address = old.address
      /\ Updated(old, new, cols).email = old.email
      /\ Updated(old, new, cols).role = old.role
  <2>1. CASE cols = {"locked"} \/ cols = {"status"}
    BY <2>1 DEF Updated
  <2>2. CASE Identity(new) = Identity(old)
    <3>1. new.address = old.address /\ new.email = old.email /\ new.role = old.role
      BY <2>2, IdentityOfRow
    <3> QED BY <3>1 DEF Updated
  <2> QED BY <2>1, <2>2
<1> QED BY <1>1, <1>2, IdentityOfRow

(* Saving a row changes no identity but that of an id that was removed.     *)
LEMMA WriteIsSafe ==
  ASSUME TypeOK, Shape, Safe, NEW r \in Requests, SaveUpdate(r)
  PROVE  Safe'
<1> DEFINE u == req[r].user
           row == req[r].row
           table == AfterUpdate(r)
<1>1. /\ req[r].pc = "write" /\ UNCHANGED <<used, accepted, removed>>
  BY SaveUpdateCases DEF At
<1>2. u \in Users /\ row \in Rows /\ table \in Tables
  BY <1>1, AfterUpdateIsTable DEF Shape, ShapeOf
<1>3. CASE UNCHANGED <<tables, approved, fate>> /\ End(r)
  <2>1. UNCHANGED <<master, report, used, approved, removed>> /\ Grows
    BY <1>1, <1>3, AcceptedStays DEF tables
  <2> QED BY <1>3, <2>1, EndIsSafe
<1>4. CASE /\ UniqueIndexes(table)
           /\ Commit(table)
           /\ approved' = IF req[r].op \in {"status", "confirm"} /\ row.status = Active
                          THEN approved \cup {u} ELSE approved
           /\ Saved(r)
  <2>1. RequestsRelease /\ approved \subseteq approved'
    BY <1>4, SavedReleases
  <2>2. \A v \in Users : v # u => table[v] = master[v]
    BY DEF AfterUpdate, TypeOK, Tables
  <2>3. CASE master[u] = None
    <3>1. table = master
      BY <2>3 DEF AfterUpdate
    <3> HIDE DEF table
    <3>2. Keeps(table)
      BY <3>1 DEF Keeps
    <3>3. Agreement'
      BY <1>1, <1>2, <1>4, <2>1, <3>1, <3>2, CommitAgreement DEF Safe, Agreement
    <3>4. Approvals'
      BY <1>4, <2>1, <3>1, CommitApprovals DEF Safe, Approvals, RowApproved
    <3>5. Acceptances'
      BY <1>1, <1>4, <2>1, <3>1, CommitAcceptances DEF Safe, Acceptances
    <3> QED BY <3>3, <3>4, <3>5 DEF Safe
  <2>4. CASE master[u] # None
    <3> DEFINE old == master[u]
               new == Updated(old, row, req[r].cols)
    <3>1. table[u] = new /\ old \in Rows /\ new \in Rows
      BY <1>2, <2>4, UpdatedIsRow DEF AfterUpdate, TypeOK, Tables
    <3>2. \/ req[r].op \in {"lock", "unlock"} /\ req[r].cols = {"locked"}
          \/ req[r].op \in {"status", "confirm"} /\ req[r].cols = {"status"}
          \/ HoldsRow(req[r])
      BY <1>1 DEF Shape, ShapeOf, HoldsRow
    <3>3. ASSUME u \notin removed PROVE Identity(new) = Identity(old)
      <4>1. HoldsRow(req[r]) => Identity(row) = Identity(old)
        BY <3>3 DEF Safe, Agreement, AgreementOf, SameIdentity
      <4> QED BY <1>2, <3>1, <3>2, <4>1, UpdatedIdentity
    <3>4. RowApproved(new, u, approved')
      <4>1. RowApproved(old, u, approved)
        BY <1>2 DEF Safe, Approvals
      <4>2. HoldsRow(req[r]) => RowApproved(row, u, approved)
        BY DEF Safe, Approvals, ApprovalOf
      <4>3. new.status \in {old.status, row.status}
              /\ (req[r].cols = {"locked"} => new.status = old.status)
        BY DEF Updated
      <4>4. CASE HoldsRow(req[r])
        BY <1>2, <2>1, <2>4, <4>1, <4>2, <4>3, <4>4, NullIsNoRow DEF RowApproved
      <4>5. CASE req[r].op \in {"lock", "unlock"} /\ req[r].cols = {"locked"}
        BY <2>1, <2>4, <4>1, <4>3, <4>5 DEF RowApproved
      <4>6. CASE req[r].op \in {"status", "confirm"} /\ req[r].cols = {"status"}
        BY <1>4, <2>1, <2>4, <4>1, <4>3, <4>6 DEF RowApproved
      <4> QED BY <3>2, <4>4, <4>5, <4>6
    <3>5. ASSUME removed = {} PROVE RowAccepted(new, u, accepted)
      <4>1. RowAccepted(old, u, accepted)
        BY <1>2, <3>5 DEF Safe, Acceptances
      <4>2. HoldsRow(req[r]) => RowAccepted(row, u, accepted)
        BY <3>5 DEF Safe, Acceptances, AcceptanceOf
      <4>3. new.password \in {old.password, row.password}
              /\ (req[r].cols \in {{"locked"}, {"status"}} => new.password = old.password)
        BY DEF Updated
      <4> QED BY <1>2, <2>4, <3>2, <4>1, <4>2, <4>3, NullIsNoRow DEF RowAccepted
    <3> HIDE DEF table, new
    <3>6. Keeps(table)
      BY <1>1, <2>2, <3>1, <3>3, NullIsNoRow DEF Keeps
    <3>7. Agreement'
      <4>1. \A v \in Users : v \in used \/ table[v] # None => v \in used'
        BY <1>1, <2>2, <2>4 DEF Safe, Agreement
      <4>2. \A v \in Users : v \in removed' => v \in used'
        BY <1>1 DEF Safe, Agreement
      <4> QED BY <1>1, <1>2, <1>4, <2>1, <3>6, <4>1, <4>2, CommitAgreement DEF Safe
    <3>8. Approvals'
      <4>1. \A v \in Users : RowApproved(table[v], v, approved')
        BY <2>1, <2>2, <3>1, <3>4 DEF Safe, Approvals, RowApproved
      <4> QED BY <1>4, <2>1, <4>1, CommitApprovals DEF Safe
    <3>9. Acceptances'
      <4>1. ASSUME removed' = {}, NEW v \in Users
            PROVE  RowAccepted(table[v], v, accepted')
        BY <1>1, <2>2, <3>1, <3>5, <4>1 DEF Safe, Acceptances
      <4> QED BY <1>1, <1>4, <2>1, <4>1, CommitAcceptances DEF Safe
    <3> QED BY <3>7, <3>8, <3>9 DEF Safe
  <2> QED BY <2>3, <2>4
<1> QED BY <1>3, <1>4, SaveUpdateCases

LEMMA SaveInsertIsSafe ==
  ASSUME TypeOK, Shape, Safe, NEW r \in Requests, SaveInsert(r)
  PROVE  Safe'
<1> DEFINE u == req[r].user
           row == req[r].row
           back == Restored(req[r])
           table == [master EXCEPT ![u] = back]
<1>1. /\ req[r].pc = "restore" /\ UNCHANGED <<used, accepted, removed, approved>>
  BY SaveInsertCases DEF At, history
<1>2. u \in Users /\ row \in Rows /\ HoldsRow(req[r]) /\ req[r].op \in Savers
  BY <1>1 DEF Shape, ShapeOf, HoldsRow
<1>3. u \in removed
  BY <1>1, <1>2 DEF Safe, Agreement, AgreementOf
<1>4. CASE UNCHANGED <<tables, fate>> /\ End(r)
  <2>1. UNCHANGED <<master, report, used, approved, removed>> /\ Grows
    BY <1>1, <1>4, AcceptedStays DEF tables
  <2> QED BY <1>4, <2>1, EndIsSafe
<1>5. CASE UniqueIndexes(table) /\ Commit(table) /\ Saved(r)
  <2>1. back \in Rows /\ RowApproved(back, u, approved)
    <3>1. back \in Rows
      BY <1>2, RestoredIsRow
    <3>2. RowApproved(row, u, approved)
      BY <1>2 DEF Safe, Approvals, ApprovalOf
    <3>3. back.status \in {Submit, row.status}
      BY <1>2 DEF Restored, BlankRow, Rows
    <3> QED BY <1>2, <3>1, <3>2, <3>3, NullIsNoRow DEF RowApproved, Submit, Active
  <2> HIDE DEF back
  <2>2. /\ table \in Tables /\ table[u] = back
        /\ \A v \in Users : v # u => table[v] = master[v]
    BY <1>2, <2>1 DEF TypeOK, Tables
  <2> HIDE DEF table
  <2>3. RequestsRelease
    BY <1>5, SavedReleases
  <2>4. Agreement'
    <3>1. Keeps(table)
      BY <1>1, <1>3, <2>2 DEF Keeps
    <3>2. \A v \in Users : v \in used \/ table[v] # None => v \in used'
      BY <1>1, <1>3, <2>2 DEF Safe, Agreement
    <3>3. \A v \in Users : v \in removed' => v \in used'
      BY <1>1 DEF Safe, Agreement
    <3> QED BY <1>1, <1>5, <2>2, <2>3, <3>1, <3>2, <3>3, CommitAgreement DEF Safe
  <2>5. Approvals'
    <3>1. \A v \in Users : RowApproved(table[v], v, approved')
      BY <1>1, <2>1, <2>2 DEF Safe, Approvals
    <3> QED BY <1>1, <1>5, <2>3, <3>1, CommitApprovals DEF Safe
  <2>6. Acceptances'
    BY <1>1, <1>3 DEF Acceptances
  <2> QED BY <2>4, <2>5, <2>6 DEF Safe
<1> QED BY <1>4, <1>5, SaveInsertCases

LEMMA SetFirstLoginIsSafe ==
  ASSUME TypeOK, Shape, Safe, NEW u \in Users, SetFirstLogin(u)
  PROVE  Safe'
<1>1. PICK b \in BOOLEAN : Commit([master EXCEPT ![u].isFirstLogin = b])
  BY DEF SetFirstLogin
<1> DEFINE row == [master[u] EXCEPT !.isFirstLogin = b]
           table == [master EXCEPT ![u] = row]
<1>2. /\ master[u] # None /\ master[u] \in Rows
      /\ UNCHANGED <<req, used, accepted, approved, removed>> /\ RequestsRelease
  BY DEF SetFirstLogin, TypeOK, Tables, history, RequestsRelease
<1>3. /\ row \in Rows /\ Identity(row) = Identity(master[u])
      /\ row.address = master[u].address /\ row.email = master[u].email
      /\ row.status = master[u].status /\ row.password = master[u].password
  <2>1. row \in Rows
    BY <1>2 DEF Rows
  <2> QED BY <1>2, <2>1, IdentityOfRow DEF Rows
<1>4. Commit(table)
  BY <1>1
<1> HIDE DEF row
<1>5. /\ table \in Tables /\ table[u] = row
      /\ \A v \in Users : v # u => table[v] = master[v]
  BY <1>3 DEF TypeOK, Tables
<1> HIDE DEF table
<1>6. UniqueIndexes(table)
  BY <1>2, <1>3, <1>5 DEF UniqueIndexes, Safe, Agreement
<1>7. Agreement'
  <2>1. Keeps(table)
    BY <1>3, <1>5, NullIsNoRow DEF Keeps
  <2>2. \A v \in Users : v \in used \/ table[v] # None => v \in used'
    BY <1>2, <1>5 DEF Safe, Agreement
  <2>3. \A v \in Users : v \in removed' => v \in used'
    BY <1>2 DEF Safe, Agreement
  <2> QED BY <1>2, <1>4, <1>5, <1>6, <2>1, <2>2, <2>3, CommitAgreement DEF Safe
<1>8. Approvals'
  <2>1. \A v \in Users : RowApproved(table[v], v, approved')
    BY <1>2, <1>3, <1>5 DEF Safe, Approvals, RowApproved
  <2> QED BY <1>2, <1>4, <2>1, CommitApprovals DEF Safe
<1>9. Acceptances'
  <2>1. ASSUME removed' = {}, NEW v \in Users
        PROVE  RowAccepted(table[v], v, accepted')
    BY <1>2, <1>3, <1>5, <2>1 DEF Safe, Acceptances, RowAccepted
  <2> QED BY <1>2, <1>4, <2>1, CommitAcceptances DEF Safe
<1> QED BY <1>7, <1>8, <1>9 DEF Safe

LEMMA RemoveIsSafe ==
  ASSUME TypeOK, Shape, Safe, NEW u \in Users, Remove(u)
  PROVE  Safe'
<1> DEFINE table == [master EXCEPT ![u] = None]
<1>1. /\ Commit(table) /\ removed' = removed \cup {u} /\ master[u] # None
      /\ UNCHANGED <<req, used, accepted, approved>> /\ RequestsRelease
  BY DEF Remove, RequestsRelease
<1>2. /\ table \in Tables /\ table[u] = None
      /\ \A v \in Users : v # u => table[v] = master[v]
  BY DEF TypeOK, Tables
<1> HIDE DEF table
<1>3. UniqueIndexes(table)
  BY <1>2 DEF UniqueIndexes, Safe, Agreement
<1>4. Agreement'
  <2>1. Keeps(table)
    BY <1>1, <1>2 DEF Keeps
  <2>2. \A v \in Users : v \in used \/ table[v] # None => v \in used'
    BY <1>1, <1>2 DEF Safe, Agreement
  <2>3. \A v \in Users : v \in removed' => v \in used'
    BY <1>1 DEF Safe, Agreement
  <2>4. removed \subseteq removed'
    BY <1>1
  <2> QED BY <1>1, <1>2, <1>3, <2>1, <2>2, <2>3, <2>4, CommitAgreement DEF Safe
<1>5. Approvals'
  <2>1. \A v \in Users : RowApproved(table[v], v, approved')
    BY <1>1, <1>2 DEF Safe, Approvals, RowApproved
  <2> QED BY <1>1, <2>1, CommitApprovals DEF Safe
<1>6. Acceptances'
  BY <1>1 DEF Acceptances
<1> QED BY <1>4, <1>5, <1>6 DEF Safe

-----------------------------------------------------------------------------
(* The steps that touch neither an account nor a request, and the replica.  *)
LEMMA QuietIsSafe ==
  ASSUME Safe, UNCHANGED <<master, report, req, used, accepted, approved, removed>>
  PROVE  Safe'
<1>1. Agreement'
  BY DEF Safe, Agreement
<1>2. Approvals'
  BY DEF Safe, Approvals
<1>3. Acceptances'
  BY DEF Safe, Acceptances
<1> QED BY <1>1, <1>2, <1>3 DEF Safe

LEMMA CatchUpIsSafe ==
  ASSUME TypeOK, Shape, Safe, CatchUp
  PROVE  Safe'
<1>1. /\ report' = master
      /\ UNCHANGED <<master, req, used, accepted, approved, removed>>
  BY DEF CatchUp, history
<1>2. Agreement'
  BY <1>1 DEF Safe, Agreement, SameIdentity
<1>3. Approvals'
  BY <1>1 DEF Safe, Approvals
<1>4. Acceptances'
  BY <1>1 DEF Safe, Acceptances
<1> QED BY <1>2, <1>3, <1>4 DEF Safe

LEMMA HandlerIsSafe ==
  ASSUME TypeOK, Shape, Safe, NEW r \in Requests, Handler(r)
  PROVE  Safe'
BY LightStepIsSafe, ColumnStepIsSafe, InsertIsSafe, ForgotReadIsSafe,
   ResetCheckIsSafe, UpdatePasswordIsSafe, ChangePasswordIsSafe, VerifyReadIsSafe,
   SaveSelectIsSafe, WriteIsSafe, SaveInsertIsSafe
DEF Handler

LEMMA StatementIsSafe ==
  ASSUME TypeOK, Shape, Safe, NEW u \in Users, Statement(u)
  PROVE  Safe'
<1>1. CASE GenerateActiveToken(u) \/ ActiveTokenExpires(u)
  <2>1. UNCHANGED <<master, report, req, used, accepted, approved, removed>>
    BY <1>1 DEF GenerateActiveToken, ActiveTokenExpires, tables, history
  <2> QED BY <2>1, QuietIsSafe
<1> QED BY <1>1, SetFirstLoginIsSafe, RemoveIsSafe DEF Statement

LEMMA SafeStep ==
  ASSUME TypeOK, Shape, Safe, [Next]_vars
  PROVE  Safe'
<1>1. CASE Tick \/ UNCHANGED vars
  <2>1. UNCHANGED <<master, report, req, used, accepted, approved, removed>>
    BY <1>1 DEF Tick, vars, tables, history
  <2> QED BY <2>1, QuietIsSafe
<1> QED BY <1>1, HandlerIsSafe, StatementIsSafe, CatchUpIsSafe DEF Next

LEMMA SafeInit ==
  ASSUME Init
  PROVE  Safe
<1>1. TypeOK
  BY TypesInit
<1>2. /\ master = report /\ removed = {} /\ used = {u \in Users : master[u] # None}
      /\ approved = {u \in Users : master[u] # None /\ master[u].status = Active}
  BY DEF Init
<1>3. UniqueIndexes(master)
  BY AccountConstants DEF Init
<1>4. ASSUME NEW r \in Requests
      PROVE  ~HoldsRow(req[r]) /\ req[r].pc # "reload"
  BY DEF Init, Idle, HoldsRow
<1>5. Agreement
  BY <1>2, <1>3, <1>4, Unburdened DEF Agreement, SameIdentity
<1>6. Approvals
  BY <1>2, <1>4, Unburdened DEF Approvals, RowApproved
<1>7. Acceptances
  <2>1. ASSUME NEW u \in Users
        PROVE  RowAccepted(master[u], u, accepted)
    BY AccountConstants DEF Init, RowAccepted
  <2> QED BY <1>2, <1>4, <2>1, Unburdened DEF Acceptances
<1> QED BY <1>5, <1>6, <1>7 DEF Safe

-----------------------------------------------------------------------------
(* The invariant holds in every reachable state: whatever copies of an      *)
(* account the replica and the requests of users.service.ts and             *)
(* auth.service.ts hold, they agree with it where it matters.               *)
THEOREM InvariantHolds == Spec => []Invariant
<1>1. Init => Invariant
  BY TypesInit, SafeInit DEF Invariant, Safe
<1>2. Invariant /\ [Next]_vars => Invariant'
  BY TypesStep, SafeStep DEF Invariant, Safe
<1> QED BY <1>1, <1>2, PTL DEF Spec

(* Every variable keeps its type, for any users, requests and seeds.        *)
THEOREM TypeCorrect == Spec => []TypeOK
<1>1. Invariant => TypeOK
  BY DEF Invariant
<1> QED BY <1>1, InvariantHolds, PTL

(* A stored password was accepted for that very account, by whatever the    *)
(* program asks for: updatePassword reloads by e-mail address               *)
(* (users.service.ts:187), and no stale save brings in the password of      *)
(* another account.                                                         *)
THEOREM PasswordsAccepted == Spec => []StoredPasswordWasAccepted
<1>1. Invariant => StoredPasswordWasAccepted
  BY DEF Invariant, Acceptances, RowAccepted, StoredPasswordWasAccepted
<1> QED BY <1>1, InvariantHolds, PTL

(* An Active account was created active, approved or confirmed: a stale     *)
(* save (users.service.ts:192, 215, auth.service.ts:97) can bring an old    *)
(* approval back, never a new one.                                          *)
THEOREM Approved == Spec => []ActiveWasApproved
<1>1. Invariant => ActiveWasApproved
  BY DEF Invariant, Approvals, RowApproved, ActiveWasApproved
<1> QED BY <1>1, InvariantHolds, PTL

-----------------------------------------------------------------------------
(* The operations that write the columns they own.                          *)
OwnColumnsOps == Operations \cap {"reset", "change", "verify"} = {}

LEMMA NarrowRequest ==
  ASSUME TypeOK, Narrow, NEW r \in Requests, NEW q,
         req' = [req EXCEPT ![r] = q], NarrowOf(q)
  PROVE  Narrow'
  BY DEF TypeOK, Narrow

LEMMA NarrowEnd ==
  ASSUME TypeOK, Narrow, NEW r \in Requests, End(r)
  PROVE  Narrow'
<1>1. NarrowOf(Idle)
  BY DEF NarrowOf, Idle
<1> QED BY <1>1, NarrowRequest DEF End

LEMMA NarrowStart ==
  ASSUME TypeOK, Narrow, NEW r \in Requests, NEW op, NEW pc, NEW u, NEW row,
         Start(r, op, pc, u, row), op \notin {"reset", "change", "verify"},
         pc # "write"
  PROVE  Narrow'
<1> DEFINE q == [Idle EXCEPT !.op = op, !.pc = pc, !.user = u, !.row = row]
<1>1. NarrowOf(q)
  BY DEF NarrowOf, Idle
<1> QED BY <1>1, NarrowRequest DEF Start

LEMMA NarrowContinue ==
  ASSUME TypeOK, Narrow, NEW r \in Requests, NEW pc \in {"restore", "mail"},
         Continue(r, pc)
  PROVE  Narrow'
<1> DEFINE q == [req[r] EXCEPT !.pc = pc]
<1>1. q.op = req[r].op /\ q.pc = pc
  BY DEF TypeOK, Request
<1>2. req' = [req EXCEPT ![r] = q]
  BY DEF Continue, TypeOK
<1> HIDE DEF q
<1>3. NarrowOf(q)
  BY <1>1 DEF Narrow, NarrowOf
<1> QED BY <1>2, <1>3, NarrowRequest

LEMMA NarrowStep ==
  ASSUME OwnColumnsOps, Invariant, Narrow, [Next]_vars
  PROVE  Narrow'
<1> USE DEF Invariant
<1>1. CASE UNCHANGED req
  BY <1>1 DEF Narrow
<1>2. ASSUME NEW r \in Requests, Handler(r)
      PROVE  Narrow'
  <2>1. ~ResetCheck(r) /\ ~ChangeGuard(r) /\ ~VerifyRead(r)
    BY DEF OwnColumnsOps, ResetCheck, ChangeGuard, VerifyRead, Free
  <2>2. NarrowOf(req[r]) /\ ShapeOf(req[r]) /\ req[r] \in Request
    BY DEF Narrow, Shape, TypeOK
  <2>3. ~UpdatePassword(r) /\ ~ChangePassword(r)
    BY <2>2 DEF UpdatePassword, ChangePassword, At, ShapeOf, NarrowOf
  <2>4. CASE Insert(r) \/ Mail(r) \/ Fail(r)
    BY <2>4, NarrowEnd DEF Insert, Mail, Fail
  <2>5. CASE CreateCheck(r) \/ Register(r) \/ ResendRead(r) \/ ConfirmRead(r)
    <3>1. CASE CreateCheck(r)
      BY <3>1, NarrowStart DEF CreateCheck
    <3>2. CASE Register(r)
      BY <3>2, NarrowStart DEF Register
    <3>3. CASE ResendRead(r) \/ ConfirmRead(r)
      BY <3>3, NarrowStart DEF ResendRead, ConfirmRead
    <3> QED BY <2>5, <3>1, <3>2, <3>3
  <2>6. CASE ForgotRead(r)
    <3>1. PICK u \in Users, c \in Codes :
            req' = [req EXCEPT ![r] =
              [Idle EXCEPT !.op = "forgot", !.pc = "save", !.user = u, !.code = c,
                 !.row = [report[u] EXCEPT !.tokenResetPassword = c,
                                           !.expire = now + ResetTtl]]]
      BY <2>6 DEF ForgotRead
    <3> DEFINE row == [report[u] EXCEPT !.tokenResetPassword = c,
                                        !.expire = now + ResetTtl]
               q == [Idle EXCEPT !.op = "forgot", !.pc = "save", !.user = u,
                                 !.code = c, !.row = row]
    <3> HIDE DEF row
    <3>2. NarrowOf(q)
      BY DEF NarrowOf, Idle
    <3>3. req' = [req EXCEPT ![r] = q]
      BY <3>1 DEF row
    <3> HIDE DEF q
    <3> QED BY <3>2, <3>3, NarrowRequest
  <2>7. CASE ConfirmForget(r)
    <3> DEFINE row == [BlankRow(None, None) EXCEPT !.status = Active]
               q == [req[r] EXCEPT !.pc = "write", !.cols = {"status"}, !.row = row]
    <3>1. req[r].op = "confirm"
      BY <2>2, <2>7 DEF ConfirmForget, At, ShapeOf
    <3>2. req' = [req EXCEPT ![r] = q]
      BY <2>7 DEF ConfirmForget, TypeOK
    <3> HIDE DEF row
    <3>3. NarrowOf(q)
      BY <2>2, <3>1 DEF NarrowOf, Request
    <3> HIDE DEF q
    <3> QED BY <3>2, <3>3, NarrowRequest
  <2>8. CASE \/ StatusRead(r) \/ LockRead(r, "lock", Locked)
             \/ LockRead(r, "unlock", Unlocked)
    <3>0. PICK op \in {"status", "lock", "unlock"} : \E u, cols, row :
            req' = [req EXCEPT ![r] =
              [Idle EXCEPT !.op = op, !.pc = "write", !.user = u, !.cols = cols,
                           !.row = row]]
      BY <2>8 DEF StatusRead, LockRead
    <3>1. PICK u, cols, row :
            req' = [req EXCEPT ![r] =
              [Idle EXCEPT !.op = op, !.pc = "write", !.user = u, !.cols = cols,
                           !.row = row]]
      BY <3>0
    <3> DEFINE q == [Idle EXCEPT !.op = op, !.pc = "write", !.user = u,
                                 !.cols = cols, !.row = row]
    <3>2. NarrowOf(q)
      BY DEF NarrowOf, Idle
    <3> HIDE DEF q
    <3>3. req' = [req EXCEPT ![r] = q]
      BY <3>1 DEF q
    <3> QED BY <3>2, <3>3, NarrowRequest
  <2>9. CASE SaveSelect(r)
    <3>1. CASE master[req[r].user] = None
      BY <2>9, <3>1, NarrowContinue DEF SaveSelect
    <3>2. CASE master[req[r].user] # None
      <4> DEFINE cols == Rehashed(req[r].op) \cup
                         (Differing(master[req[r].user], req[r].row)
                            \cap EntityColumns(req[r].op))
                 q == [req[r] EXCEPT !.pc = "write", !.cols = cols]
      <4>1. req' = [req EXCEPT ![r] = q]
        BY <2>9, <3>2 DEF SaveSelect, TypeOK
      <4>2. req[r].op = "forgot" => cols \subseteq {"tokenResetPassword", "expire"}
        BY DEF Rehashed, EntityColumns
      <4> HIDE DEF cols
      <4>3. NarrowOf(q)
        BY <2>2, <4>2 DEF NarrowOf, Request
      <4> HIDE DEF q
      <4> QED BY <4>1, <4>3, NarrowRequest
    <3> QED BY <3>1, <3>2
  <2>10. CASE SaveUpdate(r) \/ SaveInsert(r)
    <3>1. Saved(r) \/ End(r)
      BY <2>10, SaveUpdateCases, SaveInsertCases
    <3> QED BY <3>1, NarrowEnd, NarrowContinue DEF Saved
  <2> QED BY <1>2, <2>1, <2>3, <2>4, <2>5, <2>6, <2>7, <2>8, <2>9, <2>10 DEF Handler
<1>3. CASE \/ \E u \in Users : Statement(u)
           \/ CatchUp \/ Tick \/ UNCHANGED vars
  BY <1>1, <1>3 DEF Statement, GenerateActiveToken, ActiveTokenExpires, SetFirstLogin,
     Remove, CatchUp, Tick, vars
<1> QED BY <1>2, <1>3 DEF Next

(* A table step: which account it wrote, and on whose behalf.               *)
LEMMA NarrowWrite ==
  ASSUME Invariant, Narrow, NEW r \in Requests, SaveUpdate(r),
         NEW u \in Users, master[u] # None, master'[u] # None
  PROVE  /\ master[u].locked # master'[u].locked => Writing({"lock", "unlock"})
         /\ master[u].status # master'[u].status => Writing({"status", "confirm"})
<1> USE DEF Invariant
<1>1. /\ req[r].pc = "write" /\ req[r].user \in Users /\ req[r].row \in Rows
      /\ NarrowOf(req[r]) /\ ShapeOf(req[r]) /\ req[r] \in Request
  BY SaveUpdateCases DEF At, Shape, ShapeOf, Narrow, TypeOK
<1>2. ~At(r, "write")'
  <2>1. Saved(r) \/ End(r)
    BY SaveUpdateCases
  <2>2. req'[r].pc \in {"mail", "idle"}
    BY <2>1 DEF Saved, Continue, End, Idle, TypeOK, Request
  <2> QED BY <2>2 DEF At
<1>3. CASE UNCHANGED tables
  BY <1>3 DEF tables
<1>4. CASE Commit(AfterUpdate(r))
  <2>1. CASE u = req[r].user
    <3>1. master'[u] = Updated(master[u], req[r].row, req[r].cols)
      BY <1>1, <1>4, <2>1 DEF Commit, AfterUpdate, TypeOK, Tables
    <3>2. master[u].locked # master'[u].locked => "locked" \in req[r].cols
      BY <3>1 DEF Updated
    <3>3. master[u].status # master'[u].status => "status" \in req[r].cols
      BY <3>1 DEF Updated
    <3>4. "locked" \in req[r].cols => req[r].op \in {"lock", "unlock"}
      BY <1>1 DEF NarrowOf, ShapeOf, Savers
    <3>5. "status" \in req[r].cols => req[r].op \in {"status", "confirm"}
      BY <1>1 DEF NarrowOf, ShapeOf, Savers
    <3> QED BY <1>1, <1>2, <3>2, <3>3, <3>4, <3>5 DEF Writing, At
  <2>2. CASE u # req[r].user
    BY <1>4, <2>2 DEF Commit, AfterUpdate, TypeOK, Tables
  <2> QED BY <2>1, <2>2
<1> QED BY <1>3, <1>4, SaveUpdateCases

LEMMA OwnColumnsStep ==
  ASSUME Invariant, Narrow, [Next]_vars,
         NEW u \in Users, master[u] # None, master'[u] # None
  PROVE  /\ master[u].locked # master'[u].locked => Writing({"lock", "unlock"})
         /\ master[u].status # master'[u].status => Writing({"status", "confirm"})
<1> USE DEF Invariant
<1>1. CASE UNCHANGED master
  BY <1>1
<1>2. ASSUME NEW r \in Requests, Insert(r)
      PROVE  UNCHANGED <<master[u]>>
  <2>1. u \in used
    BY DEF Agreement
  <2>2. PICK v \in Users \ used : \/ UNCHANGED tables
                                 \/ Commit([master EXCEPT ![v] = req[r].row])
    BY <1>2 DEF Insert
  <2> QED BY <2>1, <2>2 DEF tables, Commit, TypeOK, Tables
<1>3. ASSUME NEW r \in Requests, SaveInsert(r)
      PROVE  UNCHANGED <<master[u]>>
  <2>1. \/ UNCHANGED tables
        \/ /\ master[req[r].user] = None
           /\ Commit([master EXCEPT ![req[r].user] = Restored(req[r])])
    BY <1>3, SaveInsertCases
  <2> QED BY <2>1 DEF tables, Commit, TypeOK, Tables
<1>4. ASSUME NEW v \in Users, SetFirstLogin(v) \/ Remove(v)
      PROVE  master'[u].locked = master[u].locked /\ master'[u].status = master[u].status
  <2>1. CASE Remove(v)
    BY <2>1 DEF Remove, Commit, TypeOK, Tables
  <2>2. CASE SetFirstLogin(v)
    <3>1. PICK b \in BOOLEAN : master' = [master EXCEPT ![v].isFirstLogin = b]
      BY <2>2 DEF SetFirstLogin, Commit
    <3>2. master[u] \in Rows
      BY DEF TypeOK, Tables
    <3> QED BY <3>1, <3>2 DEF TypeOK, Tables, Rows
  <2> QED BY <1>4, <2>1, <2>2
<1>5. ASSUME NEW r \in Requests, Handler(r)
      PROVE  \/ Insert(r) \/ SaveUpdate(r) \/ SaveInsert(r) \/ UNCHANGED master
  BY <1>5 DEF Handler, CreateCheck, Register, ForgotRead, ResetCheck, UpdatePassword,
     ChangeGuard, ChangePassword, ResendRead, VerifyRead, ConfirmRead, ConfirmForget,
     LockRead, StatusRead, SaveSelect, Mail, Fail, tables
<1>6. CASE \E r \in Requests : Handler(r)
  BY <1>1, <1>2, <1>3, <1>5, <1>6, NarrowWrite
<1>7. CASE \/ \E v \in Users : Statement(v)
           \/ CatchUp \/ Tick \/ UNCHANGED vars
  BY <1>1, <1>4, <1>7 DEF Statement, GenerateActiveToken, ActiveTokenExpires,
     CatchUp, Tick, vars, tables
<1> QED BY <1>6, <1>7 DEF Next

(* Without reset, change-password and verify-email, the three operations    *)
(* that save whole rows (users.service.ts:192, 215, auth.service.ts:97), a  *)
(* lock is released by an unlock alone and a status changes by an approval  *)
(* or a confirmation alone, forgot-password, removal and restoration        *)
(* included: forgot saves a partial entity (users.service.ts:166).          *)
THEOREM OwnColumns ==
  ASSUME OwnColumnsOps
  PROVE  Spec => OwnColumnsOnly
<1>1. Init => Narrow
  BY DEF Init, Narrow, NarrowOf, Idle
<1>2. Narrow /\ Invariant /\ [Next]_vars => Narrow'
  BY NarrowStep
<1>3. Narrow /\ Invariant /\ [Next]_vars =>
        [\A u \in Users : master[u] # None /\ master'[u] # None =>
           /\ master[u].locked # master'[u].locked => Writing({"lock", "unlock"})
           /\ master[u].status # master'[u].status => Writing({"status", "confirm"})]_vars
  BY OwnColumnsStep
<1> QED BY <1>1, <1>2, <1>3, InvariantHolds, PTL DEF Spec, OwnColumnsOnly

-----------------------------------------------------------------------------
(* Accounts implements AccountDirectory: every step registers, deletes or   *)
(* brings back one identity, or leaves all of them as they are.             *)

Entry == [u \in Users |-> Identity(master[u])]

LEMMA EntryTypes ==
  ASSUME TypeOK, NEW u \in Users
  PROVE  /\ Entry[u] \in Identities \cup {None}
         /\ Entry[u] = None <=> master[u] = None
         /\ master[u] # None =>
              Entry[u].address = master[u].address /\ Entry[u].email = master[u].email
<1>1. Entry[u] = Identity(master[u])
  BY DEF Entry
<1>2. CASE master[u] = None
  BY <1>1, <1>2 DEF Identity
<1>3. CASE master[u] # None
  <2>1. master[u] \in Rows
    BY <1>3 DEF TypeOK, Tables
  <2>2. Entry[u] = [address |-> master[u].address, email |-> master[u].email,
                    role |-> master[u].role]
    BY <1>1, <2>1, IdentityOfRow
  <2>3. Entry[u] \in Identities
    BY <2>1, <2>2 DEF Rows, Identities
  <2> QED BY <1>3, <2>2, <2>3, NullIsNoIdentity
<1> QED BY <1>2, <1>3

LEMMA EntriesDistinct ==
  ASSUME TypeOK, UniqueIndexes(master)
  PROVE  Directory!Distinct(Entry)
<1>1. ASSUME NEW u \in Users, NEW v \in Users, u # v, Entry[u] # None, Entry[v] # None
      PROVE  /\ Entry[u].address # Entry[v].address
             /\ Entry[u].email = Entry[v].email => Entry[u].email = None
  BY <1>1, EntryTypes DEF UniqueIndexes
<1> QED BY <1>1 DEF Directory!Distinct

LEMMA DirectoryInit ==
  ASSUME Init
  PROVE  Directory!Init
<1>1. TypeOK /\ UniqueIndexes(master)
  BY TypesInit, SafeInit DEF Safe, Agreement
<1>2. Entry \in [Users -> Identities \cup {None}]
  BY <1>1, EntryTypes DEF Entry
<1>3. Directory!Distinct(Entry)
  BY <1>1, EntriesDistinct
<1>4. used = {u \in Users : Entry[u] # None} /\ removed = {}
  BY <1>1, EntryTypes DEF Init
<1> QED BY <1>2, <1>3, <1>4 DEF Directory!Init, Entry

(* One identity of the table is set.                                        *)
LEMMA EntryOfOne ==
  ASSUME TypeOK, TypeOK', UniqueIndexes(master'), NEW u \in Users,
         master'[u] # None, \A v \in Users : v # u => master'[v] = master[v]
  PROVE  \E i \in Identities : Directory!Enter(u, i)
<1> DEFINE i == Identity(master'[u])
<1>1. i \in Identities
  <2>1. master'[u] \in Rows
    BY DEF TypeOK, Tables
  <2> QED BY <2>1, IdentityOfRow DEF Rows, Identities
<1>2. Entry' = [Entry EXCEPT ![u] = i]
  BY DEF Entry
<1>3. Directory!Distinct(Entry')
  <2>1. ASSUME NEW x \in Users
        PROVE  /\ Entry'[x] = None <=> master'[x] = None
               /\ master'[x] # None => /\ Entry'[x].address = master'[x].address
                                       /\ Entry'[x].email = master'[x].email
    <3>1. Entry'[x] = Identity(master'[x])
      BY DEF Entry
    <3>2. CASE master'[x] = None
      BY <3>1, <3>2 DEF Identity
    <3>3. CASE master'[x] # None
      <4>1. master'[x] \in Rows
        BY <3>3 DEF TypeOK, Tables
      <4>2. Identity(master'[x]) \in Identities
        BY <4>1, IdentityOfRow DEF Rows, Identities
      <4> QED BY <3>1, <3>3, <4>1, <4>2, IdentityOfRow, NullIsNoIdentity
    <3> QED BY <3>2, <3>3
  <2> QED BY <2>1 DEF Directory!Distinct, UniqueIndexes
<1> QED BY <1>1, <1>2, <1>3 DEF Directory!Enter, Entry

LEMMA Stutter ==
  ASSUME UNCHANGED <<used, removed>>,
         \A u \in Users : Identity(master'[u]) = Identity(master[u])
  PROVE  UNCHANGED Directory!vars
  BY DEF Directory!vars

LEMMA Returns ==
  ASSUME TypeOK, TypeOK', UniqueIndexes(master'), UNCHANGED <<used, removed>>,
         NEW u \in removed, master'[u] # None,
         \A v \in Users : v # u => master'[v] = master[v]
  PROVE  Directory!Next
<1>1. u \in Users
  BY DEF TypeOK
<1>2. Directory!Return(u)
  BY <1>1, EntryOfOne DEF Directory!Return
<1> QED BY <1>1, <1>2 DEF Directory!Next

LEMMA InsertRegisters ==
  ASSUME Invariant, Invariant', NEW r \in Requests, Insert(r)
  PROVE  Directory!Next
<1> DEFINE row == req[r].row
<1>1. PICK u \in Users \ used :
        LET table == [master EXCEPT ![u] = row] IN
        /\ used' = used \cup {u}
        /\ IF UniqueIndexes(table) THEN Commit(table) ELSE UNCHANGED tables
  BY DEF Insert
<1> DEFINE table == [master EXCEPT ![u] = row]
<1>2. row \in Rows /\ removed' = removed
  BY DEF Insert, At, Invariant, Shape, ShapeOf
<1>3. CASE UniqueIndexes(table)
  <2>1. master' = table
    BY <1>1, <1>3 DEF Commit
  <2>2. master'[u] = row /\ \A v \in Users : v # u => master'[v] = master[v]
    BY <2>1 DEF Invariant, TypeOK, Tables
  <2>3. \E i \in Identities : Directory!Enter(u, i)
    BY <1>2, <1>3, <2>1, <2>2, EntryOfOne, NullIsNoRow DEF Invariant
  <2>4. Directory!Register(u)
    BY <1>1, <1>2, <2>3 DEF Directory!Register
  <2> QED BY <2>4 DEF Directory!Next
<1>4. CASE ~UniqueIndexes(table)
  <2>1. master' = master
    BY <1>1, <1>4 DEF tables
  <2>2. Directory!Register(u)
    BY <1>1, <1>2, <2>1 DEF Directory!Register
  <2> QED BY <2>2 DEF Directory!Next
<1> QED BY <1>3, <1>4

LEMMA UpdateKeepsOrReturns ==
  ASSUME Invariant, Invariant', NEW r \in Requests, SaveUpdate(r)
  PROVE  Directory!Next \/ UNCHANGED Directory!vars
<1> DEFINE u == req[r].user
           row == req[r].row
           table == AfterUpdate(r)
<1>1. req[r].pc = "write" /\ UNCHANGED <<used, removed>>
  BY SaveUpdateCases DEF At
<1>2. u \in Users /\ row \in Rows
  BY <1>1 DEF Invariant, Shape, ShapeOf
<1>3. \A v \in Users : v # u => master'[v] = master[v]
  <2>1. master' = master \/ master' = table
    BY SaveUpdateCases DEF Commit, tables
  <2> QED BY <2>1 DEF AfterUpdate, Invariant, TypeOK, Tables
<1>4. CASE master' = master
  BY <1>1, <1>4, Stutter
<1>5. CASE master' # master
  <2>1. master' = table
    BY <1>5, SaveUpdateCases DEF Commit, tables
  <2>2. master[u] # None
    BY <1>5, <2>1 DEF AfterUpdate
  <2>3. /\ master[u] \in Rows
        /\ master'[u] = Updated(master[u], row, req[r].cols)
    BY <1>2, <2>1, <2>2 DEF AfterUpdate, Invariant, TypeOK, Tables
  <2>4. master'[u] # None
    BY <1>2, <2>3, UpdatedIsRow, NullIsNoRow
  <2>5. CASE u \in removed
    BY <1>1, <1>3, <2>4, <2>5, Returns DEF Invariant, Agreement
  <2>6. CASE u \notin removed
    <3>1. HoldsRow(req[r]) => Identity(row) = Identity(master[u])
      BY <2>6 DEF Invariant, Agreement, AgreementOf, SameIdentity
    <3>2. \/ req[r].cols = {"locked"} \/ req[r].cols = {"status"}
          \/ HoldsRow(req[r])
      BY <1>1 DEF Invariant, Shape, ShapeOf, HoldsRow
    <3>3. Identity(master'[u]) = Identity(master[u])
      BY <1>2, <2>3, <3>1, <3>2, UpdatedIdentity
    <3> QED BY <1>1, <1>3, <3>3, Stutter
  <2> QED BY <2>5, <2>6
<1> QED BY <1>4, <1>5

LEMMA SaveInsertReturns ==
  ASSUME Invariant, Invariant', NEW r \in Requests, SaveInsert(r)
  PROVE  Directory!Next \/ UNCHANGED Directory!vars
<1> DEFINE u == req[r].user
           back == Restored(req[r])
           table == [master EXCEPT ![u] = back]
<1>1. req[r].pc = "restore" /\ UNCHANGED <<used, removed>>
  BY SaveInsertCases DEF At, history
<1>2. u \in Users /\ req[r].row \in Rows /\ req[r].op \in Savers
  BY <1>1 DEF Invariant, Shape, ShapeOf
<1>3. u \in removed
  BY <1>1, <1>2 DEF Invariant, Agreement, AgreementOf, HoldsRow
<1>4. CASE UNCHANGED tables
  BY <1>1, <1>4, Stutter DEF tables
<1>5. CASE UniqueIndexes(table) /\ Commit(table)
  <2>1. back \in Rows
    BY <1>2, RestoredIsRow
  <2> HIDE DEF back
  <2>2. master'[u] # None /\ \A v \in Users : v # u => master'[v] = master[v]
    BY <1>2, <1>5, <2>1, NullIsNoRow DEF Commit, Invariant, TypeOK, Tables
  <2> QED BY <1>1, <1>3, <2>2, Returns DEF Invariant, Agreement
<1> QED BY <1>4, <1>5, SaveInsertCases

LEMMA StatementDeletes ==
  ASSUME Invariant, NEW u \in Users, SetFirstLogin(u) \/ Remove(u)
  PROVE  Directory!Next \/ UNCHANGED Directory!vars
<1>1. CASE SetFirstLogin(u)
  <2>1. PICK b \in BOOLEAN : master' = [master EXCEPT ![u].isFirstLogin = b]
    BY <1>1 DEF SetFirstLogin, Commit
  <2>2. master[u] \in Rows
    BY <1>1 DEF SetFirstLogin, Invariant, TypeOK, Tables
  <2>3. Identity([master[u] EXCEPT !.isFirstLogin = b]) = Identity(master[u])
    <3>1. [master[u] EXCEPT !.isFirstLogin = b] \in Rows
      BY <2>2 DEF Rows
    <3> QED BY <2>2, <3>1, IdentityOfRow DEF Rows
  <2>4. \A v \in Users : Identity(master'[v]) = Identity(master[v])
    BY <2>1, <2>3 DEF Invariant, TypeOK, Tables
  <2> QED BY <1>1, <2>4, Stutter DEF SetFirstLogin, history
<1>2. CASE Remove(u)
  <2>1. /\ master' = [master EXCEPT ![u] = None] /\ master[u] # None
        /\ removed' = removed \cup {u} /\ used' = used
    BY <1>2 DEF Remove, Commit
  <2>2. Entry[u] # None
    BY <2>1, EntryTypes DEF Invariant
  <2>3. Entry' = [Entry EXCEPT ![u] = None]
    BY <2>1 DEF Entry, Identity, Invariant, TypeOK, Tables
  <2>4. Directory!Delete(u)
    BY <2>1, <2>2, <2>3 DEF Directory!Delete, Entry
  <2> QED BY <2>4 DEF Directory!Next
<1> QED BY <1>1, <1>2

LEMMA DirectoryStep ==
  ASSUME Invariant, Invariant', [Next]_vars
  PROVE  Directory!Next \/ UNCHANGED Directory!vars
<1>1. CASE UNCHANGED <<master, used, removed>>
  BY <1>1, Stutter
<1>2. ASSUME NEW r \in Requests, Handler(r)
      PROVE  Directory!Next \/ UNCHANGED Directory!vars
  <2>1. CASE Insert(r)
    BY <2>1, InsertRegisters
  <2>2. CASE SaveUpdate(r)
    BY <2>2, UpdateKeepsOrReturns
  <2>3. CASE SaveInsert(r)
    BY <2>3, SaveInsertReturns
  <2>4. CASE ~(Insert(r) \/ SaveUpdate(r) \/ SaveInsert(r))
    <3>1. UNCHANGED <<master, used, removed>>
      BY <1>2, <2>4 DEF Handler, CreateCheck, Register, ForgotRead, ResetCheck,
         UpdatePassword, ChangeGuard, ChangePassword, ResendRead, VerifyRead,
         ConfirmRead, ConfirmForget, LockRead, StatusRead, SaveSelect, Mail, Fail,
         tables, history
    <3> QED BY <1>1, <3>1
  <2> QED BY <2>1, <2>2, <2>3, <2>4
<1>3. ASSUME NEW u \in Users, Statement(u)
      PROVE  Directory!Next \/ UNCHANGED Directory!vars
  <2>1. CASE GenerateActiveToken(u) \/ ActiveTokenExpires(u)
    BY <1>1, <2>1 DEF GenerateActiveToken, ActiveTokenExpires, tables, history
  <2> QED BY <1>3, <2>1, StatementDeletes DEF Statement
<1>4. CASE CatchUp \/ Tick \/ UNCHANGED vars
  BY <1>1, <1>4 DEF CatchUp, Tick, vars, tables, history
<1> QED BY <1>2, <1>3, <1>4 DEF Next

(* The users table with all its stale whole-row saves implements the        *)
(* directory: wallet, e-mail address and role of an account never change,   *)
(* an id is handed out once, and only an id that remove()                   *)
(* (users.service.ts:112) deleted comes back.                               *)
THEOREM Implements == Spec => ImplementsDirectory
<1>1. Init => Directory!Init
  BY DirectoryInit
<1>2. Invariant /\ Invariant' /\ [Next]_vars => [Directory!Next]_(Directory!vars)
  BY DirectoryStep
<1> QED BY <1>1, <1>2, InvariantHolds, PTL DEF Spec, Directory!Spec, ImplementsDirectory
=============================================================================
