------------------------- MODULE AccountTypeProofs -------------------------
(***************************************************************************)
(* Accounts keeps its types, and a request carries what its next step      *)
(* needs: one lemma for each action, then the theorem.                     *)
(***************************************************************************)
EXTENDS AccountInvariant, TLAPS

LEMMA UpdatedIsRow ==
  ASSUME NEW old \in Rows, NEW new \in Rows, NEW cols
  PROVE  Updated(old, new, cols) \in Rows
  BY DEF Updated, Rows

LEMMA HashIsHash ==
  ASSUME NEW p \in Passwords
  PROVE  Hash(p) \in Hashes /\ Hash(p).rounds = 1 /\ Hash(p).plain = p
  BY DEF Hash, Hashes

LEMMA HashAgainIsHash ==
  ASSUME NEW h \in Hashes
  PROVE  HashAgain(h) \in Hashes
<1>1. h.plain \in Passwords \cup {Blank} /\ h.rounds \in Nat
  BY DEF Hashes
<1>2. h.rounds + 1 \in Nat
  BY <1>1
<1> QED BY <1>1, <1>2 DEF HashAgain, Hashes

LEMMA NewRowIsRow ==
  ASSUME NEW a \in Addresses, NEW e \in Emails \cup {None}, NEW p \in Passwords,
         NEW s \in Statuses, NEW body \in Bodies
  PROVE  /\ NewRow(a, e, p, s, body) \in Rows
         /\ NewRow(a, e, p, s, body).password = Hash(p)
         /\ NewRow(a, e, p, s, body).status = s
<1>1. Hash(p) \in Hashes
  BY HashIsHash
<1>2. body \in Optional
  BY BodiesAreOptional
<1>3. NewRow(a, e, p, s, body) \in Rows
  BY <1>1, <1>2 DEF NewRow, Rows, Roles, Optional
<1> QED BY <1>3 DEF NewRow

LEMMA BlankRowIsRow ==
  ASSUME NEW c \in Codes \cup {None}, NEW x \in Times \cup {None}
  PROVE  BlankRow(c, x) \in Rows
  BY DEF BlankRow, Rows, Hashes, Statuses, Roles, Locked, Unlocked, Submit

LEMMA RestoredIsRow ==
  ASSUME NEW q, q.row \in Rows
  PROVE  Restored(q) \in Rows
<1>1. CASE q.op = "forgot"
  <2>1. /\ q.row.tokenResetPassword \in Codes \cup {None}
        /\ q.row.expire \in Times \cup {None}
    BY DEF Rows
  <2>2. Restored(q) = BlankRow(q.row.tokenResetPassword, q.row.expire)
    BY <1>1 DEF Restored
  <2> QED BY <2>1, <2>2, BlankRowIsRow
<1>2. CASE q.op \in {"reset", "verify"}
  <2>1. HashAgain(q.row.password) \in Hashes
    BY HashAgainIsHash DEF Rows
  <2>2. Restored(q) = [q.row EXCEPT !.password = HashAgain(q.row.password)]
    BY <1>2 DEF Restored
  <2> QED BY <2>1, <2>2 DEF Rows
<1>3. CASE q.op \notin {"forgot", "reset", "verify"}
  BY <1>3 DEF Restored
<1> QED BY <1>1, <1>2, <1>3
-----------------------------------------------------------------------------
(* Types and shapes.                                                        *)

LEMMA IdleIsRequest == Idle \in Request /\ ShapeOf(Idle)
  BY DEF Idle, Request, ShapeOf, Pcs

LEMMA RequestStep ==
  ASSUME TypeOK, Shape, NEW r \in Requests, NEW q \in Request, ShapeOf(q),
         req' = [req EXCEPT ![r] = q]
  PROVE  req' \in [Requests -> Request] /\ Shape'
  BY DEF TypeOK, Shape

LEMMA EndStep ==
  ASSUME TypeOK, Shape, NEW r \in Requests, End(r)
  PROVE  req' \in [Requests -> Request] /\ Shape'
  BY IdleIsRequest, RequestStep DEF End

LEMMA CreateCheckTypes ==
  ASSUME TypeOK, Shape, NEW r \in Requests, CreateCheck(r)
  PROVE  TypeOK' /\ Shape'
<1>1. PICK a \in Addresses, e \in Emails \cup {None}, p \in Passwords, body \in Bodies :
        Start(r, "create", "insert", None, NewRow(a, e, p, Active, body))
  BY DEF CreateCheck
<1> DEFINE row == NewRow(a, e, p, Active, body)
           q == [Idle EXCEPT !.op = "create", !.pc = "insert", !.user = None,
                             !.row = row]
<1>2. row \in Rows /\ HashedOnce(row)
  BY NewRowIsRow, HashIsHash DEF Active, Statuses, HashedOnce
<1> HIDE DEF row
<1>3. q \in Request
  BY <1>2 DEF Idle, Request, Pcs, Ops
<1>4. ShapeOf(q)
  BY <1>2 DEF Idle, ShapeOf
<1>5. req' = [req EXCEPT ![r] = q]
  BY <1>1 DEF Start, row
<1>6. req' \in [Requests -> Request] /\ Shape'
  BY <1>3, <1>4, <1>5, RequestStep
<1> QED BY <1>6 DEF CreateCheck, TypeOK, tables, history

LEMMA RegisterTypes ==
  ASSUME TypeOK, Shape, NEW r \in Requests, Register(r)
  PROVE  TypeOK' /\ Shape'
<1>1. PICK a \in Addresses, e \in Emails \cup {None}, p \in Passwords, body \in Bodies :
        Start(r, "register", "insert", None, NewRow(a, e, p, PendingActive, body))
  BY DEF Register
<1> DEFINE row == NewRow(a, e, p, PendingActive, body)
           q == [Idle EXCEPT !.op = "register", !.pc = "insert", !.user = None,
                             !.row = row]
<1>2. row \in Rows /\ HashedOnce(row)
  BY NewRowIsRow, HashIsHash DEF PendingActive, Statuses, HashedOnce
<1> HIDE DEF row
<1>3. q \in Request
  BY <1>2 DEF Idle, Request, Pcs, Ops
<1>4. ShapeOf(q)
  BY <1>2 DEF Idle, ShapeOf
<1>5. req' = [req EXCEPT ![r] = q]
  BY <1>1 DEF Start, row
<1>6. req' \in [Requests -> Request] /\ Shape'
  BY <1>3, <1>4, <1>5, RequestStep
<1> QED BY <1>6 DEF Register, TypeOK, tables, history

LEMMA CommitTypes ==
  ASSUME TypeOK, NEW t \in Tables, Commit(t)
  PROVE  master' \in Tables /\ report' \in Tables
  BY DEF TypeOK, Commit

LEMMA InsertTypes ==
  ASSUME TypeOK, Shape, NEW r \in Requests, Insert(r)
  PROVE  TypeOK' /\ Shape'
<1> DEFINE row == req[r].row
<1>1. row \in Rows /\ row.password.plain \in Passwords
  BY DEF Insert, At, Shape, ShapeOf, HashedOnce
<1>2. req' \in [Requests -> Request] /\ Shape'
  BY EndStep DEF Insert
<1>3. PICK u \in Users \ used :
        LET table == [master EXCEPT ![u] = row] IN
        /\ used' = used \cup {u}
        /\ IF UniqueIndexes(table)
           THEN /\ Commit(table)
                /\ accepted' = [accepted EXCEPT ![u] = {row.password.plain}]
                /\ approved' = IF row.status = Active
                               THEN approved \cup {u} ELSE approved
                /\ fate' = [fate EXCEPT ![u] = [c \in Numbers |->
                              IF OpenTo(row, c) THEN "issued" ELSE fate[u][c]]]
           ELSE UNCHANGED <<tables, accepted, approved, fate>>
  BY DEF Insert
<1> DEFINE table == [master EXCEPT ![u] = row]
<1>4. table \in Tables
  BY <1>1 DEF TypeOK, Tables
<1> HIDE DEF row, table
<1>5. CASE UniqueIndexes(table)
  <2>1. Commit(table) /\ accepted' = [accepted EXCEPT ![u] = {row.password.plain}]
    BY <1>3, <1>5 DEF table
  <2>2. master' \in Tables /\ report' \in Tables
    BY <1>4, <2>1, CommitTypes
  <2>3. accepted' \in [Users -> SUBSET Passwords]
    BY <1>1, <2>1 DEF TypeOK
  <2>4. approved' \subseteq Users /\ used' \subseteq Users
    BY <1>3, <1>5 DEF TypeOK, table
  <2>5. fate' \in [Users -> [Numbers -> Fates]]
    <3> DEFINE f == [c \in Numbers |-> IF OpenTo(row, c) THEN "issued" ELSE fate[u][c]]
    <3>1. f \in [Numbers -> Fates]
      BY DEF Fates, TypeOK
    <3>2. fate' = [fate EXCEPT ![u] = f]
      BY <1>3, <1>5 DEF table
    <3> HIDE DEF f
    <3> QED BY <3>1, <3>2 DEF TypeOK
  <2> QED BY <1>2, <2>2, <2>3, <2>4, <2>5 DEF Insert, TypeOK
<1>6. CASE ~UniqueIndexes(table)
  <2>1. UNCHANGED <<tables, accepted, approved, fate>> /\ used' \subseteq Users
    BY <1>3, <1>6 DEF table, TypeOK
  <2> QED BY <1>2, <2>1 DEF Insert, TypeOK, tables
<1> QED BY <1>5, <1>6

LEMMA ExpiryIsTime ==
  ASSUME TypeOK
  PROVE  now + ResetTtl \in Times /\ now + LinkTtl \in 0..(MaxTime + LinkTtl)
<1>1. now \in 0..MaxTime
  BY DEF TypeOK
<1> QED BY <1>1, TableConstants, AccountConstants DEF Times

LEMMA FateStep ==
  ASSUME TypeOK, NEW u \in Users, NEW c \in Numbers, NEW f \in Fates
  PROVE  [fate EXCEPT ![u][c] = f] \in [Users -> [Numbers -> Fates]]
  BY DEF TypeOK

LEMMA ForgotReadTypes ==
  ASSUME TypeOK, Shape, NEW r \in Requests, ForgotRead(r)
  PROVE  TypeOK' /\ Shape'
<1>1. PICK u \in Users, c \in Codes :
        /\ Admits(report[u], Active)
        /\ req' = [req EXCEPT ![r] =
             [Idle EXCEPT !.op = "forgot", !.pc = "save", !.user = u, !.code = c,
                !.row = [report[u] EXCEPT !.tokenResetPassword = c,
                                          !.expire = now + ResetTtl]]]
        /\ fate' = [fate EXCEPT ![u][c] = IF @ = "new" THEN "issued" ELSE "redrawn"]
  BY DEF ForgotRead
<1> DEFINE row == [report[u] EXCEPT !.tokenResetPassword = c,
                                    !.expire = now + ResetTtl]
           q == [Idle EXCEPT !.op = "forgot", !.pc = "save", !.user = u, !.code = c,
                             !.row = row]
<1>2. report[u] \in Rows
  BY <1>1 DEF Admits, TypeOK, Tables
<1>3. row \in Rows
  <2> DEFINE x == now + ResetTtl
  <2>1. x \in Times
    BY ExpiryIsTime
  <2> HIDE DEF x
  <2>2. [report[u] EXCEPT !.tokenResetPassword = c, !.expire = x] \in Rows
    BY <1>2, <2>1 DEF Rows
  <2> QED BY <2>2 DEF x
<1>4. req' = [req EXCEPT ![r] = q]
  BY <1>1
<1> HIDE DEF row
<1>5. q \in Request
  BY <1>3 DEF Idle, Request, Pcs, Ops, Numbers
<1>6. ShapeOf(q)
  BY <1>3 DEF Idle, ShapeOf, Savers
<1>7. req' \in [Requests -> Request] /\ Shape'
  BY <1>4, <1>5, <1>6, RequestStep
<1>8. fate' \in [Users -> [Numbers -> Fates]]
  <2> DEFINE f == IF fate[u][c] = "new" THEN "issued" ELSE "redrawn"
  <2>1. f \in Fates
    BY DEF Fates
  <2>2. fate' = [fate EXCEPT ![u][c] = f]
    BY <1>1
  <2> QED BY <2>1, <2>2, FateStep DEF Numbers
<1> QED BY <1>7, <1>8 DEF ForgotRead, TypeOK, tables

LEMMA ResetCheckTypes ==
  ASSUME TypeOK, Shape, NEW r \in Requests, ResetCheck(r)
  PROVE  TypeOK' /\ Shape'
<1>1. PICK u \in Users, c \in Numbers, p \in Passwords :
        /\ CodeAccepted(report[u], c, now)
        /\ req' = [req EXCEPT ![r] =
             [Idle EXCEPT !.op = "reset", !.pc = "reload", !.user = u, !.code = c,
                !.email = report[u].email, !.password = p]]
        /\ accepted' = [accepted EXCEPT ![u] = @ \cup {p}]
        /\ fate' = IF c = 0 /\ fate[u][0] = "new"
                   THEN [fate EXCEPT ![u][0] = "spent"] ELSE fate
  BY DEF ResetCheck
<1> DEFINE email == report[u].email
           q == [Idle EXCEPT !.op = "reset", !.pc = "reload", !.user = u, !.code = c,
                             !.email = email, !.password = p]
<1>2. email \in Emails /\ email # None
  BY <1>1 DEF CodeAccepted, Admits, TypeOK, Tables, Rows
<1>3. req' = [req EXCEPT ![r] = q]
  BY <1>1
<1> HIDE DEF email
<1>4. q \in Request
  BY <1>2 DEF Idle, Request, Pcs, Ops
<1>5. ShapeOf(q)
  BY <1>2 DEF Idle, ShapeOf
<1>6. req' \in [Requests -> Request] /\ Shape'
  BY <1>3, <1>4, <1>5, RequestStep
<1>7. accepted' \in [Users -> SUBSET Passwords]
  BY <1>1 DEF TypeOK
<1>8. fate' \in [Users -> [Numbers -> Fates]]
  <2>1. [fate EXCEPT ![u][0] = "spent"] \in [Users -> [Numbers -> Fates]]
    BY FateStep DEF Numbers, Fates
  <2> QED BY <1>1, <2>1 DEF TypeOK
<1> QED BY <1>6, <1>7, <1>8 DEF ResetCheck, TypeOK, tables

LEMMA SaveRequest ==
  ASSUME TypeOK, Shape, NEW r \in Requests, NEW u \in Users, NEW row \in Rows,
         req[r].op \in {"reset", "change"},
         req' = [req EXCEPT ![r].pc = "save", ![r].user = u, ![r].row = row]
  PROVE  req' \in [Requests -> Request] /\ Shape'
<1> DEFINE q == [req[r] EXCEPT !.pc = "save", !.user = u, !.row = row]
<1>1. req[r] \in Request
  BY DEF TypeOK
<1>2. q \in Request
  BY <1>1 DEF Request, Pcs
<1>3. ShapeOf(q)
  BY <1>1 DEF ShapeOf, Request, Savers
<1>4. req' = [req EXCEPT ![r] = q]
  BY DEF TypeOK
<1> QED BY <1>2, <1>3, <1>4, RequestStep

LEMMA NewPassword ==
  ASSUME NEW row \in Rows, NEW p \in Passwords
  PROVE  [row EXCEPT !.password = Hash(p), !.tokenResetPassword = None] \in Rows
<1>1. Hash(p) \in Hashes
  BY HashIsHash
<1> QED BY <1>1 DEF Rows

LEMMA UpdatePasswordTypes ==
  ASSUME TypeOK, Shape, NEW r \in Requests, UpdatePassword(r)
  PROVE  TypeOK' /\ Shape'
<1>1. req' \in [Requests -> Request] /\ Shape'
  <2>1. CASE End(r)
    BY <2>1, EndStep
  <2>2. CASE \E u \in Users :
               /\ Admits(report[u], Active)
               /\ req' = [req EXCEPT ![r].pc = "save", ![r].user = u,
                    ![r].row = [report[u] EXCEPT
                                  !.password = Hash(req[r].password),
                                  !.tokenResetPassword = None]]
    <3>1. PICK u \in Users :
            /\ Admits(report[u], Active)
            /\ req' = [req EXCEPT ![r].pc = "save", ![r].user = u,
                 ![r].row = [report[u] EXCEPT
                               !.password = Hash(req[r].password),
                               !.tokenResetPassword = None]]
      BY <2>2
    <3> DEFINE row == [report[u] EXCEPT !.password = Hash(req[r].password),
                                        !.tokenResetPassword = None]
    <3>2. report[u] \in Rows
      BY <3>1 DEF Admits, TypeOK, Tables
    <3>3. req[r].op = "reset" /\ req[r].password \in Passwords
      BY DEF UpdatePassword, At, Shape, ShapeOf
    <3>4. row \in Rows
      BY <3>2, <3>3, NewPassword
    <3>5. req' = [req EXCEPT ![r].pc = "save", ![r].user = u, ![r].row = row]
      BY <3>1
    <3> HIDE DEF row
    <3> QED BY <3>3, <3>4, <3>5, SaveRequest
  <2> QED BY <2>1, <2>2 DEF UpdatePassword
<1> QED BY <1>1 DEF UpdatePassword, TypeOK, tables, history

LEMMA StartTypes ==
  ASSUME TypeOK, Shape, NEW r \in Requests, NEW op \in Ops, NEW pc \in Pcs,
         NEW u \in Users, NEW row \in Rows \cup {None},
         Start(r, op, pc, u, row),
         \/ pc = "compare" /\ op = "change"
         \/ pc = "forget" /\ op = "confirm"
         \/ pc = "mail" /\ op = "resend"
         \/ pc = "save" /\ op = "verify" /\ row \in Rows
  PROVE  req' \in [Requests -> Request] /\ Shape'
<1> DEFINE q == [Idle EXCEPT !.op = op, !.pc = pc, !.user = u, !.row = row]
<1>1. q \in Request
  BY DEF Idle, Request
<1>2. ShapeOf(q)
  BY DEF Idle, ShapeOf, Savers
<1> QED BY <1>1, <1>2, RequestStep DEF Start

LEMMA ChangeGuardTypes ==
  ASSUME TypeOK, Shape, NEW r \in Requests, ChangeGuard(r)
  PROVE  TypeOK' /\ Shape'
<1>1. req' \in [Requests -> Request] /\ Shape'
  BY StartTypes DEF ChangeGuard, Ops, Pcs
<1> QED BY <1>1 DEF ChangeGuard, TypeOK, tables, history

LEMMA ChangePasswordTypes ==
  ASSUME TypeOK, Shape, NEW r \in Requests, ChangePassword(r)
  PROVE  TypeOK' /\ Shape'
<1> DEFINE u == req[r].user
<1>1. u \in Users /\ req[r].op = "change" /\ req[r] \in Request
  BY DEF ChangePassword, At, Shape, ShapeOf, TypeOK
<1>2. CASE End(r) /\ UNCHANGED accepted
  <2>1. req' \in [Requests -> Request] /\ Shape'
    BY <1>2, EndStep
  <2> QED BY <1>2, <2>1 DEF ChangePassword, TypeOK, tables
<1>3. CASE \E p \in Passwords :
             /\ report[u] # None
             /\ req' = [req EXCEPT ![r].pc = "save",
                         ![r].row = [report[u] EXCEPT !.password = Hash(p),
                                                      !.tokenResetPassword = None]]
             /\ accepted' = [accepted EXCEPT ![u] = @ \cup {p}]
  <2>1. PICK p \in Passwords :
             /\ report[u] # None
             /\ req' = [req EXCEPT ![r].pc = "save",
                         ![r].row = [report[u] EXCEPT !.password = Hash(p),
                                                      !.tokenResetPassword = None]]
             /\ accepted' = [accepted EXCEPT ![u] = @ \cup {p}]
    BY <1>3
  <2> DEFINE row == [report[u] EXCEPT !.password = Hash(p),
                                      !.tokenResetPassword = None]
  <2>2. row \in Rows
    BY <1>1, <2>1, NewPassword DEF TypeOK, Tables
  <2>3. req' = [req EXCEPT ![r].pc = "save", ![r].row = row]
    BY <2>1
  <2> HIDE DEF row
  <2>4. req' = [req EXCEPT ![r].pc = "save", ![r].user = req[r].user, ![r].row = row]
    BY <1>1, <2>3 DEF Request, TypeOK
  <2>5. req' \in [Requests -> Request] /\ Shape'
    BY <1>1, <2>2, <2>4, SaveRequest
  <2>6. accepted' \in [Users -> SUBSET Passwords]
    BY <1>1, <2>1 DEF TypeOK
  <2> QED BY <2>5, <2>6 DEF ChangePassword, TypeOK, tables
<1> QED BY <1>2, <1>3 DEF ChangePassword

LEMMA ResendReadTypes ==
  ASSUME TypeOK, Shape, NEW r \in Requests, ResendRead(r)
  PROVE  TypeOK' /\ Shape'
<1>1. PICK u \in Users : /\ links' = links \cup {<<u, now + LinkTtl>>}
                         /\ Start(r, "resend", "mail", u, None)
  BY DEF ResendRead
<1>2. req' \in [Requests -> Request] /\ Shape'
  BY <1>1, StartTypes DEF Ops, Pcs
<1>3. links' \subseteq Users \X (0..(MaxTime + LinkTtl))
  <2> DEFINE x == now + LinkTtl
  <2>1. x \in 0..(MaxTime + LinkTtl)
    BY ExpiryIsTime
  <2> HIDE DEF x
  <2> DEFINE Life == 0..(MaxTime + LinkTtl)
  <2>2. x \in Life /\ links \subseteq Users \X Life /\ links' = links \cup {<<u, x>>}
    BY <1>1, <2>1 DEF TypeOK, x
  <2> HIDE DEF Life
  <2>3. links' \subseteq Users \X Life
    BY <2>2
  <2> QED BY <2>3 DEF Life
<1> QED BY <1>2, <1>3 DEF ResendRead, TypeOK, tables, history

LEMMA VerifyReadTypes ==
  ASSUME TypeOK, Shape, NEW r \in Requests, VerifyRead(r)
  PROVE  TypeOK' /\ Shape'
<1>1. PICK l \in links :
        /\ report[l[1]] # None
        /\ Start(r, "verify", "save", l[1],
                 [report[l[1]] EXCEPT !.status = PendingActive])
  BY DEF VerifyRead
<1> DEFINE u == l[1]
           row == [report[u] EXCEPT !.status = PendingActive]
<1>2. u \in Users
  BY DEF TypeOK
<1>3. row \in Rows
  BY <1>1, <1>2 DEF TypeOK, Tables, Rows, Statuses, PendingActive
<1>4. Start(r, "verify", "save", u, row)
  BY <1>1
<1> HIDE DEF u, row
<1>5. req' \in [Requests -> Request] /\ Shape'
  BY <1>2, <1>3, <1>4, StartTypes DEF Ops, Pcs
<1> QED BY <1>5 DEF VerifyRead, TypeOK, tables, history

LEMMA ConfirmReadTypes ==
  ASSUME TypeOK, Shape, NEW r \in Requests, ConfirmRead(r)
  PROVE  TypeOK' /\ Shape'
<1>1. req' \in [Requests -> Request] /\ Shape'
  BY StartTypes DEF ConfirmRead, TypeOK, Ops, Pcs
<1> QED BY <1>1 DEF ConfirmRead, TypeOK, tables, history

LEMMA BlankStatus ==
  ASSUME NEW s \in Statuses
  PROVE  [BlankRow(None, None) EXCEPT !.status = s] \in Rows
  BY BlankRowIsRow DEF Rows

LEMMA BlankLock ==
  ASSUME NEW lock \in {Locked, Unlocked}
  PROVE  [BlankRow(None, None) EXCEPT !.locked = lock] \in Rows
  BY BlankRowIsRow DEF Rows

LEMMA ConfirmForgetTypes ==
  ASSUME TypeOK, Shape, NEW r \in Requests, ConfirmForget(r)
  PROVE  TypeOK' /\ Shape'
<1> DEFINE row == [BlankRow(None, None) EXCEPT !.status = Active]
           q == [req[r] EXCEPT !.pc = "write", !.cols = {"status"}, !.row = row]
<1>1. row \in Rows
  BY BlankStatus DEF Active, Statuses
<1>2. req[r] \in Request /\ req[r].op = "confirm" /\ req[r].user \in Users
  BY DEF ConfirmForget, At, TypeOK, Shape, ShapeOf
<1>3. req' = [req EXCEPT ![r] = q]
  BY DEF ConfirmForget, TypeOK
<1> HIDE DEF row
<1>4. q \in Request
  BY <1>1, <1>2 DEF Request, Pcs, Columns
<1>5. ShapeOf(q)
  BY <1>1, <1>2 DEF ShapeOf, Request
<1>6. req' \in [Requests -> Request] /\ Shape'
  BY <1>3, <1>4, <1>5, RequestStep
<1> QED BY <1>6 DEF ConfirmForget, TypeOK, tables, history

LEMMA LockReadTypes ==
  ASSUME TypeOK, Shape, NEW r \in Requests, NEW op \in {"lock", "unlock"},
         NEW lock \in {Locked, Unlocked}, LockRead(r, op, lock)
  PROVE  TypeOK' /\ Shape'
<1> DEFINE row == [BlankRow(None, None) EXCEPT !.locked = lock]
<1>1. PICK u \in Users :
        req' = [req EXCEPT ![r] =
          [Idle EXCEPT !.op = op, !.pc = "write", !.user = u, !.cols = {"locked"},
                       !.row = row]]
  BY DEF LockRead
<1> DEFINE q == [Idle EXCEPT !.op = op, !.pc = "write", !.user = u,
                             !.cols = {"locked"}, !.row = row]
<1>2. row \in Rows
  BY BlankLock
<1> HIDE DEF row
<1>3. q \in Request
  BY <1>2 DEF Idle, Request, Pcs, Ops, Columns
<1>4. ShapeOf(q)
  BY <1>2 DEF Idle, ShapeOf
<1>5. req' \in [Requests -> Request] /\ Shape'
  BY <1>1, <1>3, <1>4, RequestStep
<1> QED BY <1>5 DEF LockRead, TypeOK, tables, history

LEMMA JobType ==
  ASSUME TypeOK, NEW n \in JobNames, NEW u \in Users, NEW c \in Codes \cup {None}
  PROVE  Job(n, u, c) \in JobRecords
  BY DEF TypeOK, Job, JobRecords

LEMMA StatusReadTypes ==
  ASSUME TypeOK, Shape, NEW r \in Requests, StatusRead(r)
  PROVE  TypeOK' /\ Shape'
<1>1. PICK u \in Users, s \in Statuses :
        /\ req' = [req EXCEPT ![r] =
             [Idle EXCEPT !.op = "status", !.pc = "write", !.user = u,
                !.cols = {"status"},
                !.row = [BlankRow(None, None) EXCEPT !.status = s]]]
        /\ job' = CASE s = Active   -> Job("approve", u, None)
                    [] s = Deactive -> Job("reject", u, None)
                    [] OTHER        -> job
  BY DEF StatusRead
<1> DEFINE row == [BlankRow(None, None) EXCEPT !.status = s]
           q == [Idle EXCEPT !.op = "status", !.pc = "write", !.user = u,
                             !.cols = {"status"}, !.row = row]
<1>2. row \in Rows
  BY BlankStatus
<1>3. req' = [req EXCEPT ![r] = q]
  BY <1>1
<1> HIDE DEF row
<1>4. q \in Request
  BY <1>2 DEF Idle, Request, Pcs, Ops, Columns
<1>5. ShapeOf(q)
  BY <1>2 DEF Idle, ShapeOf
<1>6. req' \in [Requests -> Request] /\ Shape'
  BY <1>3, <1>4, <1>5, RequestStep
<1>7. job' \in JobRecords \cup {None}
  <2>1. Job("approve", u, None) \in JobRecords /\ Job("reject", u, None) \in JobRecords
    BY JobType DEF JobNames
  <2>2. job' \in {Job("approve", u, None), Job("reject", u, None), job}
    BY <1>1
  <2>3. job \in JobRecords \cup {None}
    BY DEF TypeOK
  <2> QED BY <2>1, <2>2, <2>3
<1> QED BY <1>6, <1>7 DEF StatusRead, TypeOK, tables, history

(* Continue keeps the shape of a request when the shape of the next point   *)
(* asks for nothing new.                                                    *)
LEMMA SavedStep ==
  ASSUME TypeOK, Shape, NEW r \in Requests, At(r, "write") \/ At(r, "restore"),
         Saved(r)
  PROVE  req' \in [Requests -> Request] /\ Shape'
<1>1. CASE req[r].op \in {"forgot", "reset"}
  <2> DEFINE q == [req[r] EXCEPT !.pc = "mail"]
  <2>1. req[r] \in Request /\ req[r].user \in Users /\ ShapeOf(req[r])
    BY DEF TypeOK, Shape, ShapeOf, At
  <2>2. q \in Request
    BY <2>1 DEF Request, Pcs
  <2>3. ShapeOf(q)
    BY <1>1, <2>1 DEF ShapeOf, Request, At
  <2>4. req' = [req EXCEPT ![r] = q]
    BY <1>1 DEF Saved, Continue, TypeOK
  <2> QED BY <2>2, <2>3, <2>4, RequestStep
<1>2. CASE req[r].op \notin {"forgot", "reset"}
  BY <1>2, EndStep DEF Saved
<1> QED BY <1>1, <1>2

LEMMA SaveSelectTypes ==
  ASSUME TypeOK, Shape, NEW r \in Requests, SaveSelect(r)
  PROVE  TypeOK' /\ Shape'
<1>1. /\ req[r] \in Request /\ ShapeOf(req[r]) /\ req[r].pc = "save"
      /\ req[r].user \in Users /\ req[r].row \in Rows /\ req[r].op \in Savers
  BY DEF SaveSelect, At, TypeOK, Shape, ShapeOf
<1>2. CASE master[req[r].user] = None
  <2> DEFINE q == [req[r] EXCEPT !.pc = "restore"]
  <2>1. q \in Request
    BY <1>1 DEF Request, Pcs
  <2>2. ShapeOf(q)
    BY <1>1 DEF ShapeOf, Request
  <2>3. req' = [req EXCEPT ![r] = q]
    BY <1>2 DEF SaveSelect, Continue, TypeOK
  <2>4. req' \in [Requests -> Request] /\ Shape'
    BY <2>1, <2>2, <2>3, RequestStep
  <2> QED BY <2>4 DEF SaveSelect, TypeOK, tables, history
<1>3. CASE master[req[r].user] # None
  <2> DEFINE cols == Rehashed(req[r].op) \cup
                     (Differing(master[req[r].user], req[r].row)
                        \cap EntityColumns(req[r].op))
             q == [req[r] EXCEPT !.pc = "write", !.cols = cols]
  <2>1. cols \subseteq Columns
    BY DEF Rehashed, Differing, Columns
  <2>2. req' = [req EXCEPT ![r] = q]
    BY <1>3 DEF SaveSelect, TypeOK
  <2> HIDE DEF cols
  <2>3. q \in Request
    BY <1>1, <2>1 DEF Request, Pcs
  <2>4. ShapeOf(q)
    BY <1>1 DEF ShapeOf, Request
  <2>5. req' \in [Requests -> Request] /\ Shape'
    BY <2>2, <2>3, <2>4, RequestStep
  <2> QED BY <2>5 DEF SaveSelect, TypeOK, tables, history
<1> QED BY <1>2, <1>3

LEMMA FateAfterStep ==
  ASSUME TypeOK, NEW q, q.user \in Users, q.row \in Rows, NEW cols
  PROVE  FateAfter(q, cols) \in [Users -> [Numbers -> Fates]]
<1> DEFINE u == q.user
           c == q.code
           d == q.row.tokenResetPassword
           f == IF fate[u][c] = "issued" THEN "spent" ELSE fate[u][c]
<1>1. CASE q.op = "reset" /\ c \in Codes
  <2>1. FateAfter(q, cols) = [fate EXCEPT ![u][c] = f]
    BY <1>1 DEF FateAfter
  <2>2. c \in Numbers /\ f \in Fates
    BY <1>1 DEF Numbers, Fates, TypeOK
  <2> QED BY <2>1, <2>2, FateStep
<1>2. CASE q.op = "verify" /\ "tokenResetPassword" \in cols /\ d # None
  <2>1. FateAfter(q, cols) = [fate EXCEPT ![u][d] = "returned"]
    BY <1>2 DEF FateAfter
  <2>2. d \in Numbers /\ "returned" \in Fates
    BY <1>2 DEF Numbers, Fates, Rows
  <2> QED BY <2>1, <2>2, FateStep
<1>3. CASE /\ ~(q.op = "reset" /\ c \in Codes)
           /\ ~(q.op = "verify" /\ "tokenResetPassword" \in cols /\ d # None)
  <2>1. FateAfter(q, cols) = fate
    BY <1>3 DEF FateAfter
  <2> QED BY <2>1 DEF TypeOK
<1> QED BY <1>1, <1>2, <1>3

(* The table SaveUpdate commits.                                            *)
AfterUpdate(r) ==
  IF master[req[r].user] # None
  THEN [master EXCEPT ![req[r].user] = Updated(@, req[r].row, req[r].cols)]
  ELSE master

LEMMA AfterUpdateIsTable ==
  ASSUME TypeOK, NEW r \in Requests, req[r].user \in Users, req[r].row \in Rows
  PROVE  AfterUpdate(r) \in Tables
<1>1. CASE master[req[r].user] # None
  <2>1. master[req[r].user] \in Rows
    BY <1>1 DEF TypeOK, Tables
  <2>2. Updated(master[req[r].user], req[r].row, req[r].cols) \in Rows
    BY <2>1, UpdatedIsRow
  <2> QED BY <1>1, <2>2 DEF AfterUpdate, TypeOK, Tables
<1>2. CASE master[req[r].user] = None
  BY <1>2 DEF AfterUpdate, TypeOK
<1> QED BY <1>1, <1>2

LEMMA SaveUpdateCases ==
  ASSUME NEW r \in Requests, SaveUpdate(r)
  PROVE  /\ At(r, "write")
         /\ \/ /\ UniqueIndexes(AfterUpdate(r))
               /\ Commit(AfterUpdate(r))
               /\ approved' = IF /\ req[r].op \in {"status", "confirm"}
                                 /\ req[r].row.status = Active
                              THEN approved \cup {req[r].user} ELSE approved
               /\ fate' = IF master[req[r].user] # None
                          THEN FateAfter(req[r], req[r].cols) ELSE fate
               /\ Saved(r)
            \/ UNCHANGED <<tables, approved, fate>> /\ End(r)
         /\ UNCHANGED <<now, used, job, links, tokens, accepted, removed>>
  BY DEF SaveUpdate, AfterUpdate

LEMMA SaveUpdateTypes ==
  ASSUME TypeOK, Shape, NEW r \in Requests, SaveUpdate(r)
  PROVE  TypeOK' /\ Shape'
<1> DEFINE u == req[r].user
<1>1. At(r, "write") /\ UNCHANGED <<now, used, job, links, tokens, accepted, removed>>
  BY SaveUpdateCases
<1>2. u \in Users /\ req[r].row \in Rows
  BY <1>1 DEF At, Shape, ShapeOf
<1>3. CASE UNCHANGED <<tables, approved, fate>> /\ End(r)
  <2>1. req' \in [Requests -> Request] /\ Shape'
    BY <1>3, EndStep
  <2> QED BY <1>1, <1>3, <2>1 DEF TypeOK, tables
<1>4. CASE /\ Commit(AfterUpdate(r))
           /\ approved' = IF /\ req[r].op \in {"status", "confirm"}
                             /\ req[r].row.status = Active
                          THEN approved \cup {u} ELSE approved
           /\ fate' = IF master[u] # None
                      THEN FateAfter(req[r], req[r].cols) ELSE fate
           /\ Saved(r)
  <2>1. master' \in Tables /\ report' \in Tables
    BY <1>2, <1>4, AfterUpdateIsTable, CommitTypes
  <2>2. req' \in [Requests -> Request] /\ Shape'
    BY <1>1, <1>4, SavedStep
  <2>3. approved' \subseteq Users
    BY <1>2, <1>4 DEF TypeOK
  <2>4. fate' \in [Users -> [Numbers -> Fates]]
    BY <1>2, <1>4, FateAfterStep DEF TypeOK
  <2> QED BY <1>1, <2>1, <2>2, <2>3, <2>4 DEF TypeOK
<1> QED BY <1>3, <1>4, SaveUpdateCases

LEMMA SaveInsertCases ==
  ASSUME NEW r \in Requests, SaveInsert(r)
  PROVE  LET u == req[r].user
             table == [master EXCEPT ![u] = Restored(req[r])]
         IN /\ At(r, "restore")
            /\ \/ /\ master[u] = None
                  /\ UniqueIndexes(table)
                  /\ Commit(table)
                  /\ fate' = IF req[r].op = "verify"
                             THEN FateAfter(req[r], Columns) ELSE fate
                  /\ Saved(r)
               \/ UNCHANGED <<tables, fate>> /\ End(r)
            /\ UNCHANGED <<now, used, job, links, tokens, accepted, approved, removed>>
  BY DEF SaveInsert

LEMMA SaveInsertTypes ==
  ASSUME TypeOK, Shape, NEW r \in Requests, SaveInsert(r)
  PROVE  TypeOK' /\ Shape'
<1> DEFINE u == req[r].user
           table == [master EXCEPT ![u] = Restored(req[r])]
<1>1. /\ At(r, "restore")
      /\ UNCHANGED <<now, used, job, links, tokens, accepted, approved, removed>>
  BY SaveInsertCases
<1>2. u \in Users /\ req[r].row \in Rows
  BY <1>1 DEF At, Shape, ShapeOf
<1>3. table \in Tables
  BY <1>2, RestoredIsRow DEF TypeOK, Tables
<1>4. CASE UNCHANGED <<tables, fate>> /\ End(r)
  <2>1. req' \in [Requests -> Request] /\ Shape'
    BY <1>4, EndStep
  <2> QED BY <1>1, <1>4, <2>1 DEF TypeOK, tables
<1>5. CASE /\ Commit(table)
           /\ fate' = IF req[r].op = "verify" THEN FateAfter(req[r], Columns) ELSE fate
           /\ Saved(r)
  <2>1. master' \in Tables /\ report' \in Tables
    BY <1>3, <1>5, CommitTypes
  <2>2. req' \in [Requests -> Request] /\ Shape'
    BY <1>1, <1>5, SavedStep
  <2>3. fate' \in [Users -> [Numbers -> Fates]]
    BY <1>2, <1>5, FateAfterStep DEF TypeOK
  <2> QED BY <1>1, <2>1, <2>2, <2>3 DEF TypeOK
<1> QED BY <1>4, <1>5, SaveInsertCases

LEMMA MailTypes ==
  ASSUME TypeOK, Shape, NEW r \in Requests, Mail(r)
  PROVE  TypeOK' /\ Shape'
<1>1. req' \in [Requests -> Request] /\ Shape'
  BY EndStep DEF Mail
<1> DEFINE c == IF req[r].op = "forgot" THEN req[r].code ELSE None
<1>2. /\ req[r].op \in JobNames /\ req[r].user \in Users
      /\ c \in Codes \cup {None}
  BY DEF Mail, At, Shape, ShapeOf, JobNames
<1>3. job' \in JobRecords
  BY <1>2, JobType DEF Mail
<1> QED BY <1>1, <1>3 DEF Mail, TypeOK, tables, history

LEMMA FailTypes ==
  ASSUME TypeOK, Shape, NEW r \in Requests, Fail(r)
  PROVE  TypeOK' /\ Shape'
<1>1. req' \in [Requests -> Request] /\ Shape'
  BY EndStep DEF Fail
<1> QED BY <1>1 DEF Fail, TypeOK, tables, history

LEMMA StatementTypes ==
  ASSUME TypeOK, Shape, NEW u \in Users, Statement(u)
  PROVE  TypeOK' /\ Shape'
<1>1. CASE GenerateActiveToken(u)
  BY <1>1 DEF GenerateActiveToken, TypeOK, Shape, tables, history
<1>2. CASE ActiveTokenExpires(u)
  BY <1>2 DEF ActiveTokenExpires, TypeOK, Shape, tables, history
<1>3. CASE SetFirstLogin(u)
  <2>1. PICK b \in BOOLEAN : Commit([master EXCEPT ![u].isFirstLogin = b])
    BY <1>3 DEF SetFirstLogin
  <2>2. [master[u] EXCEPT !.isFirstLogin = b] \in Rows
    BY <1>3 DEF SetFirstLogin, TypeOK, Tables, Rows
  <2>3. [master EXCEPT ![u].isFirstLogin = b] \in Tables
    BY <2>2 DEF TypeOK, Tables
  <2>4. master' \in Tables /\ report' \in Tables
    BY <2>1, <2>3, CommitTypes
  <2> QED BY <1>3, <2>4 DEF SetFirstLogin, TypeOK, Shape, history
<1>4. CASE Remove(u)
  <2>1. [master EXCEPT ![u] = None] \in Tables
    BY DEF TypeOK, Tables
  <2>2. master' \in Tables /\ report' \in Tables
    BY <1>4, <2>1, CommitTypes DEF Remove
  <2> QED BY <1>4, <2>2 DEF Remove, TypeOK, Shape
<1> QED BY <1>1, <1>2, <1>3, <1>4 DEF Statement

LEMMA EnvironmentTypes ==
  ASSUME TypeOK, Shape, CatchUp \/ Tick \/ UNCHANGED vars
  PROVE  TypeOK' /\ Shape'
<1>1. CASE CatchUp
  BY <1>1 DEF CatchUp, TypeOK, Shape, history
<1>2. CASE Tick
  <2>1. now' \in 0..MaxTime
    BY <1>2, TableConstants DEF Tick, TypeOK
  <2> QED BY <1>2, <2>1 DEF Tick, TypeOK, Shape, tables, history
<1>3. CASE UNCHANGED vars
  BY <1>3 DEF vars, TypeOK, Shape
<1> QED BY <1>1, <1>2, <1>3

-----------------------------------------------------------------------------
LEMMA HandlerTypes ==
  ASSUME TypeOK, Shape, NEW r \in Requests, Handler(r)
  PROVE  TypeOK' /\ Shape'
<1>1. "lock" \in {"lock", "unlock"} /\ "unlock" \in {"lock", "unlock"}
  OBVIOUS
<1>2. Locked \in {Locked, Unlocked} /\ Unlocked \in {Locked, Unlocked}
  OBVIOUS
<1>3. LockRead(r, "lock", Locked) => TypeOK' /\ Shape'
  BY <1>1, <1>2, LockReadTypes
<1>4. LockRead(r, "unlock", Unlocked) => TypeOK' /\ Shape'
  BY <1>1, <1>2, LockReadTypes
<1> QED
  BY <1>3, <1>4, CreateCheckTypes, RegisterTypes, InsertTypes, ForgotReadTypes,
     ResetCheckTypes, UpdatePasswordTypes, ChangeGuardTypes, ChangePasswordTypes,
     ResendReadTypes, VerifyReadTypes, ConfirmReadTypes, ConfirmForgetTypes,
     StatusReadTypes, SaveSelectTypes, SaveUpdateTypes, SaveInsertTypes,
     MailTypes, FailTypes
  DEF Handler

LEMMA TypesStep ==
  ASSUME TypeOK, Shape, [Next]_vars
  PROVE  TypeOK' /\ Shape'
BY HandlerTypes, StatementTypes, EnvironmentTypes DEF Next

LEMMA TypesInit ==
  ASSUME Init
  PROVE  TypeOK /\ Shape
<1>1. master \in Tables /\ report \in Tables
  BY AccountConstants DEF Init
<1>2. req \in [Requests -> Request] /\ Shape
  BY IdleIsRequest DEF Init, Shape
<1>3. now \in 0..MaxTime
  BY TableConstants DEF Init
<1>4. accepted \in [Users -> SUBSET Passwords]
  <2>1. ASSUME NEW u \in Users, master[u] # None
        PROVE  master[u].password.plain \in Passwords
    BY <1>1, <2>1, AccountConstants DEF Init, Tables, Rows, Hashes
  <2> QED BY <2>1 DEF Init
<1>5. fate \in [Users -> [Numbers -> Fates]]
  BY DEF Init, Fates
<1> QED BY <1>1, <1>2, <1>3, <1>4, <1>5 DEF Init, TypeOK

(* Every reachable state has its types, and every request carries what its  *)
(* next step needs (users.service.ts, users.controller.ts,                  *)
(* auth.service.ts).                                                        *)
THEOREM Types == Spec => [](TypeOK /\ Shape)
<1>1. Init => TypeOK /\ Shape
  BY TypesInit
<1>2. (TypeOK /\ Shape) /\ [Next]_vars => (TypeOK /\ Shape)'
  BY TypesStep
<1> QED BY <1>1, <1>2, PTL DEF Spec
=============================================================================
