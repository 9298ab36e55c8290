------------------------------ MODULE Accounts ------------------------------
(***************************************************************************)
(* The account operations of UsersService, UsersController and             *)
(* AuthService over one users table, with requests that interleave at      *)
(* every await.  A request is a record in req; an action is what one       *)
(* request does between two awaits.  Reads go through the 'report'         *)
(* connection, writes through 'master'; when Lagging, report is a copy     *)
(* that catches up later, otherwise the two are one database.              *)
(*                                                                         *)
(* A first read that refuses the request changes nothing and is not an     *)
(* action.  Starting a request and its first read are one action.          *)
(* Definitions headed "Faulty variant" are not part of the model.          *)
(***************************************************************************)
EXTENDS UsersTable

CONSTANTS
  Requests,    \* slots for requests in flight
  Operations,  \* operations clients call in this instance
  Seeds,       \* tables the program may start from
  Lagging,     \* TRUE: report is a replica that lags
  LinkTtl      \* verify_email_token_expiry, in clock units

ASSUME AccountConstants ==
  /\ LinkTtl \in Nat
  /\ Lagging \in BOOLEAN
  /\ \A t \in Seeds :
       /\ t \in Tables
       /\ UniqueIndexes(t)
       /\ \A u \in Users : t[u] # None =>
            /\ t[u].password.plain # Blank
            /\ t[u].password.rounds = 1

VARIABLES
  master,   \* the users table behind the 'master' connection
  report,   \* what the 'report' connection reads
  req,      \* the requests
  now,      \* the clock
  used,     \* ids AUTO_INCREMENT has handed out
  job,      \* the last job put on the 'mail' queue
  links,    \* verification tokens handed out: <<user, expiry>>
  tokens,   \* users with an activation token in the cache
  accepted, \* history: the passwords the program accepted for each user
  approved, \* history: the users created active, approved or confirmed
  removed,  \* history: the users remove() deleted
  fate      \* history: what became of each number as a reset code of each user

vars == <<master, report, req, now, used, job, links, tokens,
          accepted, approved, removed, fate>>
tables  == <<master, report>>
history == <<accepted, approved, removed, fate>>

(* Reset codes as checkPassToken compares them: 0 is that of a NULL.        *)
Numbers == Codes \cup {0}

Fates == {"new", "issued", "spent", "redrawn", "returned"}

Ops == {"create", "register", "forgot", "reset", "change", "verify", "resend",
        "lock", "unlock", "status", "confirm", "remove", "firstLogin",
        "activeToken"}

Pcs == {"idle", "insert", "reload", "compare", "forget", "save", "write",
        "restore", "mail"}

Job(name, u, code) == [name |-> name, user |-> u, code |-> code, at |-> now]

(* A slot with no request.                                                  *)
Idle == [op |-> "none", pc |-> "idle", user |-> None, email |-> None,
         row |-> None, cols |-> {}, code |-> None, password |-> Blank]

(* The row has been given the code c; 0 when it has an expiry alone.         *)
OpenTo(row, c) ==
  /\ row.tokenResetPassword # None \/ row.expire # None
  /\ JsNumber(row.tokenResetPassword) = c

Init ==
  /\ master \in Seeds
  /\ report = master
  /\ req = [r \in Requests |-> Idle]
  /\ now = 0
  /\ used = {u \in Users : master[u] # None}
  /\ job = None
  /\ links = {}
  /\ tokens = {}
  /\ accepted = [u \in Users |->
                  IF master[u] = None THEN {} ELSE {master[u].password.plain}]
  /\ approved = {u \in Users : master[u] # None /\ master[u].status = Active}
  /\ removed = {}
  /\ fate = [u \in Users |-> [c \in Numbers |->
               IF master[u] # None /\ OpenTo(master[u], c) THEN "issued" ELSE "new"]]

-----------------------------------------------------------------------------
(* What every request does.                                                 *)
Free(r, op) == op \in Operations /\ req[r].pc = "idle"
At(r, pc)   == req[r].pc = pc

Start(r, op, pc, u, row) ==
  req' = [req EXCEPT ![r] = [Idle EXCEPT !.op = op, !.pc = pc, !.user = u,
                                         !.row = row]]
Continue(r, pc) == req' = [req EXCEPT ![r].pc = pc]
End(r)          == req' = [req EXCEPT ![r] = Idle]

(* A save is the last thing a request does, but for the two that mail.      *)
Saved(r) == IF req[r].op \in {"forgot", "reset"} THEN Continue(r, "mail") ELSE End(r)

Commit(t) == /\ master' = t
             /\ report' = IF Lagging THEN report ELSE t

-----------------------------------------------------------------------------
(* Registration: POST /users, and validateUser of the login strategy, which *)
(* registers an unknown wallet.  Only the lookup guards the insert.         *)
CreateCheck(r) ==
  \E a \in Addresses, e \in Emails \cup {None}, p \in Passwords, body \in Bodies :
    /\ Free(r, "create")
    /\ {u \in Users : report[u] # None /\ report[u].address = a} = {}
    /\ Start(r, "create", "insert", None, NewRow(a, e, p, Active, body))
    /\ UNCHANGED <<tables, now, used, job, links, tokens, history>>

(* UsersService.create: no lookup, and the account waits for approval.      *)
Register(r) ==
  \E a \in Addresses, e \in Emails \cup {None}, p \in Passwords, body \in Bodies :
    /\ Free(r, "register")
    /\ Start(r, "register", "insert", None, NewRow(a, e, p, PendingActive, body))
    /\ UNCHANGED <<tables, now, used, job, links, tokens, history>>

(* Faulty variant: an insert that may hit an id already in use.             *)
Upsert(r) ==
  \E u \in Users :
    LET table == [master EXCEPT ![u] = req[r].row] IN
    /\ At(r, "insert")
    /\ UniqueIndexes(table)
    /\ Commit(table)
    /\ used' = used \cup {u}
    /\ End(r)
    /\ UNCHANGED <<now, job, links, tokens, history>>

(* The INSERT of save(), refused when a unique index would break.           *)
Insert(r) ==
  \E u \in Users \ used :
    LET table == [master EXCEPT ![u] = req[r].row] IN
    /\ At(r, "insert")
    /\ used' = used \cup {u}
    /\ IF UniqueIndexes(table)
       THEN /\ Commit(table)
            /\ accepted' = [accepted EXCEPT ![u] = {req[r].row.password.plain}]
            /\ approved' = IF req[r].row.status = Active
                           THEN approved \cup {u} ELSE approved
            /\ fate' = [fate EXCEPT ![u] = [c \in Numbers |->
                          IF OpenTo(req[r].row, c) THEN "issued" ELSE fate[u][c]]]
       ELSE UNCHANGED <<tables, accepted, approved, fate>>
    /\ End(r)
    /\ UNCHANGED <<now, job, links, tokens, removed>>

-----------------------------------------------------------------------------
(* POST /users/forgot-password: generateResetPasswordToken up to its save.  *)
ForgotRead(r) ==
  \E u \in Users, c \in Codes :
    /\ Free(r, "forgot")
    /\ Admits(report[u], Active)
    /\ ~(report[u].role \in Admins /\ report[u].isFirstLogin)
    /\ req' = [req EXCEPT ![r] =
         [Idle EXCEPT !.op = "forgot", !.pc = "save", !.user = u, !.code = c,
            !.row = [report[u] EXCEPT !.tokenResetPassword = c,
                                      !.expire = now + ResetTtl]]]
    /\ fate' = [fate EXCEPT ![u][c] = IF @ = "new" THEN "issued" ELSE "redrawn"]
    /\ UNCHANGED <<tables, now, used, job, links, tokens, accepted, approved,
                   removed>>

(* PUT /users/reset-password: checkPassToken.                               *)
ResetCheck(r) ==
  \E u \in Users, c \in Numbers, p \in Passwords :
    /\ Free(r, "reset")
    /\ CodeAccepted(report[u], c, now)
    /\ req' = [req EXCEPT ![r] =
         [Idle EXCEPT !.op = "reset", !.pc = "reload", !.user = u, !.code = c,
            !.email = report[u].email, !.password = p]]
    /\ accepted' = [accepted EXCEPT ![u] = @ \cup {p}]
    /\ fate' = IF c = 0 /\ fate[u][0] = "new"
               THEN [fate EXCEPT ![u][0] = "spent"] ELSE fate
    /\ UNCHANGED <<tables, now, used, job, links, tokens, approved, removed>>

(* Faulty variant: the code is not cleared.                                 *)
UpdatePasswordKeepsCode(r) ==
  LET found == {u \in Users : /\ Admits(report[u], Active)
                              /\ report[u].email = req[r].email} IN
  /\ At(r, "reload")
  /\ \/ \E u \in found :
          req' = [req EXCEPT ![r].pc = "save", ![r].user = u,
                    ![r].row = [report[u] EXCEPT !.password = Hash(req[r].password)]]
     \/ found = {} /\ End(r)
  /\ UNCHANGED <<tables, now, used, job, links, tokens, history>>

(* Faulty variant: the reload does not look for the e-mail address.         *)
UpdatePasswordOfAnyone(r) ==
  LET found == {u \in Users : Admits(report[u], Active)} IN
  /\ At(r, "reload")
  /\ \/ \E u \in found :
          req' = [req EXCEPT ![r].pc = "save", ![r].user = u,
                    ![r].row = [report[u] EXCEPT
                                  !.password = Hash(req[r].password),
                                  !.tokenResetPassword = None]]
     \/ found = {} /\ End(r)
  /\ UNCHANGED <<tables, now, used, job, links, tokens, history>>

(* updatePassword looks the account up again by its e-mail address; any     *)
(* error there is caught and ends the request with 500.                     *)
UpdatePassword(r) ==
  LET found == {u \in Users : /\ Admits(report[u], Active)
                              /\ report[u].email = req[r].email} IN
  /\ At(r, "reload")
  /\ \/ \E u \in found :
          req' = [req EXCEPT ![r].pc = "save", ![r].user = u,
                    ![r].row = [report[u] EXCEPT
                                  !.password = Hash(req[r].password),
                                  !.tokenResetPassword = None]]
     \/ found = {} /\ End(r)
  /\ UNCHANGED <<tables, now, used, job, links, tokens, history>>

-----------------------------------------------------------------------------
(* PUT /users/change-password.  The guard (JwtStrategy.validate) reads the  *)
(* account and refuses a locked one; changePassword reads it once more.     *)
ChangeGuard(r) ==
  \E u \in Users :
    /\ Free(r, "change")
    /\ report[u] # None
    /\ report[u].locked # Locked
    /\ Start(r, "change", "compare", u, None)
    /\ UNCHANGED <<tables, now, used, job, links, tokens, history>>

(* bcrypt.compare, then the new hash; a wrong password or a row that is     *)
(* gone ends the request.                                                   *)
ChangePassword(r) ==
  LET u == req[r].user IN
  /\ At(r, "compare")
  /\ \/ \E p \in Passwords :
          /\ report[u] # None
          /\ Comparable(report[u])
          /\ req' = [req EXCEPT ![r].pc = "save",
                       ![r].row = [report[u] EXCEPT !.password = Hash(p),
                                                    !.tokenResetPassword = None]]
          /\ accepted' = [accepted EXCEPT ![u] = @ \cup {p}]
     \/ End(r) /\ UNCHANGED accepted
  /\ UNCHANGED <<tables, now, used, job, links, tokens, approved, removed, fate>>

-----------------------------------------------------------------------------
(* POST /users/resend-verify-email: getVerifyEmailToken signs a token, the  *)
(* mail that carries it is queued by Mail.                                  *)
ResendRead(r) ==
  \E u \in Users :
    /\ Free(r, "resend")
    /\ Admits(report[u], Submit)
    /\ links' = links \cup {<<u, now + LinkTtl>>}
    /\ Start(r, "resend", "mail", u, None)
    /\ UNCHANGED <<tables, now, used, job, tokens, history>>

(* Faulty variant: a verified account needs no approval.                    *)
VerifyActivates(r) ==
  \E l \in links :
    /\ Free(r, "verify")
    /\ now < l[2]
    /\ report[l[1]] # None
    /\ report[l[1]].locked # Locked
    /\ report[l[1]].status = Submit
    /\ Start(r, "verify", "save", l[1], [report[l[1]] EXCEPT !.status = Active])
    /\ UNCHANGED <<tables, now, used, job, links, tokens, history>>

(* POST /auth/verify-email up to its save.                                  *)
VerifyRead(r) ==
  \E l \in links :
    /\ Free(r, "verify")
    /\ now < l[2]
    /\ report[l[1]] # None
    /\ report[l[1]].locked # Locked
    /\ report[l[1]].status = Submit
    /\ Start(r, "verify", "save", l[1],
             [report[l[1]] EXCEPT !.status = PendingActive])
    /\ UNCHANGED <<tables, now, used, job, links, tokens, history>>

-----------------------------------------------------------------------------
(* generateActiveToken puts a token in the cache; it may expire there.      *)
GenerateActiveToken(u) ==
  /\ "activeToken" \in Operations
  /\ tokens' = tokens \cup {u}
  /\ UNCHANGED <<tables, req, now, used, job, links, history>>

ActiveTokenExpires(u) ==
  /\ u \in tokens
  /\ tokens' = tokens \ {u}
  /\ UNCHANGED <<tables, req, now, used, job, links, history>>

(* GET /users/confirm: cache.get, cache.del, changeUserStatus.              *)
ConfirmRead(r) ==
  \E u \in tokens :
    /\ Free(r, "confirm")
    /\ Start(r, "confirm", "forget", u, None)
    /\ UNCHANGED <<tables, now, used, job, links, tokens, history>>

(* An UPDATE of one column, run by the save of SaveUpdate.                  *)
ConfirmForget(r) ==
  /\ At(r, "forget")
  /\ tokens' = tokens \ {req[r].user}
  /\ req' = [req EXCEPT ![r].pc = "write", ![r].cols = {"status"},
               ![r].row = [BlankRow(None, None) EXCEPT !.status = Active]]
  /\ UNCHANGED <<tables, now, used, job, links, history>>

(* lock and unlock: nothing to do when report already says so.              *)
LockRead(r, op, lock) ==
  \E u \in Users :
    /\ Free(r, op)
    /\ report[u] # None
    /\ report[u].locked # lock
    /\ req' = [req EXCEPT ![r] =
         [Idle EXCEPT !.op = op, !.pc = "write", !.user = u, !.cols = {"locked"},
            !.row = [BlankRow(None, None) EXCEPT !.locked = lock]]]
    /\ UNCHANGED <<tables, now, used, job, links, tokens, history>>

(* updateStatusUserRegistration: the mails are queued before the UPDATE.    *)
StatusRead(r) ==
  \E u \in Users, s \in Statuses :
    /\ Free(r, "status")
    /\ report[u] # None
    /\ req' = [req EXCEPT ![r] =
         [Idle EXCEPT !.op = "status", !.pc = "write", !.user = u,
            !.cols = {"status"},
            !.row = [BlankRow(None, None) EXCEPT !.status = s]]]
    /\ job' = CASE s = Active   -> Job("approve", u, None)
                [] s = Deactive -> Job("reject", u, None)
                [] OTHER        -> job
    /\ UNCHANGED <<tables, now, used, links, tokens, history>>

-----------------------------------------------------------------------------
(* Faulty variant: forgot saves the entity it read.                         *)
WholeEntity(op) == Columns

(* save(): the SELECT.  forgot saves a partial entity; a new hash never     *)
(* equals the old one, whatever the plain text, and the raw row that change *)
(* saves has a number where the column isFirstLogin has a boolean.          *)
EntityColumns(op) ==
  IF op = "forgot" THEN {"tokenResetPassword", "expire"} ELSE Columns

Rehashed(op) == CASE op = "reset"  -> {"password"}
                  [] op = "change" -> {"password", "isFirstLogin"}
                  [] OTHER         -> {}

SaveSelect(r) ==
  LET q == req[r] IN
  /\ At(r, "save")
  /\ IF master[q.user] = None
     THEN Continue(r, "restore")
     ELSE req' = [req EXCEPT ![r].pc = "write",
            ![r].cols = Rehashed(q.op) \cup
                        (Differing(master[q.user], q.row) \cap EntityColumns(q.op))]
  /\ UNCHANGED <<tables, now, used, job, links, tokens, history>>

(* What a save makes of the codes: a reset spends the code it was accepted   *)
(* for, a verification may write back the one it read.                      *)
FateAfter(q, cols) ==
  CASE q.op = "reset" /\ q.code \in Codes ->
         [fate EXCEPT ![q.user][q.code] = IF @ = "issued" THEN "spent" ELSE @]
    [] /\ q.op = "verify"
       /\ "tokenResetPassword" \in cols
       /\ q.row.tokenResetPassword # None ->
         [fate EXCEPT ![q.user][q.row.tokenResetPassword] = "returned"]
    [] OTHER -> fate

(* UPDATE users SET cols WHERE id: of a save, or of lock, unlock, status    *)
(* and confirm.  It matches no row when the account is gone, and fails when *)
(* a unique index would break.                                              *)
SaveUpdate(r) ==
  LET q == req[r]
      found == master[q.user] # None
      table == IF found
               THEN [master EXCEPT ![q.user] = Updated(@, q.row, q.cols)]
               ELSE master
  IN
  /\ At(r, "write")
  /\ IF UniqueIndexes(table)
     THEN /\ Commit(table)
          /\ approved' = IF q.op \in {"status", "confirm"} /\ q.row.status = Active
                         THEN approved \cup {q.user} ELSE approved
          /\ fate' = IF found THEN FateAfter(q, q.cols) ELSE fate
          /\ Saved(r)
     ELSE UNCHANGED <<tables, approved, fate>> /\ End(r)
  /\ UNCHANGED <<now, used, job, links, tokens, accepted, removed>>

(* save() of an account that remove() deleted meanwhile: an INSERT with its *)
(* old id.  BeforeInsert hashes the password of an entity object once more; *)
(* forgot and change save plain objects.                                    *)
Restored(q) ==
  CASE q.op = "forgot" -> BlankRow(q.row.tokenResetPassword, q.row.expire)
    [] q.op \in {"reset", "verify"} -> [q.row EXCEPT !.password = HashAgain(@)]
    [] OTHER -> q.row

SaveInsert(r) ==
  LET q == req[r]
      table == [master EXCEPT ![q.user] = Restored(q)]
  IN
  /\ At(r, "restore")
  /\ IF master[q.user] = None /\ UniqueIndexes(table)
     THEN /\ Commit(table)
          /\ fate' = IF q.op = "verify" THEN FateAfter(q, Columns) ELSE fate
          /\ Saved(r)
     ELSE UNCHANGED <<tables, fate>> /\ End(r)
  /\ UNCHANGED <<now, used, job, links, tokens, accepted, approved, removed>>

(* The mail job that forgot, reset and resend put on the queue.             *)
Mail(r) ==
  LET q == req[r] IN
  /\ At(r, "mail")
  /\ job' = Job(q.op, q.user, IF q.op = "forgot" THEN q.code ELSE None)
  /\ End(r)
  /\ UNCHANGED <<tables, now, used, links, tokens, history>>

-----------------------------------------------------------------------------
(* Single statements: setFirstLogin and remove.  Bound: an id is removed    *)
(* once.                                                                    *)
SetFirstLogin(u) ==
  \E b \in BOOLEAN :
    /\ "firstLogin" \in Operations
    /\ master[u] # None
    /\ Commit([master EXCEPT ![u].isFirstLogin = b])
    /\ UNCHANGED <<req, now, used, job, links, tokens, history>>

Remove(u) ==
  /\ "remove" \in Operations
  /\ master[u] # None
  /\ u \notin removed
  /\ Commit([master EXCEPT ![u] = None])
  /\ removed' = removed \cup {u}
  /\ UNCHANGED <<req, now, used, job, links, tokens, accepted, approved, fate>>

-----------------------------------------------------------------------------
(* The environment: replication, the clock, and the error or crash that     *)
(* ends a request at an await.                                              *)
CatchUp ==
  /\ Lagging
  /\ report' = master
  /\ UNCHANGED <<master, req, now, used, job, links, tokens, history>>

Tick ==
  /\ now < MaxTime
  /\ now' = now + 1
  /\ UNCHANGED <<tables, req, used, job, links, tokens, history>>

Fail(r) ==
  /\ req[r].pc # "idle"
  /\ End(r)
  /\ UNCHANGED <<tables, now, used, job, links, tokens, history>>

Handler(r) ==
  \/ CreateCheck(r) \/ Register(r) \/ Insert(r)
  \/ ForgotRead(r) \/ ResetCheck(r) \/ UpdatePassword(r)
  \/ ChangeGuard(r) \/ ChangePassword(r)
  \/ ResendRead(r) \/ VerifyRead(r)
  \/ ConfirmRead(r) \/ ConfirmForget(r)
  \/ LockRead(r, "lock", Locked) \/ LockRead(r, "unlock", Unlocked)
  \/ StatusRead(r)
  \/ SaveSelect(r) \/ SaveUpdate(r) \/ SaveInsert(r) \/ Mail(r)
  \/ Fail(r)

Statement(u) ==
  \/ GenerateActiveToken(u) \/ ActiveTokenExpires(u)
  \/ SetFirstLogin(u) \/ Remove(u)

Next ==
  \/ \E r \in Requests : Handler(r)
  \/ \E u \in Users : Statement(u)
  \/ CatchUp
  \/ Tick

Spec == Init /\ [][Next]_vars
=============================================================================
