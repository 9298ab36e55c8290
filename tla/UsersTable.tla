----------------------------- MODULE UsersTable -----------------------------
(***************************************************************************)
(* The users table and the three things the services do to it: look a row  *)
(* up, save an entity, and run one UPDATE.  A row holds the columns the    *)
(* account operations read or write; the profile columns (title, company,  *)
(* position, fullname, phone, userType, the two dates) are data nobody     *)
(* branches on and are left out.                                           *)
(*                                                                         *)
(* TypeORM's save(entity) is two round trips with nothing locked between   *)
(* them: SELECT the row by id, then UPDATE exactly the columns in which    *)
(* the entity differs from it, or INSERT the entity when there is no row.  *)
(*                                                                         *)
(* A definition headed "Faulty variant" is not part of the model: it is a  *)
(* plausible mistake that the properties have to notice.                   *)
(***************************************************************************)
EXTENDS Integers

CONSTANTS
  Users,      \* primary keys the table can hand out
  Addresses,  \* wallet addresses a client may register
  Emails,     \* e-mail addresses a client may register
  Passwords,  \* plain texts of passwords
  Codes,      \* values genRandomSixDigit can return
  MaxTime,    \* bound of the clock
  ResetTtl,   \* EXPIRE_RESET_PASS_TOKEN_SECONDS, in clock units
  Bodies,     \* what bodies of POST /users say of columns with a default
  Blank,      \* the empty string
  None        \* NULL / undefined / no row

ASSUME TableConstants ==
  /\ Codes \subseteq Int \ {0}
  /\ MaxTime \in Nat
  /\ ResetTtl \in Nat
  /\ None \notin Emails \cup Codes \cup Int
  /\ Blank \notin Addresses \cup Emails \cup Passwords
  /\ Blank # None

-----------------------------------------------------------------------------
(* UserStatus, UserLockStatus and Role, with the numbers of the enums.      *)
Deactive      == 0
Submit        == 1
PendingActive == 2
Active        == 3
Statuses      == 0..3

Locked        == 0
Unlocked      == 1
Roles         == 0..2
Admins        == {1, 2}

Times == 0..(MaxTime + ResetTtl)

(* A stored password: the plain text and how many times bcrypt hashed it.   *)
Hashes == [plain : Passwords \cup {Blank}, rounds : Nat]
Hash(p) == [plain |-> p, rounds |-> 1]
HashAgain(h) == [plain |-> h.plain, rounds |-> h.rounds + 1]

Columns == {"address", "email", "password", "role", "status", "locked",
            "isFirstLogin", "tokenResetPassword", "expire"}

Rows == [address : Addresses \cup {Blank}, email : Emails \cup {None},
         password : Hashes, role : Roles, status : Statuses,
         locked : {Locked, Unlocked}, isFirstLogin : BOOLEAN,
         tokenResetPassword : Codes \cup {None}, expire : Times \cup {None}]

ASSUME NullIsNoRow == None \notin Rows

Tables == [Users -> Rows \cup {None}]

(* The columns with a default that plainToClass takes over from a body.     *)
Optional == [locked : {Locked, Unlocked}, isFirstLogin : BOOLEAN,
             tokenResetPassword : Codes \cup {None}, expire : Times \cup {None}]

ASSUME BodiesAreOptional == Bodies \subseteq Optional

(* The row createUser and create save; role and status are not the body's.  *)
NewRow(a, e, p, s, body) ==
  [address |-> a, email |-> e, password |-> Hash(p), role |-> 0, status |-> s,
   locked |-> body.locked, isFirstLogin |-> body.isFirstLogin,
   tokenResetPassword |-> body.tokenResetPassword, expire |-> body.expire]

(* Faulty variant: Blank for a column whose default is NULL.                *)
BlankRowNoNull(code, expire) ==
  [address |-> Blank, email |-> Blank, password |-> [plain |-> Blank, rounds |-> 0],
   role |-> 0, status |-> Submit, locked |-> Unlocked, isFirstLogin |-> FALSE,
   tokenResetPassword |-> code, expire |-> expire]

(* What an INSERT of {id, expire, tokenResetPassword} leaves in the table:  *)
(* the defaults, Blank for the text columns that have none.                 *)
BlankRow(code, expire) ==
  [address |-> Blank, email |-> None, password |-> [plain |-> Blank, rounds |-> 0],
   role |-> 0, status |-> Submit, locked |-> Unlocked, isFirstLogin |-> FALSE,
   tokenResetPassword |-> code, expire |-> expire]

-----------------------------------------------------------------------------
(* Faulty variant: the index on address is missing.                         *)
UniqueEmailOnly(t) ==
  \A u, v \in Users :
    (u # v /\ t[u] # None /\ t[v] # None /\ t[u].email = t[v].email) =>
       t[u].email = None

(* The unique indexes on address and email; MySQL lets NULL repeat.         *)
UniqueIndexes(t) ==
  \A u, v \in Users :
    (u # v /\ t[u] # None /\ t[v] # None) =>
       /\ t[u].address # t[v].address
       /\ t[u].email = t[v].email => t[u].email = None

(* Number(x) of a column that may be NULL.                                  *)
JsNumber(x) == IF x = None THEN 0 ELSE x

(* findUserByEmailOptions({email, status}) returns row instead of throwing. *)
Admits(row, status) ==
  /\ row # None
  /\ row.email # None
  /\ row.status # Deactive
  /\ row.status = status
  /\ row.locked = Unlocked

(* Faulty variant: a row without an expiry is not an error, it has not       *)
(* expired.                                                                 *)
CodeNeverExpires(row, code, time) ==
  /\ Admits(row, Active)
  /\ row.expire = None \/ time <= row.expire
  /\ code = JsNumber(row.tokenResetPassword)

(* checkPassToken answers true for this row, and does not throw.            *)
CodeAccepted(row, code, time) ==
  /\ Admits(row, Active)
  /\ row.expire # None
  /\ time <= row.expire
  /\ code = JsNumber(row.tokenResetPassword)

(* bcrypt.compare(plain, row.password) for some plain text.                 *)
Comparable(row) == row.password.plain # Blank /\ row.password.rounds = 1

(* The row after UPDATE users SET cols, the values taken from new.          *)
Updated(old, new, cols) ==
  [address      |-> IF "address" \in cols THEN new.address ELSE old.address,
   email        |-> IF "email" \in cols THEN new.email ELSE old.email,
   password     |-> IF "password" \in cols THEN new.password ELSE old.password,
   role         |-> IF "role" \in cols THEN new.role ELSE old.role,
   status       |-> IF "status" \in cols THEN new.status ELSE old.status,
   locked       |-> IF "locked" \in cols THEN new.locked ELSE old.locked,
   isFirstLogin |-> IF "isFirstLogin" \in cols THEN new.isFirstLogin
                    ELSE old.isFirstLogin,
   tokenResetPassword |-> IF "tokenResetPassword" \in cols
                          THEN new.tokenResetPassword ELSE old.tokenResetPassword,
   expire       |-> IF "expire" \in cols THEN new.expire ELSE old.expire]

(* The columns in which the entity new, read back, differs from old.        *)
Differing(old, new) == {c \in Columns : old[c] # new[c]}
=============================================================================
