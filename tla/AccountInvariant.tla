-------------------------- MODULE AccountInvariant --------------------------
(***************************************************************************)
(* The inductive invariant of Accounts, in named parts.                    *)
(***************************************************************************)
EXTENDS AccountSafety

(* The operations that end in save().                                       *)
Savers == {"forgot", "reset", "change", "verify"}

HashedOnce(row) == row.password.plain \in Passwords /\ row.password.rounds = 1

(* A request carries what its next step needs.                              *)
ShapeOf(q) ==
  /\ q.pc \in {"reload", "compare", "forget", "save", "write", "restore", "mail"}
       => q.user \in Users
  /\ q.pc \in {"insert", "save", "write", "restore"} => q.row \in Rows
  /\ q.pc = "insert" => HashedOnce(q.row)
  /\ q.pc = "reload" => q.op = "reset" /\ q.password \in Passwords /\ q.email # None
  /\ q.pc = "compare" => q.op = "change"
  /\ q.pc = "forget" => q.op = "confirm"
  /\ q.pc \in {"save", "restore"} => q.op \in Savers
  /\ q.pc = "mail" => q.op \in {"forgot", "reset", "resend"}
  /\ q.pc = "mail" /\ q.op = "forgot" => q.code \in Codes
  /\ q.pc \in {"save", "write", "restore"} /\ q.op = "forgot" => q.code \in Codes
  /\ q.pc = "write" => \/ q.op \in {"lock", "unlock"} /\ q.cols = {"locked"}
                       \/ q.op \in {"status", "confirm"} /\ q.cols = {"status"}
                       \/ q.op \in Savers

Shape == \A r \in Requests : ShapeOf(req[r])

-----------------------------------------------------------------------------
(* The copies of an account: the report row, and the rows requests hold     *)
(* until they are saved.  What a request must respect is stated over the    *)
(* table, the removed ids, the approved ids and the accepted passwords it is *)
(* judged by, so that one request can be judged before and after a step.    *)
HoldsRow(q) == q.pc \in {"save", "write", "restore"} /\ q.op \in Savers

SameIdentity(row, u, table) ==
  table[u] # None /\ Identity(row) = Identity(table[u])

(* Every copy of an account that was never removed has its identity, a      *)
(* reset reloads by its address, and only removed accounts are re-inserted. *)
AgreementOf(q, table, gone) ==
  q.user \notin gone =>
    /\ HoldsRow(q) => SameIdentity(q.row, q.user, table) /\ q.pc # "restore"
    /\ q.pc = "reload" => table[q.user] # None /\ table[q.user].email = q.email

Agreement ==
  /\ UniqueIndexes(master)
  /\ \A u \in Users : master[u] # None \/ report[u] # None \/ u \in removed => u \in used
  /\ \A u \in Users : u \notin removed /\ report[u] # None =>
       SameIdentity(report[u], u, master)
  /\ \A r \in Requests : AgreementOf(req[r], master, removed)

(* Active, in any copy of an account, was approved.                         *)
RowApproved(row, u, ok) == row # None /\ row.status = Active => u \in ok

ApprovalOf(q, ok) == HoldsRow(q) => RowApproved(q.row, q.user, ok)

Approvals ==
  /\ \A u \in Users : RowApproved(master[u], u, approved)
  /\ \A u \in Users : RowApproved(report[u], u, approved)
  /\ \A r \in Requests : ApprovalOf(req[r], approved)

(* The password in any copy of an account was accepted for it.              *)
RowAccepted(row, u, ok) ==
  row # None => row.password.plain \in ok[u] /\ row.password.rounds = 1

AcceptanceOf(q, ok) ==
  /\ HoldsRow(q) => RowAccepted(q.row, q.user, ok)
  /\ q.pc = "reload" => q.password \in ok[q.user]

Acceptances ==
  removed = {} =>
    /\ \A u \in Users : RowAccepted(master[u], u, accepted)
    /\ \A u \in Users : RowAccepted(report[u], u, accepted)
    /\ \A r \in Requests : AcceptanceOf(req[r], accepted)

Invariant == TypeOK /\ Shape /\ Agreement /\ Approvals /\ Acceptances

-----------------------------------------------------------------------------
(* Reset codes.                                                             *)

(* A code that was drawn again, or that a verification wrote back, may turn *)
(* up in the table at any time.                                             *)
Loose == {"redrawn", "returned"}

(* The row of the account u shows the code.                                 *)
Stored(table, u, c) == table[u] # None /\ table[u].tokenResetPassword = c

(* The request has drawn its code and may still store it.                   *)
Drawn(q) == q.op = "forgot" /\ q.pc \in {"save", "write", "restore"}

(* The request was accepted for its code and has not saved the password.    *)
Using(q) == q.op = "reset" /\ q.pc \in {"reload", "save", "write"} /\ q.code \in Codes

(* A code that was drawn once and is on its way is not stored yet; a code   *)
(* that was drawn once and is being used will be cleared, or already is.    *)
CodeOf(q, table, f) ==
  /\ Drawn(q) =>
       /\ q.row.tokenResetPassword = q.code
       /\ \/ f[q.user][q.code] \in Loose
          \/ f[q.user][q.code] = "issued" /\ ~Stored(table, q.user, q.code)
  /\ Using(q) =>
       /\ f[q.user][q.code] # "new"
       /\ q.pc = "write" /\ f[q.user][q.code] = "issued" =>
            "tokenResetPassword" \in q.cols \/ ~Stored(table, q.user, q.code)
  /\ q.op \in {"reset", "change"} /\ q.pc \in {"save", "write", "restore"} =>
       q.row.tokenResetPassword = None

(* Only a loose code is in two hands, one of which may store it.            *)
InOneHand ==
  \A r, s \in Requests :
    /\ r # s
    /\ Drawn(req[r])
    /\ Drawn(req[s]) \/ Using(req[s])
    /\ req[r].user = req[s].user
    /\ req[r].code = req[s].code
    => fate[req[r].user][req[r].code] \in Loose

(* A code that report shows was drawn, and is not on its way to the table   *)
(* unless it is loose: a reset that is accepted for it finds it as          *)
(* the table had it.                                                        *)
ReportSafe ==
  /\ \A u \in Users : \A c \in Codes : Stored(report, u, c) => fate[u][c] # "new"
  /\ \A r \in Requests :
       Drawn(req[r]) /\ Stored(report, req[r].user, req[r].code) =>
         fate[req[r].user][req[r].code] \in Loose

(* Some copy of the account u has the e-mail address.                       *)
RowHas(row, e) == row # None /\ row.email = e

CarriesEmail(q, u, e) ==
  /\ q.user = u
  /\ \/ HoldsRow(q) /\ q.row.email = e
     \/ q.pc = "reload" /\ q.email = e

HasEmail(u, e) ==
  \/ RowHas(master[u], e)
  \/ RowHas(report[u], e)
  \/ \E r \in Requests : CarriesEmail(req[r], u, e)

(* While nobody registers, an address belongs to one account in all copies, *)
(* those of removed accounts included.                                      *)
Settled ==
  /\ \A r \in Requests : req[r].pc # "insert"
  /\ \A u, v \in Users : \A e \in Emails : HasEmail(u, e) /\ HasEmail(v, e) => u = v

(* A reset finds the account that its code was accepted for.                *)
Steady ==
  \/ "remove" \notin Operations /\ removed = {}
  \/ Operations \cap {"create", "register"} = {} /\ Settled

CodesTraced ==
  /\ ReportSafe
  /\ \A r \in Requests : CodeOf(req[r], master, fate)
  /\ InOneHand
  /\ StoredCodeIsLive

CodesSafe == Steady /\ CodesTraced

CodeInvariant == Invariant /\ CodesSafe

-----------------------------------------------------------------------------
(* The account had a code, or was registered with an expiry: since then its *)
(* copies may have an expiry.                                               *)
Opened(u, f) == f[u][0] = "issued" \/ \E c \in Codes : f[u][c] # "new"

RowOpened(row, u, f) == row # None /\ row.expire # None => Opened(u, f)

OpeningsKnown ==
  /\ \A u \in Users : RowOpened(master[u], u, fate)
  /\ \A u \in Users : RowOpened(report[u], u, fate)
  /\ \A r \in Requests : HoldsRow(req[r]) => RowOpened(req[r].row, req[r].user, fate)
  /\ ZeroNeedsCode

-----------------------------------------------------------------------------
(* While nobody registers, every copy of an account has a password of that  *)
(* account, or none, removed or not.                                        *)
RowOwn(row, u, ok) == row # None => row.password.plain \in ok[u] \cup {Blank}

OwnOf(q, ok) ==
  /\ HoldsRow(q) => RowOwn(q.row, q.user, ok)
  /\ q.pc = "reload" => q.password \in ok[q.user]

OwnCopies ==
  /\ \A u \in Users : RowOwn(master[u], u, accepted)
  /\ \A u \in Users : RowOwn(report[u], u, accepted)
  /\ \A r \in Requests : OwnOf(req[r], accepted)

-----------------------------------------------------------------------------
(* Without the operations that save whole rows, a request in flight writes  *)
(* the columns of its operation only.                                       *)
NarrowOf(q) ==
  /\ q.op \notin {"reset", "change", "verify"}
  /\ q.op = "forgot" /\ q.pc = "write" => q.cols \subseteq {"tokenResetPassword", "expire"}

Narrow == \A r \in Requests : NarrowOf(req[r])
=============================================================================
