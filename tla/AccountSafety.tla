---------------------------- MODULE AccountSafety ----------------------------
(***************************************************************************)
(* The properties of Accounts.                                             *)
(***************************************************************************)
EXTENDS Accounts

Request ==
  [op : Ops \cup {"none"}, pc : Pcs, user : Users \cup {None},
   email : Emails \cup {None}, row : Rows \cup {None}, cols : SUBSET Columns,
   code : Numbers \cup {None}, password : Passwords \cup {Blank}]

JobNames == {"approve", "reject", "forgot", "reset", "resend"}

JobRecords == [name : JobNames, user : Users, code : Codes \cup {None}, at : 0..MaxTime]

(* Every variable keeps its type.                                           *)
TypeOK ==
  /\ master \in Tables
  /\ report \in Tables
  /\ req \in [Requests -> Request]
  /\ now \in 0..MaxTime
  /\ used \subseteq Users
  /\ job \in JobRecords \cup {None}
  /\ links \subseteq Users \X (0..(MaxTime + LinkTtl))
  /\ tokens \subseteq Users
  /\ accepted \in [Users -> SUBSET Passwords]
  /\ approved \subseteq Users
  /\ removed \subseteq Users
  /\ fate \in [Users -> [Numbers -> Fates]]

-----------------------------------------------------------------------------
(* However reads, saves and reloads by e-mail interleave, the password of   *)
(* an account is one that the program accepted for that very account: at    *)
(* its registration, after its current password, or with a number that      *)
(* checkPassToken found equal to its code (users.controller.ts:192 looks    *)
(* the account up again).  It is hashed once.  (An account re-inserted      *)
(* after remove() is hashed twice.)                                         *)
StoredPasswordWasAccepted ==
  removed = {} =>
    \A u \in Users : master[u] # None =>
      /\ master[u].password.plain \in accepted[u]
      /\ master[u].password.rounds = 1

(* The number 0 passes for the code of an account without one, since        *)
(* Number(null) is 0 (users.service.ts:183), until its expiry: so only for  *)
(* an account that had a code, or was registered with one or an expiry.  No *)
(* save of a stale row hands an expiry to an account that never had either. *)
ZeroNeedsCode ==
  \A u \in Users :
    fate[u][0] = "spent" => \E c \in Codes : fate[u][c] # "new"

(* Even an account that remove() deleted and a pending save inserted again  *)
(* (users.service.ts:112, 192, 215) has no password but its own, or none:   *)
(* forgot-password brings it back with the empty string.                    *)
OwnPassword ==
  \A u \in Users : master[u] # None =>
    master[u].password.plain \in accepted[u] \cup {Blank}

(* No interleaving of stale whole-row saves makes an account Active that    *)
(* was never created active, approved or confirmed.                         *)
ActiveWasApproved ==
  \A u \in Users :
    master[u] # None /\ master[u].status = Active => u \in approved

(* Directory: the identity of an account outlives every save.               *)
Identity(row) ==
  IF row = None THEN None
  ELSE [address |-> row.address, email |-> row.email, role |-> row.role]

Identities == [address : Addresses \cup {Blank}, email : Emails \cup {None},
               role : Roles]

ASSUME NullIsNoIdentity == None \notin Identities

Directory == INSTANCE AccountDirectory WITH
  entry  <- [u \in Users |-> Identity(master[u])],
  handed <- used,
  gone   <- removed

(* Accounts implements the directory: wallet, e-mail and role of an id      *)
(* never change under it, although four operations save whole rows.         *)
ImplementsDirectory == Directory!Spec

(* A code that was used for a reset is in the table again only if it was   *)
(* drawn a second time, or if verifyEmail, which saves the whole row it     *)
(* read (auth.service.ts:97), wrote it back: no reset, change or forgot     *)
(* does, although each saves what it computed from a row that a replica     *)
(* showed some time ago (users.service.ts:166, 192, 215).  And a stored     *)
(* code was drawn for, or registered with, that very account.               *)
StoredCodeIsLive ==
  \A u \in Users : master[u] # None =>
    \A c \in Codes :
      master[u].tokenResetPassword = c =>
        fate[u][c] \in {"issued", "redrawn", "returned"}

(* Operations that write only the columns they own never undo each other:   *)
(* a lock is released by an unlock alone, the status set by an approval     *)
(* changes only by another one or a confirmation.                           *)
Writing(ops) == \E r \in Requests : req[r].op \in ops /\ At(r, "write") /\ ~At(r, "write")'

OwnColumnsOnly ==
  [][\A u \in Users : master[u] # None /\ master'[u] # None =>
       /\ master[u].locked # master'[u].locked => Writing({"lock", "unlock"})
       /\ master[u].status # master'[u].status => Writing({"status", "confirm"})]_vars

-----------------------------------------------------------------------------
(* What the mails say, and the code does not keep.                          *)

(* approve-user.hbs:106 "Your registration has been approved": a queued     *)
(* approval mail belongs to an account that was approved, or is about to    *)
(* be.  The mail is queued before an UPDATE that may fail.                  *)
ApprovalMailMeansApproved ==
  job # None /\ job.name = "approve" =>
    \/ job.user \in approved
    \/ \E r \in Requests : req[r].op = "status" /\ req[r].user = job.user

(* password-changed.hbs:97 "The password linked to your FCX account has     *)
(* been changed successfully": after that mail only a new reset or change   *)
(* sets another password.                                                   *)
ChangedPasswordSticks ==
  [][  /\ job # None
       /\ job.name = "reset"
       /\ master[job.user] # None
       /\ master'[job.user] # None
       /\ master[job.user].password # master'[job.user].password
       => Writing({"reset", "change"})]_vars

(* forgot-password.hbs:100 "This verification code will be valid for 30     *)
(* minutes": while a mailed code is the stored one, its expiry is set.      *)
MailedCodeHasExpiry ==
  /\ job # None
  /\ job.name = "forgot"
  /\ master[job.user] # None
  /\ master[job.user].tokenResetPassword = job.code
  => master[job.user].expire # None
=============================================================================
