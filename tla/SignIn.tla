------------------------------- MODULE SignIn -------------------------------
(***************************************************************************)
(* Clients that register a wallet (POST /users) or sign in with it         *)
(* (POST /auth/admin/login, whose local strategy registers an unknown      *)
(* wallet), and the answers they read.  Lookups go to the lagging report   *)
(* connection, inserts to master.  Every sign-in carries a username and a  *)
(* password; the body of a registration may carry an e-mail address, too.  *)
(* The answers leave through Pipeline.                                     *)
(* Definitions headed "Faulty variant" are not part of the model.          *)
(***************************************************************************)
EXTENDS Pipeline, Sequences

CONSTANTS
  Clients,
  Wallets,
  WalletOf,     \* the wallet each client signs with
  Emails,       \* e-mail addresses a body may carry
  MaxFailures   \* bound: how often a step of a request fails

(* What the answers say, in the field message.                              *)
Wordings == {"ValidationErrors", "Unknown", "Unauthorized", "Sorry",
             "InternalServerError"}

Rows == [wallet : Wallets, email : Emails \cup {None}]

ASSUME SignInConstants ==
  /\ WalletOf \in [Clients -> Wallets]
  /\ MaxFailures \in Nat
  /\ None \notin Int \cup Wordings \cup Emails

VARIABLES
  rows,      \* the accounts on master, in the order of their ids
  shown,     \* how many of them the report connection shows
  pc,        \* where the request of each client is
  email,     \* the e-mail address that request inserts, if it came to that
  said,      \* the answer to each client's last request, when it has ended
  failed,    \* history: a step of the client's last request failed
  failures   \* how often steps have failed

vars == <<rows, shown, pc, email, said, failed, failures>>
database == <<rows, shown>>

Silence == [status |-> 0, code |-> None, message |-> None, reported |-> FALSE]

(* The answers, by what they tell.  loginAmin refuses everybody: req.user    *)
(* was selected for its id alone and has no role; FORBIDDEN.WRONG_EMAIL.    *)
NotAdmin     == Respond("handler", Refusal(403, 40307, None))
Unauthorized == Respond("guard", Refusal(401, None, "Unauthorized"))
Invalid      == Respond("pipe", BodyValidation)
Exists       == Respond("handler", Refusal(400, None, None))
Created      == Respond("handler", Value)
GuardFault   == Respond("guard", Fault)
HandlerFault == Respond("handler", Fault)

Init ==
  /\ rows = <<>>
  /\ shown = 0
  /\ pc = [c \in Clients |-> "idle"]
  /\ email = [c \in Clients |-> None]
  /\ said = [c \in Clients |-> Silence]
  /\ failed = [c \in Clients |-> FALSE]
  /\ failures = 0

(* getUserByWalletAccount: the report connection shows the account.         *)
Found(c) == \E i \in 1..shown : rows[i].wallet = WalletOf[c]

(* What master holds of the wallet and of the address of a request.         *)
Registered(wallet) == \E i \in 1..Len(rows) : rows[i].wallet = wallet
EmailTaken(e)      == e # None /\ \E i \in 1..Len(rows) : rows[i].email = e

At(c, point)    == pc[c] = point
WithEmail(c, e) == email' = [email EXCEPT ![c] = e]

(* The request goes on, or ends with an answer.                             *)
GoOn(c, point) ==
  /\ pc' = [pc EXCEPT ![c] = point]
  /\ said' = [said EXCEPT ![c] = Silence]
  /\ failed' = [failed EXCEPT ![c] = FALSE]
  /\ UNCHANGED failures

Answer(c, reply) ==
  /\ pc' = [pc EXCEPT ![c] = "idle"]
  /\ said' = [said EXCEPT ![c] = reply]
  /\ failed' = [failed EXCEPT ![c] = FALSE]
  /\ UNCHANGED failures

-----------------------------------------------------------------------------
(* POST /auth/admin/login: LocalAuthGuard, LocalStrategy.validate,          *)
(* AuthService.validateUser.                                                *)
Login(c) ==
  /\ At(c, "idle")
  /\ IF Found(c) THEN Answer(c, NotAdmin) ELSE GoOn(c, "loginInsert")
  /\ WithEmail(c, None)
  /\ UNCHANGED database

(* createUser, and the unique indexes on address and email; in the guard    *)
(* for login, in the handler for register.                                  *)
Insert(c, point, duplicate, created) ==
  /\ At(c, point)
  /\ IF Registered(WalletOf[c]) \/ EmailTaken(email[c])
     THEN duplicate /\ UNCHANGED database
     ELSE /\ created
          /\ rows' = Append(rows, [wallet |-> WalletOf[c], email |-> email[c]])
          /\ UNCHANGED shown
  /\ UNCHANGED email

(* Faulty variant: the error of the INSERT is swallowed, no answer is sent. *)
LoginInsertHangs(c) ==
  Insert(c, "loginInsert", GoOn(c, "hangs"), GoOn(c, "loginAgain"))

LoginInsert(c) ==
  Insert(c, "loginInsert", Answer(c, GuardFault), GoOn(c, "loginAgain"))

(* The second lookup: a replica that lags makes it a 401.                   *)
LoginAgain(c) ==
  /\ At(c, "loginAgain")
  /\ Answer(c, IF Found(c) THEN NotAdmin ELSE Unauthorized)
  /\ UNCHANGED <<database, email>>

(* POST /users, with a body the pipe refuses or not.                        *)
Create(c) ==
  /\ At(c, "idle")
  /\ \/ Answer(c, Invalid) /\ WithEmail(c, None)
     \/ Found(c) /\ Answer(c, Exists) /\ WithEmail(c, None)
     \/ /\ ~Found(c)
        /\ GoOn(c, "createInsert")
        /\ \E e \in Emails \cup {None} : WithEmail(c, e)
  /\ UNCHANGED database

CreateInsert(c) ==
  Insert(c, "createInsert", Answer(c, HandlerFault), Answer(c, Created))

-----------------------------------------------------------------------------
(* What the request waits for fails, a first lookup among them: MySQL is    *)
(* away or refuses a value of the body, bcrypt a password that is no string.*)
Fails(c) ==
  /\ failures < MaxFailures
  /\ failures' = failures + 1
  /\ \E fault \in CASE At(c, "idle")         -> {GuardFault, HandlerFault}
                    [] At(c, "createInsert") -> {HandlerFault}
                    [] OTHER                 -> {GuardFault} :
       said' = [said EXCEPT ![c] = fault]
  /\ pc' = [pc EXCEPT ![c] = "idle"]
  /\ failed' = [failed EXCEPT ![c] = TRUE]
  /\ UNCHANGED <<database, email>>

(* Replication shows some more rows, in their order.                        *)
CatchUp ==
  /\ \E n \in shown + 1 .. Len(rows) : shown' = n
  /\ UNCHANGED <<rows, pc, email, said, failed, failures>>

Step(c) == LoginInsert(c) \/ LoginAgain(c) \/ CreateInsert(c)

Next ==
  \/ \E c \in Clients : Login(c) \/ Create(c) \/ Step(c) \/ Fails(c)
  \/ CatchUp

(* The server answers, the replica catches up, and a client signs in again  *)
(* and again.                                                               *)
Fairness ==
  /\ \A c \in Clients : WF_vars(Step(c)) /\ SF_vars(Login(c))
  /\ WF_vars(CatchUp)

Spec == Init /\ [][Next]_vars /\ Fairness

-----------------------------------------------------------------------------
Points == {"idle", "loginInsert", "loginAgain", "createInsert"}

Replies ==
  [status : {0, 201, 400, 401, 403, 500}, code : {NoError, Default, 40307, None},
   message : Wordings \cup {None}, reported : BOOLEAN]

(* Types; an answer other than a value has a message, one that went through *)
(* the filter has a code.                                                   *)
TypeOK ==
  /\ rows \in Seq(Rows)
  /\ shown \in 0..Len(rows)
  /\ pc \in [Clients -> Points]
  /\ email \in [Clients -> Emails \cup {None}]
  /\ said \in [Clients -> Replies]
  /\ failed \in [Clients -> BOOLEAN]
  /\ failures \in 0..MaxFailures
  /\ \A c \in Clients :
       /\ said[c].status >= 400 => said[c].message # None
       /\ said[c].message \notin {None, "InternalServerError"} => said[c].code # None

(* What a client may conclude from an answer, over a lagging replica and    *)
(* racing registrations: 'created', 'Unknown', 'Unauthorized' and the 403   *)
(* all mean that the wallet has an account (users.controller.ts:63,         *)
(* auth.service.ts:65), and a 500 means that, or that the e-mail address he *)
(* gave is taken, unless a step of that very request failed.  Sentry hears  *)
(* of those faults alone, and of none in a guard.                           *)
AnswersMean ==
  \A c \in Clients :
    /\ said[c].status \in {201, 401, 403} => Registered(WalletOf[c])
    /\ said[c].status = 400 /\ said[c].message = "Unknown" => Registered(WalletOf[c])
    /\ said[c].status = 500 =>
         Registered(WalletOf[c]) \/ EmailTaken(email[c]) \/ failed[c]
    /\ said[c].reported => said[c].status = 500 /\ said[c].message = "Sorry"

(* A client who keeps sending his wallet to POST /auth/admin/login gets     *)
(* past the guard in the end, whatever duplicate keys, stale lookups and    *)
(* failures came first (auth.service.ts:55): he is told by the handler that *)
(* he is no admin.  It does not say that he gets a token; nobody does.      *)
EveryClientPassesGuard == \A c \in Clients : <>(said[c].status = 403)

-----------------------------------------------------------------------------
(* The inductive invariant behind the safety properties.                    *)

(* A request between two of its awaits has said nothing, and a wallet that  *)
(* is looked up again has been inserted.                                    *)
InProgress ==
  \A c \in Clients : pc[c] # "idle" =>
    /\ said[c] = Silence
    /\ pc[c] = "loginAgain" => Registered(WalletOf[c])

Invariant == TypeOK /\ InProgress /\ AnswersMean
=============================================================================
