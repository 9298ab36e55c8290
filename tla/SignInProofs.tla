---------------------------- MODULE SignInProofs ----------------------------
(***************************************************************************)
(* Registration and sign-in for any number of clients and wallets.  A      *)
(* request between two of its awaits has said nothing, rows are only       *)
(* appended, and a wallet that is looked up again was inserted: what an    *)
(* answer says stays true.                                                 *)
(***************************************************************************)
EXTENDS SignIn, SequenceTheorems, TLAPS

(* An answer Sentry does not hear of, and the one it does.                  *)
Said(status, code, message) ==
  [status |-> status, code |-> code, message |-> message, reported |-> FALSE]

Sorry ==
  [status |-> 500, code |-> Default, message |-> "Sorry", reported |-> TRUE]

LEMMA NoneIsNoNumber == None # NoError /\ None # Default /\ None # 40307
<1>1. None \notin Int
  BY SignInConstants
<1> QED BY <1>1 DEF NoError, Default

LEMMA NoneIsNoWording ==
  /\ None # "ValidationErrors" /\ None # "Unknown" /\ None # "Unauthorized"
  /\ None # "Sorry" /\ None # "InternalServerError"
<1>1. None \notin Wordings
  BY SignInConstants
<1> QED BY <1>1 DEF Wordings

(* The way of an outcome through the stages, when Sentry lets it pass.      *)
LEMMA OnItsWay ==
  ASSUME NEW phase, NEW o, NEW sent,
         sent = ExceptionsHandler(HttpExceptionFilter(
                  IF phase = "guard" THEN o
                  ELSE SentryInterceptor(ResponseTransformInterceptor(o)))),
         phase = "guard" \/ SentryInterceptor(o) = o
  PROVE  Respond(phase, o) = Said(sent.status, sent.code, sent.message)
<1>1. Respond(phase, o) =
        [status |-> sent.status, code |-> sent.code, message |-> sent.message,
         reported |-> phase # "guard" /\ SentryInterceptor(o) # o]
  BY Zenon DEF Respond
<1>2. (phase # "guard" /\ SentryInterceptor(o) # o) = FALSE
  OBVIOUS
<1> QED BY <1>1, <1>2, Zenon DEF Said

(* A value is sent with the code 0, by any phase Sorry the interceptors.   *)
LEMMA ValueIsSaid ==
  ASSUME NEW phase, phase # "guard"
  PROVE  Respond(phase, Value) = Said(201, NoError, None)
<1> DEFINE sent == Outcome("value", 201, NoError, None)
<1>1. ResponseTransformInterceptor(Value) = sent
  BY DEF ResponseTransformInterceptor, Value, Outcome
<1>2. SentryInterceptor(sent) = sent /\ SentryInterceptor(Value) = Value
  BY DEF SentryInterceptor, Value, Outcome
<1>3. ExceptionsHandler(HttpExceptionFilter(sent)) = sent
  BY DEF HttpExceptionFilter, ExceptionsHandler, Outcome
<1>4. sent.status = 201 /\ sent.code = NoError /\ sent.message = None
  BY DEF Outcome
<1> HIDE DEF sent
<1>5. Respond(phase, Value) = Said(sent.status, sent.code, sent.message)
  BY <1>1, <1>2, <1>3, OnItsWay
<1> QED BY <1>2, <1>4, <1>5

LEMMA FilterFillsIn ==
  ASSUME NEW status, NEW code, NEW message
  PROVE  ExceptionsHandler(HttpExceptionFilter(Refusal(status, code, message))) =
           Outcome("refusal", status, Or(code, Default), Or(message, "Unknown"))
  BY DEF Refusal, Outcome, HttpExceptionFilter, ExceptionsHandler

(* A refusal passes the interceptors, and the filter fills in what it lacks. *)
LEMMA RefusalIsSaid ==
  ASSUME NEW phase, NEW status, NEW code, NEW message
  PROVE  Respond(phase, Refusal(status, code, message)) =
           Said(status, Or(code, Default), Or(message, "Unknown"))
<1> DEFINE o == Refusal(status, code, message)
           sent == Outcome("refusal", status, Or(code, Default), Or(message, "Unknown"))
<1>1. SentryInterceptor(o) = o /\ ResponseTransformInterceptor(o) = o
  BY DEF Refusal, Outcome, SentryInterceptor, ResponseTransformInterceptor
<1>2. ExceptionsHandler(HttpExceptionFilter(o)) = sent
  BY FilterFillsIn
<1>3. /\ sent.status = status /\ sent.code = Or(code, Default)
      /\ sent.message = Or(message, "Unknown")
  BY DEF Outcome
<1> HIDE DEF o, sent
<1>4. Respond(phase, o) = Said(sent.status, sent.code, sent.message)
  BY <1>1, <1>2, OnItsWay
<1>5. Respond(phase, o) = Said(status, Or(code, Default), Or(message, "Unknown"))
  BY <1>1, <1>3, <1>4
<1> QED BY <1>5 DEF o

(* A fault is Nest's to answer in a guard, Sentry's anywhere else.          *)
LEMMA FaultInGuardIsSaid ==
  Respond("guard", Fault) = Said(500, None, "InternalServerError")
<1> DEFINE sent == Outcome("fault", 500, None, "InternalServerError")
<1>1. ExceptionsHandler(HttpExceptionFilter(Fault)) = sent
  BY DEF Fault, Outcome, HttpExceptionFilter, ExceptionsHandler
<1>2. sent.status = 500 /\ sent.code = None /\ sent.message = "InternalServerError"
  BY DEF Outcome
<1> HIDE DEF sent
<1>3. Respond("guard", Fault) = Said(sent.status, sent.code, sent.message)
  BY <1>1, OnItsWay
<1> QED BY <1>2, <1>3

LEMMA FaultIsSaid ==
  ASSUME NEW phase, phase # "guard"
  PROVE  Respond(phase, Fault) = Sorry
<1> DEFINE sorry == Refusal(500, None, "Sorry")
           sent == Outcome("refusal", 500, Default, "Sorry")
<1>1. ResponseTransformInterceptor(Fault) = Fault
  BY DEF Fault, Outcome, ResponseTransformInterceptor
<1>2. SentryInterceptor(Fault) = sorry /\ sorry # Fault
  BY DEF Fault, Outcome, SentryInterceptor, Refusal
<1>3. ExceptionsHandler(HttpExceptionFilter(sorry)) = sent
  <2>1. Or(None, Default) = Default
    BY DEF Or
  <2>2. Or("Sorry", "Unknown") = "Sorry"
    BY NoneIsNoWording DEF Or
  <2>3. ExceptionsHandler(HttpExceptionFilter(sorry)) =
          Outcome("refusal", 500, Or(None, Default), Or("Sorry", "Unknown"))
    BY FilterFillsIn
  <2> QED BY <2>1, <2>2, <2>3, Zenon
<1>4. sent.status = 500 /\ sent.code = Default /\ sent.message = "Sorry"
  BY DEF Outcome
<1> HIDE DEF sorry, sent
<1>5. Respond(phase, Fault) =
        [status |-> sent.status, code |-> sent.code, message |-> sent.message,
         reported |-> phase # "guard" /\ SentryInterceptor(Fault) # Fault]
  BY <1>1, <1>2, <1>3, Zenon DEF Respond
<1>6. (phase # "guard" /\ SentryInterceptor(Fault) # Fault) = TRUE
  BY <1>2
<1> QED BY <1>4, <1>5, <1>6, Zenon DEF Sorry

-----------------------------------------------------------------------------
(* What TypeOK and AnswersMean say of one answer: there are the fields a    *)
(* client reads, Sentry hears of its own answers alone, and some answers    *)
(* claim that the account is there.                                         *)
Complete(a) ==
  /\ a \in Replies
  /\ a.status >= 400 => a.message # None
  /\ a.message \notin {None, "InternalServerError"} => a.code # None
  /\ a.reported => a.status = 500 /\ a.message = "Sorry"

Claims(a) ==
  \/ a.status \in {201, 401, 403}
  \/ a.status = 400 /\ a.message = "Unknown"

(* What an answer needs to be complete, field by field.                     *)
LEMMA CompleteFields ==
  ASSUME NEW a \in Replies, a.message # None,
         a.code # None \/ a.message = "InternalServerError",
         ~a.reported \/ (a.status = 500 /\ a.message = "Sorry")
  PROVE  Complete(a)
  BY DEF Complete

LEMMA SilenceIsComplete ==
  Complete(Silence) /\ ~Claims(Silence) /\ Silence.status # 500
<1>1. Silence \in Replies
  BY DEF Silence, Replies
<1> QED BY <1>1 DEF Silence, Complete, Claims

(* The answer to a POST /users that inserted.                               *)
LEMMA CreatedIsComplete == Complete(Created) /\ Created.status # 500
<1> DEFINE a == Said(201, NoError, None)
<1>1. a \in Replies
  BY DEF Said, Replies
<1>2. a.status = 201 /\ a.message = None /\ ~a.reported
  BY DEF Said
<1>3. Created = a
  BY ValueIsSaid DEF Created
<1> HIDE DEF a
<1>4. Complete(a) /\ a.status # 500
  BY <1>1, <1>2 DEF Complete
<1> QED BY <1>3, <1>4

(* The answers 400, 401 and 403; the pipe's claims nothing.                 *)
LEMMA SaidIsComplete ==
  ASSUME NEW status \in {400, 401, 403}, NEW code \in {Default, 40307},
         NEW message \in {"Unknown", "ValidationErrors", "Unauthorized"}
  PROVE  /\ Complete(Said(status, code, message))
         /\ Said(status, code, message).status # 500
<1> DEFINE a == Said(status, code, message)
<1>1. code # None
  BY NoneIsNoNumber
<1>2. message # None
  BY NoneIsNoWording
<1>3. a.status = status /\ a.code = code /\ a.message = message /\ ~a.reported
  BY DEF Said
<1>4. a \in Replies
  BY DEF Said, Replies, Wordings
<1> HIDE DEF a
<1>5. a.code # None
  BY <1>1, <1>3
<1>6. a.message # None
  BY <1>2, <1>3
<1>7. ~a.reported /\ a.status # 500
  BY <1>3
<1>8. Complete(a)
  BY <1>4, <1>5, <1>6, <1>7 DEF Complete
<1> QED BY <1>7, <1>8 DEF a

LEMMA Defaults ==
  /\ Or(None, Default) = Default
  /\ Or(40307, Default) = 40307
BY NoneIsNoNumber DEF Or

LEMMA DefaultMessages ==
  /\ Or(None, "Unknown") = "Unknown"
  /\ Or("Unauthorized", "Unknown") = "Unauthorized"
  /\ Or("ValidationErrors", "Unknown") = "ValidationErrors"
BY NoneIsNoWording DEF Or

(* loginAmin's 403, a 400 for a wallet that has an account, a 401 of the    *)
(* guard, and the pipe's 400.                                               *)
LEMMA RefusalsAreSaid ==
  /\ NotAdmin = Said(403, 40307, "Unknown")
  /\ Exists = Said(400, Default, "Unknown")
  /\ Unauthorized = Said(401, Default, "Unauthorized")
  /\ Invalid = Said(400, Default, "ValidationErrors")
<1>1. NotAdmin = Said(403, Or(40307, Default), Or(None, "Unknown"))
  BY RefusalIsSaid DEF NotAdmin
<1>2. Exists = Said(400, Or(None, Default), Or(None, "Unknown"))
  BY RefusalIsSaid DEF Exists
<1>3. Unauthorized = Said(401, Or(None, Default), Or("Unauthorized", "Unknown"))
  BY RefusalIsSaid DEF Unauthorized
<1>4. Invalid = Said(400, Or(None, Default), Or("ValidationErrors", "Unknown"))
  BY RefusalIsSaid DEF Invalid, BodyValidation
<1> QED BY <1>1, <1>2, <1>3, <1>4, Defaults, DefaultMessages

LEMMA RefusalsAreComplete ==
  /\ \A a \in {NotAdmin, Exists, Unauthorized, Invalid} : Complete(a) /\ a.status # 500
  /\ ~Claims(Invalid)
<1>1. \A a \in {NotAdmin, Exists, Unauthorized, Invalid} : Complete(a) /\ a.status # 500
  BY RefusalsAreSaid, SaidIsComplete
<1>2. ~Claims(Said(400, Default, "ValidationErrors"))
  BY DEF Said, Claims
<1> QED BY <1>1, <1>2, RefusalsAreSaid

(* The answers 500 claim nothing.                                           *)
LEMMA FaultIsComplete ==
  \A a \in {GuardFault, HandlerFault} : Complete(a) /\ ~Claims(a)
<1> DEFINE inGuard == Said(500, None, "InternalServerError")
<1>1. inGuard \in Replies /\ Sorry \in Replies
  BY DEF Said, Sorry, Replies, Wordings
<1>2. /\ inGuard.message = "InternalServerError" /\ inGuard.status = 500
      /\ Sorry.message = "Sorry" /\ Sorry.status = 500 /\ ~inGuard.reported
  BY DEF Said, Sorry
<1>3. Sorry.code # None
  BY NoneIsNoNumber DEF Sorry
<1> HIDE DEF inGuard
<1>4. Complete(inGuard) /\ Complete(Sorry)
  BY <1>1, <1>2, <1>3, NoneIsNoWording, CompleteFields
<1>5. ~Claims(inGuard) /\ ~Claims(Sorry)
  BY <1>2 DEF Claims
<1>6. GuardFault = inGuard /\ HandlerFault = Sorry
  BY FaultInGuardIsSaid, FaultIsSaid DEF inGuard, GuardFault, HandlerFault
<1> QED BY <1>4, <1>5, <1>6

-----------------------------------------------------------------------------
(* What the invariant says of one client, who signs with wallet w and whose *)
(* request inserts the e-mail address e, given the rows of the table.       *)
Known(w, table) == \E i \in 1..Len(table) : table[i].wallet = w
Taken(e, table) == e # None /\ \E i \in 1..Len(table) : table[i].email = e

ClientOK(point, e, answer, dead, w, table) ==
  /\ point \in Points
  /\ e \in Emails \cup {None}
  /\ Complete(answer)
  /\ Claims(answer) => Known(w, table)
  /\ answer.status = 500 => Known(w, table) \/ Taken(e, table) \/ dead
  /\ dead \in BOOLEAN
  /\ point # "idle" => answer = Silence
  /\ point = "loginAgain" => Known(w, table)

Client(c) == ClientOK(pc[c], email[c], said[c], failed[c], WalletOf[c], rows)

Variables ==
  /\ rows \in Seq(Rows)
  /\ shown \in 0..Len(rows)
  /\ pc \in [Clients -> Points]
  /\ email \in [Clients -> Emails \cup {None}]
  /\ said \in [Clients -> Replies]
  /\ failed \in [Clients -> BOOLEAN]
  /\ failures \in 0..MaxFailures

LEMMA Split ==
  ASSUME Invariant
  PROVE  Variables /\ \A c \in Clients : Client(c)
<1>1. Variables
  BY DEF Invariant, TypeOK, Variables
<1>2. ASSUME NEW c \in Clients PROVE Client(c)
  <2>1. Complete(said[c])
    BY <1>1 DEF Invariant, TypeOK, AnswersMean, Variables, Complete
  <2>2. /\ Claims(said[c]) => Known(WalletOf[c], rows)
        /\ said[c].status = 500 =>
             Known(WalletOf[c], rows) \/ Taken(email[c], rows) \/ failed[c]
    BY DEF Invariant, AnswersMean, Claims, Known, Registered, Taken, EmailTaken
  <2> QED BY <1>1, <2>1, <2>2
          DEF Invariant, Variables, InProgress, Registered, Known, Client, ClientOK
<1> QED BY <1>1, <1>2

(* The same, of the next state.                                             *)
LEMMA Joined ==
  ASSUME Variables', \A c \in Clients : Client(c)'
  PROVE  Invariant'
<1>1. TypeOK'
  BY DEF Variables, TypeOK, Client, ClientOK, Complete
<1>2. AnswersMean'
  <2>1. ASSUME NEW c \in Clients
        PROVE  /\ Complete(said'[c])
               /\ Claims(said'[c]) => Registered(WalletOf[c])'
               /\ said'[c].status = 500 =>
                    Registered(WalletOf[c])' \/ EmailTaken(email[c])' \/ failed'[c]
    BY DEF Client, ClientOK, Known, Registered, Taken, EmailTaken
  <2> QED BY <2>1 DEF AnswersMean, Complete, Claims
<1>3. InProgress'
  BY DEF InProgress, Client, ClientOK, Known, Registered
<1> QED BY <1>1, <1>2, <1>3 DEF Invariant

(* An INSERT: a row more, the others as they were.                          *)
LEMMA OneRowMore ==
  ASSUME NEW table \in Seq(Rows), NEW row \in Rows
  PROVE  LET t == Append(table, row) IN
         /\ t \in Seq(Rows)
         /\ Len(t) = Len(table) + 1
         /\ \A i \in 1..Len(table) : t[i] = table[i]
         /\ t[Len(t)] = row
  BY AppendProperties

(* What was so of a client stays so when rows are appended.                 *)
LEMMA ClientStays ==
  ASSUME NEW table \in Seq(Rows), NEW row \in Rows, NEW t,
         t = table \/ t = Append(table, row),
         NEW point, NEW e, NEW answer, NEW dead, NEW w,
         ClientOK(point, e, answer, dead, w, table)
  PROVE  ClientOK(point, e, answer, dead, w, t)
<1>1. CASE t = table
  BY <1>1
<1>2. CASE t = Append(table, row)
  <2>1. Len(t) = Len(table) + 1 /\ \A i \in 1..Len(table) : t[i] = table[i]
    BY <1>2, OneRowMore
  <2>2. Len(table) \in Nat
    OBVIOUS
  <2>3. Known(w, table) => Known(w, t)
    BY <2>1, <2>2 DEF Known
  <2>4. Taken(e, table) => Taken(e, t)
    BY <2>1, <2>2 DEF Taken
  <2> QED BY <2>3, <2>4, Zenon DEF ClientOK
<1> QED BY <1>1, <1>2

(* The row a request inserts.                                               *)
RowOf(c) == [wallet |-> WalletOf[c], email |-> email[c]]

LEMMA RowIsRow ==
  ASSUME Invariant, NEW c \in Clients
  PROVE  RowOf(c) \in Rows
<1>1. WalletOf[c] \in Wallets /\ email[c] \in Emails \cup {None}
  BY Split, SignInConstants DEF Variables
<1> QED BY <1>1 DEF RowOf, Rows

(* The request of one client takes a step, with or without an INSERT.       *)
LEMMA OneClientMoves ==
  ASSUME Invariant, NEW c \in Clients, NEW point, NEW e, NEW answer, NEW dead,
         pc' = [pc EXCEPT ![c] = point],
         email' = [email EXCEPT ![c] = e],
         said' = [said EXCEPT ![c] = answer],
         failed' = [failed EXCEPT ![c] = dead],
         failures' \in 0..MaxFailures,
         shown' = shown,
         rows' = rows \/ rows' = Append(rows, RowOf(c)),
         ClientOK(point, e, answer, dead, WalletOf[c], rows')
  PROVE  Invariant'
<1>1. Variables /\ \A d \in Clients : Client(d)
  BY Split
<1>2. RowOf(c) \in Rows
  BY RowIsRow
<1>3. rows' \in Seq(Rows) /\ Len(rows) <= Len(rows')
      /\ Len(rows) \in Nat /\ Len(rows') \in Nat
  <2>1. rows \in Seq(Rows) /\ Len(rows) \in Nat
    BY <1>1 DEF Variables
  <2>2. CASE rows' = rows
    BY <2>1, <2>2
  <2>3. CASE rows' = Append(rows, RowOf(c))
    BY <1>2, <2>1, <2>3, OneRowMore
  <2> QED BY <2>2, <2>3
<1>4. \A d \in Clients : d # c =>
        ClientOK(pc[d], email[d], said[d], failed[d], WalletOf[d], rows')
  BY <1>1, <1>2, ClientStays DEF Variables, Client
<1>5. \A d \in Clients : Client(d)'
  BY <1>1, <1>4 DEF Variables, Client
<1>6. Variables'
  <2>1. shown' \in 0..Len(rows')
    BY <1>1, <1>3 DEF Variables
  <2>2. /\ point \in Points /\ answer \in Replies /\ dead \in BOOLEAN
        /\ e \in Emails \cup {None}
    BY DEF ClientOK, Complete
  <2> QED BY <1>1, <1>3, <2>1, <2>2 DEF Variables
<1> QED BY <1>5, <1>6, Joined

-----------------------------------------------------------------------------
(* The two ways a step of a request ends.                                   *)
LEMMA GoesOn ==
  ASSUME Invariant, NEW c \in Clients, NEW point \in Points, GoOn(c, point),
         NEW e \in Emails \cup {None}, WithEmail(c, e), shown' = shown,
         rows' = rows \/ rows' = Append(rows, RowOf(c)),
         point = "loginAgain" => Known(WalletOf[c], rows')
  PROVE  Invariant'
<1>1. PICK dead \in BOOLEAN : dead = FALSE
  OBVIOUS
<1>2. /\ pc' = [pc EXCEPT ![c] = point]
      /\ email' = [email EXCEPT ![c] = e]
      /\ said' = [said EXCEPT ![c] = Silence]
      /\ failed' = [failed EXCEPT ![c] = dead]
      /\ failures' \in 0..MaxFailures
  BY <1>1, Split DEF GoOn, WithEmail, Variables
<1>3. ClientOK(point, e, Silence, dead, WalletOf[c], rows')
  BY SilenceIsComplete DEF ClientOK
<1> QED BY <1>2, <1>3, OneClientMoves

LEMMA Answers ==
  ASSUME Invariant, NEW c \in Clients, NEW reply, Answer(c, reply),
         NEW e \in Emails \cup {None}, WithEmail(c, e), shown' = shown,
         rows' = rows \/ rows' = Append(rows, RowOf(c)),
         Complete(reply),
         Claims(reply) => Known(WalletOf[c], rows'),
         reply.status = 500 => Known(WalletOf[c], rows') \/ Taken(e, rows')
  PROVE  Invariant'
<1>1. PICK dead \in BOOLEAN : dead = FALSE
  OBVIOUS
<1>2. /\ pc' = [pc EXCEPT ![c] = "idle"]
      /\ email' = [email EXCEPT ![c] = e]
      /\ said' = [said EXCEPT ![c] = reply]
      /\ failed' = [failed EXCEPT ![c] = dead]
      /\ failures' \in 0..MaxFailures
  BY <1>1, Split DEF Answer, WithEmail, Variables
<1>3. ClientOK("idle", e, reply, dead, WalletOf[c], rows')
  BY DEF ClientOK, Points
<1> QED BY <1>2, <1>3, OneClientMoves

(* A request that inserts keeps the address it has.                         *)
LEMMA SameEmail ==
  ASSUME Invariant, NEW c \in Clients, email' = email
  PROVE  email[c] \in Emails \cup {None} /\ WithEmail(c, email[c])
<1>1. email \in [Clients -> Emails \cup {None}]
  BY Split DEF Variables
<1> QED BY <1>1 DEF WithEmail

(* A wallet that report shows is there.                                     *)
LEMMA FoundIsKnown ==
  ASSUME Invariant, NEW c \in Clients, Found(c)
  PROVE  Known(WalletOf[c], rows)
<1>1. rows \in Seq(Rows) /\ shown \in 0..Len(rows)
  BY Split DEF Variables
<1>2. PICK i \in 1..shown : rows[i].wallet = WalletOf[c]
  BY DEF Found
<1>3. i \in 1..Len(rows)
  BY <1>1
<1> QED BY <1>2, <1>3 DEF Known

(* The answers 400, 401 and 403, of a request that needs no INSERT.         *)
LEMMA Refuses ==
  ASSUME Invariant, NEW c \in Clients,
         NEW reply \in {NotAdmin, Exists, Unauthorized, Invalid}, Answer(c, reply),
         NEW e \in Emails \cup {None}, WithEmail(c, e), UNCHANGED database,
         reply = Invalid \/ Known(WalletOf[c], rows)
  PROVE  Invariant'
<1>1. rows' = rows /\ shown' = shown
  BY DEF database
<1>2. Complete(reply) /\ reply.status # 500 /\ ~Claims(Invalid)
  BY RefusalsAreComplete
<1> QED BY <1>1, <1>2, Answers

-----------------------------------------------------------------------------
(* One lemma for each action.                                               *)
LEMMA LoginKeeps ==
  ASSUME Invariant, NEW c \in Clients, Login(c)
  PROVE  Invariant'
<1>1. WithEmail(c, None) /\ UNCHANGED database
  BY DEF Login
<1>2. CASE Found(c)
  BY <1>1, <1>2, FoundIsKnown, Refuses DEF Login
<1>3. CASE ~Found(c)
  <2>1. "loginInsert" \in Points /\ "loginInsert" # "loginAgain"
    BY DEF Points
  <2> QED BY <1>1, <1>3, <2>1, GoesOn DEF Login, database
<1> QED BY <1>2, <1>3

(* The INSERT of a wallet that is not there.                                *)
LEMMA Inserted ==
  ASSUME Invariant, NEW c \in Clients, rows' = Append(rows, RowOf(c))
  PROVE  Known(WalletOf[c], rows')
<1>1. rows \in Seq(Rows) /\ RowOf(c) \in Rows
  BY Split, RowIsRow DEF Variables
<1>2. rows' \in Seq(Rows) /\ rows'[Len(rows')] = RowOf(c) /\ Len(rows') = Len(rows) + 1
  BY <1>1, OneRowMore
<1>3. Len(rows') \in 1..Len(rows')
  BY <1>1, <1>2
<1>4. RowOf(c).wallet = WalletOf[c]
  BY DEF RowOf
<1> QED BY <1>2, <1>3, <1>4 DEF Known

(* The INSERT that a unique index refuses.                                  *)
LEMMA DuplicateKeeps ==
  ASSUME Invariant, NEW c \in Clients, NEW fault \in {GuardFault, HandlerFault},
         Answer(c, fault), Registered(WalletOf[c]) \/ EmailTaken(email[c]),
         UNCHANGED <<database, email>>
  PROVE  Invariant'
<1>1. Known(WalletOf[c], rows) \/ Taken(email[c], rows)
  BY DEF Known, Registered, Taken, EmailTaken
<1>2. Complete(fault) /\ ~Claims(fault)
  BY FaultIsComplete
<1> QED BY <1>1, <1>2, SameEmail, Answers DEF database

LEMMA LoginInsertKeeps ==
  ASSUME Invariant, NEW c \in Clients, LoginInsert(c)
  PROVE  Invariant'
<1>1. email' = email
  BY DEF LoginInsert, Insert
<1>2. CASE Registered(WalletOf[c]) \/ EmailTaken(email[c])
  BY <1>1, <1>2, DuplicateKeeps DEF LoginInsert, Insert
<1>3. CASE ~(Registered(WalletOf[c]) \/ EmailTaken(email[c]))
  <2>1. /\ GoOn(c, "loginAgain")
        /\ rows' = Append(rows, RowOf(c)) /\ shown' = shown
    BY <1>3 DEF LoginInsert, Insert, RowOf
  <2>2. "loginAgain" \in Points
    BY DEF Points
  <2> QED BY <1>1, <2>1, <2>2, SameEmail, GoesOn, Inserted
<1> QED BY <1>2, <1>3

LEMMA LoginAgainKeeps ==
  ASSUME Invariant, NEW c \in Clients, LoginAgain(c)
  PROVE  Invariant'
<1>1. Known(WalletOf[c], rows)
  BY Split DEF LoginAgain, At, Client, ClientOK
<1>2. PICK reply \in {NotAdmin, Unauthorized} : Answer(c, reply)
  BY DEF LoginAgain
<1> QED BY <1>1, <1>2, SameEmail, Refuses DEF LoginAgain

LEMMA CreateKeeps ==
  ASSUME Invariant, NEW c \in Clients, Create(c)
  PROVE  Invariant'
<1>1. UNCHANGED database
  BY DEF Create
<1>2. CASE Answer(c, Invalid) /\ WithEmail(c, None)
  BY <1>1, <1>2, Refuses
<1>3. CASE Found(c) /\ Answer(c, Exists) /\ WithEmail(c, None)
  BY <1>1, <1>3, FoundIsKnown, Refuses
<1>4. ASSUME GoOn(c, "createInsert"), NEW e \in Emails \cup {None}, WithEmail(c, e)
      PROVE  Invariant'
  <2>1. "createInsert" \in Points /\ "createInsert" # "loginAgain"
    BY DEF Points
  <2> QED BY <1>1, <1>4, <2>1, GoesOn DEF database
<1> QED BY <1>2, <1>3, <1>4 DEF Create

LEMMA CreateInsertKeeps ==
  ASSUME Invariant, NEW c \in Clients, CreateInsert(c)
  PROVE  Invariant'
<1>1. email' = email
  BY DEF CreateInsert, Insert
<1>2. CASE Registered(WalletOf[c]) \/ EmailTaken(email[c])
  BY <1>1, <1>2, DuplicateKeeps DEF CreateInsert, Insert
<1>3. CASE ~(Registered(WalletOf[c]) \/ EmailTaken(email[c]))
  <2>1. /\ Answer(c, Created)
        /\ rows' = Append(rows, RowOf(c)) /\ shown' = shown
    BY <1>3 DEF CreateInsert, Insert, RowOf
  <2> QED BY <1>1, <2>1, CreatedIsComplete, SameEmail, Inserted, Answers
<1> QED BY <1>2, <1>3

LEMMA FailsKeeps ==
  ASSUME Invariant, NEW c \in Clients, Fails(c)
  PROVE  Invariant'
<1>1. PICK dead \in BOOLEAN : dead = TRUE
  OBVIOUS
<1>2. PICK fault \in {GuardFault, HandlerFault} : said' = [said EXCEPT ![c] = fault]
  BY DEF Fails
<1>3. /\ pc' = [pc EXCEPT ![c] = "idle"]
      /\ failed' = [failed EXCEPT ![c] = dead]
      /\ rows' = rows /\ shown' = shown /\ email' = email
  BY <1>1 DEF Fails, database
<1>4. failures' \in 0..MaxFailures
  BY Split, SignInConstants DEF Fails, Variables
<1>5. Complete(fault) /\ ~Claims(fault)
  BY FaultIsComplete
<1>6. email[c] \in Emails \cup {None} /\ email' = [email EXCEPT ![c] = email[c]]
  BY <1>3, SameEmail DEF WithEmail
<1>7. ClientOK("idle", email[c], fault, dead, WalletOf[c], rows')
  BY <1>1, <1>5, <1>6 DEF ClientOK, Points
<1> QED BY <1>2, <1>3, <1>4, <1>6, <1>7, OneClientMoves

LEMMA CatchUpKeeps ==
  ASSUME Invariant, CatchUp
  PROVE  Invariant'
<1>1. Variables /\ \A c \in Clients : Client(c)
  BY Split
<1>2. shown' \in 0..Len(rows)
  BY <1>1 DEF CatchUp, Variables
<1> QED BY <1>1, <1>2, Joined DEF CatchUp, Variables, Client

LEMMA InvariantInit ==
  ASSUME Init
  PROVE  Invariant
<1>1. TypeOK
  BY SilenceIsComplete, SignInConstants DEF Init, TypeOK, Points, Complete
<1>2. InProgress
  BY DEF Init, InProgress
<1>3. AnswersMean
  BY DEF Init, AnswersMean, Silence
<1> QED BY <1>1, <1>2, <1>3 DEF Invariant

LEMMA InvariantStep ==
  ASSUME Invariant, [Next]_vars
  PROVE  Invariant'
<1>1. CASE \E c \in Clients : Login(c) \/ Create(c) \/ Step(c) \/ Fails(c)
  BY <1>1, LoginKeeps, CreateKeeps, LoginInsertKeeps, LoginAgainKeeps, CreateInsertKeeps,
     FailsKeeps DEF Step
<1>2. CASE CatchUp
  BY <1>2, CatchUpKeeps
<1>3. CASE UNCHANGED vars
  BY <1>3 DEF vars, Invariant, TypeOK, InProgress, AnswersMean, Registered, EmailTaken
<1> QED BY <1>1, <1>2, <1>3 DEF Next

(* The inductive invariant: a request under way has said nothing, a wallet  *)
(* that is looked up again was inserted, and what the last answer of a      *)
(* client said is still so.                                                 *)
THEOREM SignInInvariantHolds == Spec => []Invariant
BY InvariantInit, InvariantStep, PTL DEF Spec

(* Every answer that reaches a client has the fields he reads, whatever     *)
(* exception it was made of (http-exception.filter.ts:16).                  *)
THEOREM AnswersComplete == Spec => []TypeOK
<1>1. Invariant => TypeOK
  BY DEF Invariant
<1> QED BY <1>1, SignInInvariantHolds, PTL

(* What an answer lets a client conclude is so, and stays so: 201, 401, 403 *)
(* and 'Unknown' mean a registered wallet, a 500 that, or a taken e-mail    *)
(* address, or a step of the request that failed; and Sentry hears of       *)
(* nothing else.                                                            *)
THEOREM AnswersAreTrue == Spec => []AnswersMean
<1>1. Invariant => AnswersMean
  BY DEF Invariant
<1> QED BY <1>1, SignInInvariantHolds, PTL
=============================================================================
