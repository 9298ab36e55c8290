------------------------------ MODULE Sessions ------------------------------
(***************************************************************************)
(* Logins and tokens.  AuthService.login reads the last login on 'report', *)
(* signs two tokens, saves a row of login_histories on 'master', and only  *)
(* then answers; getVerifyEmailToken signs the link of a mail;             *)
(* getAccessToken, JwtStrategy and verifyEmail each accept a token by its  *)
(* signature and its age.  Tokens are signed, not stored: nothing but      *)
(* their age ends them.  A token does not say what it was signed for, so   *)
(* one that was signed with the secret of another purpose passes there     *)
(* too: config/default.yml gives all three purposes one secret, the        *)
(* environment may give each its own.  login is modelled as the service    *)
(* method, for a user that LocalStrategy has put in req.user.              *)
(*                                                                         *)
(* Definitions headed "Faulty variant" are not part of the model.          *)
(***************************************************************************)
EXTENDS Integers, Sequences

CONSTANTS
  Users,       \* accounts, all of them registered
  Requests,    \* slots for logins in flight
  Configurations, \* the secret of each purpose, as the program may be set up
  Starts,      \* which users are locked, and which e-mail addresses unconfirmed
  AccessTtl,   \* jwt_access_token_expiration_time, in clock units
  RefreshTtl,  \* jwt_refresh_token_expiration_time, in clock units
  LinkTtl,     \* jwt_verify_email_token_expiration_time, in clock units
  MaxTime,     \* bound of the clock
  MaxLogins,   \* bound of the rows of login_histories
  Lagging,     \* TRUE: report is a replica that lags
  None         \* undefined

(* What a token is signed for.                                              *)
Purposes == {"access", "refresh", "verify"}

ASSUME SessionConstants ==
  /\ \A f \in Configurations : DOMAIN f = Purposes
  /\ Starts \subseteq [locked : SUBSET Users, submitted : SUBSET Users]
  /\ AccessTtl \in Nat
  /\ RefreshTtl \in Nat
  /\ LinkTtl \in Nat
  /\ MaxTime \in Nat
  /\ MaxLogins \in Nat
  /\ Lagging \in BOOLEAN
  /\ None \notin Users \cup Nat

VARIABLES
  secret,      \* the configuration the program runs with
  histories,   \* login_histories on master
  replicated,  \* how many of its rows report has
  locked,      \* the locked users: lock and unlock have no caller
  submitted,   \* the users whose e-mail address is not confirmed
  req,         \* the logins in flight
  tokens,      \* tokens handed out, mailed links among them, while they last
  now,         \* the clock
  answer,      \* history: what the last step answered to a login, if it did
  mailed       \* history: the users who were mailed a link

vars == <<secret, histories, replicated, locked, submitted, req, tokens, now,
          answer, mailed>>

Idle  == [pc |-> "idle", user |-> None, last |-> None, since |-> 0]
Times == 0..MaxTime

(* A token: signed for what, whose, until when, and (for the properties)    *)
(* which login it came from and when that was; 0 when it came from a link.  *)
Token(kind, u, exp, login, since) ==
  [kind |-> kind, user |-> u, exp |-> exp, login |-> login, since |-> since]

Tokens == [kind : Purposes, user : Users, exp : Nat, login : Nat, since : Times]

Logins  == [pc : {"idle", "save"}, user : Users \cup {None},
            last : Times \cup {None}, since : Times]
Answers == [user : Users, last : Times \cup {None}, login : Nat]

TypeOK ==
  /\ secret \in Configurations
  /\ histories \in Seq([user : Users, at : Times])
  /\ replicated \in Nat
  /\ locked \subseteq Users
  /\ submitted \subseteq Users
  /\ req \in [Requests -> Logins]
  /\ tokens \subseteq Tokens
  /\ now \in Times
  /\ answer \in Answers \cup {None}
  /\ mailed \subseteq Users

Init ==
  /\ secret \in Configurations
  /\ histories = <<>>
  /\ replicated = 0
  /\ \E start \in Starts : locked = start.locked /\ submitted = start.submitted
  /\ req = [r \in Requests |-> Idle]
  /\ tokens = {}
  /\ now = 0
  /\ answer = None
  /\ mailed = {}

-----------------------------------------------------------------------------
Report == IF Lagging THEN SubSeq(histories, 1, replicated) ELSE histories

(* getLastLogin: the createdAt of the newest row of the user.               *)
LastLogins(u, rows) ==
  LET mine == {i \in 1..Len(rows) : rows[i].user = u}
  IN IF mine = {} THEN {None}
     ELSE {rows[i].at : i \in {k \in mine : \A j \in mine : rows[j].at <= rows[k].at}}

(* login, up to the save: the tokens are signed now.                        *)
LoginRead(r, u) ==
  /\ req[r] = Idle
  /\ \E last \in LastLogins(u, Report) :
       req' = [req EXCEPT ![r] = [pc |-> "save", user |-> u, last |-> last,
                                  since |-> now]]
  /\ answer' = None
  /\ UNCHANGED <<secret, histories, replicated, locked, submitted, tokens, now, mailed>>

Row(r) == [user |-> req[r].user, at |-> now]

(* The answer to the login in slot r, whose row is number n.                *)
Answer(r, n, last) ==
  LET u == req[r].user
      s == req[r].since
  IN /\ tokens' = tokens \cup {Token("access", u, s + AccessTtl, n, s),
                               Token("refresh", u, s + RefreshTtl, n, s)}
     /\ answer' = [user |-> u, last |-> last, login |-> n]

(* Faulty variant: the last login is read after the save.                   *)
LoginSaveThenRead(r) ==
  /\ req[r].pc = "save"
  /\ Len(histories) < MaxLogins
  /\ histories' = Append(histories, Row(r))
  /\ \E last \in LastLogins(req[r].user, histories') :
       Answer(r, Len(histories) + 1, last)
  /\ req' = [req EXCEPT ![r] = Idle]
  /\ UNCHANGED <<secret, replicated, locked, submitted, now, mailed>>

(* Faulty variant: the save is not awaited and may fail after the answer.   *)
LoginUnawaited(r) ==
  /\ req[r].pc = "save"
  /\ Len(histories) < MaxLogins
  /\ histories' \in {histories, Append(histories, Row(r))}
  /\ Answer(r, Len(histories) + 1, req[r].last)
  /\ req' = [req EXCEPT ![r] = Idle]
  /\ UNCHANGED <<secret, replicated, locked, submitted, now, mailed>>

(* login, from the save to the answer.                                      *)
LoginSave(r) ==
  /\ req[r].pc = "save"
  /\ Len(histories) < MaxLogins
  /\ histories' = Append(histories, Row(r))
  /\ Answer(r, Len(histories) + 1, req[r].last)
  /\ req' = [req EXCEPT ![r] = Idle]
  /\ UNCHANGED <<secret, replicated, locked, submitted, now, mailed>>

(* The save fails, or the process dies before or after it.                  *)
LoginFails(r) ==
  /\ req[r].pc = "save"
  /\ \/ UNCHANGED histories
     \/ /\ Len(histories) < MaxLogins
        /\ histories' = Append(histories, Row(r))
  /\ req' = [req EXCEPT ![r] = Idle]
  /\ answer' = None
  /\ UNCHANGED <<secret, replicated, locked, submitted, tokens, now, mailed>>

-----------------------------------------------------------------------------
(* jwtService.verify with the options of a purpose: signature and age.      *)
Passes(t, purpose) == secret[t.kind] = secret[purpose] /\ now < t.exp

(* Faulty variant: a new refresh token comes with the access token.         *)
GetAccessTokenRotates(t) ==
  /\ Passes(t, "refresh")
  /\ tokens' = tokens \cup
       {Token("access", t.user, now + AccessTtl, t.login, t.since),
        Token("refresh", t.user, now + RefreshTtl, t.login, t.since)}
  /\ answer' = None
  /\ UNCHANGED <<secret, histories, replicated, locked, submitted, req, now, mailed>>

(* getAccessToken: the user is not looked up.                               *)
GetAccessToken(t) ==
  /\ Passes(t, "refresh")
  /\ tokens' = tokens \cup {Token("access", t.user, now + AccessTtl, t.login, t.since)}
  /\ answer' = None
  /\ UNCHANGED <<secret, histories, replicated, locked, submitted, req, now, mailed>>

(* JwtAuthGuard lets a request with this token through.                     *)
Validate(t) == Passes(t, "access") /\ t.user \notin locked

(* Resend-verify-email signs a link and mails it.                           *)
SendLink(u) ==
  /\ u \in submitted \ locked
  /\ tokens' = tokens \cup {Token("verify", u, now + LinkTtl, 0, now)}
  /\ mailed' = mailed \cup {u}
  /\ answer' = None
  /\ UNCHANGED <<secret, histories, replicated, locked, submitted, req, now>>

(* verifyEmail, by whatever token passes for a link.                        *)
VerifyEmail(t) ==
  /\ Passes(t, "verify")
  /\ t.user \in submitted \ locked
  /\ submitted' = submitted \ {t.user}
  /\ answer' = None
  /\ UNCHANGED <<secret, histories, replicated, locked, req, tokens, now, mailed>>

CatchUp ==
  /\ Lagging
  /\ replicated < Len(histories)
  /\ replicated' = replicated + 1
  /\ answer' = None
  /\ UNCHANGED <<secret, histories, locked, submitted, req, tokens, now, mailed>>

(* A token that has expired passes nowhere any more.                        *)
Tick ==
  /\ now < MaxTime
  /\ now' = now + 1
  /\ tokens' = {t \in tokens : now' < t.exp}
  /\ answer' = None
  /\ UNCHANGED <<secret, histories, replicated, locked, submitted, req, mailed>>

Next ==
  \/ \E r \in Requests : \E u \in Users : LoginRead(r, u)
  \/ \E r \in Requests : LoginSave(r) \/ LoginFails(r)
  \/ \E t \in tokens : GetAccessToken(t) \/ VerifyEmail(t)
  \/ \E u \in Users : SendLink(u)
  \/ CatchUp
  \/ Tick

Spec == Init /\ [][Next]_vars

-----------------------------------------------------------------------------
(* With a refresh secret of its own, a login carries a user for less than   *)
(* the life of a refresh token and of an access token together, however     *)
(* often access tokens are renewed: getAccessToken never renews the refresh *)
(* token.  A link serves nobody after its own end.  (Without that setting   *)
(* an access token renews itself, and nothing ends a session.)              *)
RefreshApart == secret["refresh"] \notin {secret["access"], secret["verify"]}

SessionEnds ==
  RefreshApart =>
    \A t \in tokens : Validate(t) =>
      now < t.since + IF t.login = 0 THEN LinkTtl ELSE RefreshTtl + AccessTtl

(* Every token JwtStrategy lets through traces to a row of login_histories  *)
(* of the same user, written at or after the time it was signed, since      *)
(* login awaits the save before it answers; or else to a link that was      *)
(* mailed to that user, and then only where links share a secret with       *)
(* another purpose.                                                         *)
OnRecord(u, n, s) ==
  /\ n \in 1..Len(histories)
  /\ histories[n].user = u
  /\ histories[n].at >= s

LinksShared == secret["verify"] \in {secret["access"], secret["refresh"]}

SessionOnRecord ==
  \A t \in tokens : Validate(t) =>
    \/ OnRecord(t.user, t.login, t.since)
    \/ t.login = 0 /\ t.user \in mailed /\ LinksShared

(* The last_login of an answer is an earlier row of the same user, never    *)
(* the row of the login that is answered: it is read before the save.       *)
LastLoginIsPast ==
  answer # None /\ answer.last # None =>
    \E i \in 1..Len(histories) :
      /\ i < answer.login
      /\ histories[i] = [user |-> answer.user, at |-> answer.last]

-----------------------------------------------------------------------------
(* The inductive invariant behind the three safety properties.              *)

(* A token comes from a login on record or from a mailed link.              *)
Traced(t) ==
  IF t.login = 0
  THEN /\ t.user \in mailed
       /\ t.kind = "access" => LinksShared /\ ~RefreshApart
       /\ t.kind # "refresh"
  ELSE t.kind # "verify" /\ OnRecord(t.user, t.login, t.since)

(* It does not outlive what its login allows.                               *)
Bounded(t) ==
  CASE t.kind = "verify"  -> t.exp <= t.since + LinkTtl
    [] t.kind = "refresh" -> t.exp <= t.since + RefreshTtl
    [] OTHER -> RefreshApart => t.exp <= t.since + RefreshTtl + AccessTtl

Signed == \A t \in tokens : Traced(t) /\ Bounded(t)

(* A login in flight has a user, and read a row that is there.              *)
InFlight ==
  \A r \in Requests : req[r].pc = "save" =>
    /\ req[r].user \in Users
    /\ req[r].since <= now
    /\ req[r].last # None =>
         \E i \in 1..Len(histories) :
           histories[i] = [user |-> req[r].user, at |-> req[r].last]

Invariant ==
  TypeOK /\ replicated <= Len(histories) /\ Signed /\ InFlight /\ LastLoginIsPast
=============================================================================
