------------------------------- MODULE Health -------------------------------
(***************************************************************************)
(* GET /ping: HealthService.getHealth opens a Redis client of its own,     *)
(* waits for a SET to be answered, sends SELECT 1 to both databases        *)
(* without waiting for them, and answers.  The client is never closed and  *)
(* has no 'error' listener, so a Redis that goes away while clients are    *)
(* open ends the process.                                                  *)
(*                                                                         *)
(* Definitions headed "Faulty variant" are not part of the model.          *)
(***************************************************************************)
EXTENDS Integers

CONSTANTS
  Calls,       \* health checks in flight
  MaxClients   \* bound of the clients opened in the life of the process

ASSUME HealthConstants == MaxClients \in Nat

Databases == {"master", "report"}

VARIABLES
  redisUp,   \* Redis takes commands
  dbUp,      \* the databases that answer
  clients,   \* Redis clients open in this process
  call,      \* the health checks
  queries    \* how the two queries of each check ended, as far as they have

vars == <<redisUp, dbUp, clients, call, queries>>

Answers == {"Success", "Failed", "none"}

(* sawUp and sawDown are histories: what was true during the call.       *)
Idle == [pc |-> "idle", redis |-> "none", mysql |-> "none",
         sawUp |-> FALSE, sawDown |-> FALSE]

NoQuery == [d \in Databases |-> "none"]

TypeOK ==
  /\ redisUp \in BOOLEAN
  /\ dbUp \subseteq Databases
  /\ clients \in 0..MaxClients
  /\ call \in [Calls -> [pc : {"idle", "set", "query", "done"}, redis : Answers,
                         mysql : Answers, sawUp : BOOLEAN, sawDown : BOOLEAN]]
  /\ queries \in [Calls -> [Databases -> {"none", "sent", "ok", "error"}]]

Init ==
  /\ redisUp = TRUE
  /\ dbUp = Databases
  /\ clients = 0
  /\ call = [c \in Calls |-> Idle]
  /\ queries = [c \in Calls |-> NoQuery]

-----------------------------------------------------------------------------
(* createClient, and SET goes out.                                          *)
Ping(c) ==
  /\ call[c].pc = "idle"
  /\ clients < MaxClients
  /\ clients' = clients + 1
  /\ call' = [call EXCEPT ![c] = [Idle EXCEPT !.pc = "set", !.sawUp = redisUp,
                                              !.sawDown = ~ redisUp]]
  /\ UNCHANGED <<redisUp, dbUp, queries>>

(* Faulty variant: the SET is not waited for.                               *)
RedisRepliesUnawaited(c) ==
  /\ call[c].pc = "set"
  /\ call' = [call EXCEPT ![c].pc = "query", ![c].redis = "Success"]
  /\ UNCHANGED <<redisUp, dbUp, clients, queries>>

(* The callback of SET: Redis took the value, or answered with an error.    *)
RedisReplies(c) ==
  /\ call[c].pc = "set"
  /\ \/ /\ redisUp
        /\ call' = [call EXCEPT ![c].pc = "query", ![c].redis = "Success"]
     \/ /\ ~ redisUp
        /\ call' = [call EXCEPT ![c].pc = "query", ![c].redis = "Failed"]
  /\ UNCHANGED <<redisUp, dbUp, clients, queries>>

(* Promise.all without await: the queries are sent and the answer is made.  *)
SendQueries(c) ==
  /\ call[c].pc = "query"
  /\ queries' = [queries EXCEPT ![c] = [d \in Databases |-> "sent"]]
  /\ call' = [call EXCEPT ![c].pc = "done", ![c].mysql = "Success"]
  /\ UNCHANGED <<redisUp, dbUp, clients>>

(* A query ends; nobody looks at the result.                                *)
QueryEnds(c, d) ==
  /\ queries[c][d] = "sent"
  /\ queries' = [queries EXCEPT ![c][d] = IF d \in dbUp THEN "ok" ELSE "error"]
  /\ UNCHANGED <<redisUp, dbUp, clients, call>>

(* The slot is used for another check.                                      *)
Reuse(c) ==
  /\ call[c].pc = "done"
  /\ \A d \in Databases : queries[c][d] # "sent"
  /\ call' = [call EXCEPT ![c] = Idle]
  /\ queries' = [queries EXCEPT ![c] = NoQuery]
  /\ UNCHANGED <<redisUp, dbUp, clients>>

(* What a change of Redis leaves in the histories of the calls in flight.   *)
Noted(up) ==
  [c \in Calls |-> IF call[c].pc = "set"
                   THEN [call[c] EXCEPT !.sawUp = @ \/ up, !.sawDown = @ \/ ~ up]
                   ELSE call[c]]

RedisRecovers ==
  /\ ~ redisUp
  /\ redisUp' = TRUE
  /\ call' = Noted(TRUE)
  /\ UNCHANGED <<dbUp, clients, queries>>

(* Redis goes away with no client to notice.                                *)
RedisGone ==
  /\ redisUp
  /\ redisUp' = FALSE
  /\ call' = Noted(FALSE)
  /\ UNCHANGED <<dbUp, clients, queries>>

(* A client reports an error nobody listens to: the process dies and starts *)
(* again.                                                                   *)
Dies ==
  /\ ~ redisUp
  /\ clients > 0
  /\ clients' = 0
  /\ call' = [c \in Calls |-> Idle]
  /\ queries' = [c \in Calls |-> NoQuery]
  /\ UNCHANGED <<redisUp, dbUp>>

DatabaseChanges ==
  /\ dbUp' \in SUBSET Databases \ {dbUp}
  /\ UNCHANGED <<redisUp, clients, call, queries>>

Next ==
  \/ \E c \in Calls : \/ Ping(c) \/ RedisReplies(c) \/ SendQueries(c) \/ Reuse(c)
                      \/ \E d \in Databases : QueryEnds(c, d)
  \/ RedisRecovers \/ RedisGone \/ Dies \/ DatabaseChanges

Spec == Init /\ [][Next]_vars

-----------------------------------------------------------------------------
(* What the answer says of Redis was so at some moment of the call: the     *)
(* promise is resolved by the callback of SET and awaited.                  *)
RedisAnswerIsTrue ==
  \A c \in Calls : /\ call[c].redis = "Success" => call[c].sawUp
                   /\ call[c].redis = "Failed" => call[c].sawDown

(* 'Success check health mysql' is the answer only when neither database    *)
(* failed its SELECT 1.                                                     *)
MysqlAnswerIsTrue ==
  \A c \in Calls :
    call[c].mysql = "Success" => \A d \in Databases : queries[c][d] # "error"

-----------------------------------------------------------------------------
(* The inductive invariant: a call that waits for SET has noted how Redis   *)
(* is now, and has answered nothing yet.                                    *)
Noticing ==
  \A c \in Calls : call[c].pc = "set" =>
    /\ redisUp => call[c].sawUp
    /\ ~ redisUp => call[c].sawDown

Unanswered == \A c \in Calls : call[c].pc \in {"idle", "set"} => call[c].redis = "none"

Invariant == TypeOK /\ Noticing /\ Unanswered /\ RedisAnswerIsTrue
=============================================================================
