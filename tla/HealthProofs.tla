---------------------------- MODULE HealthProofs ----------------------------
(***************************************************************************)
(* What GET /ping says of Redis was so during the call, for every number   *)
(* of calls and clients.                                                   *)
(***************************************************************************)
EXTENDS Health, TLAPS

CallRecords ==
  [pc : {"idle", "set", "query", "done"}, redis : Answers, mysql : Answers,
   sawUp : BOOLEAN, sawDown : BOOLEAN]

(* What the invariant says of one call, given how Redis is.                 *)
Sound(q, up) ==
  /\ q \in CallRecords
  /\ q.pc = "set" => /\ up => q.sawUp
                     /\ ~ up => q.sawDown
  /\ q.pc \in {"idle", "set"} => q.redis = "none"
  /\ q.redis = "Success" => q.sawUp
  /\ q.redis = "Failed" => q.sawDown

LEMMA Split ==
  Invariant <=>
    /\ redisUp \in BOOLEAN /\ dbUp \subseteq Databases /\ clients \in 0..MaxClients
    /\ queries \in [Calls -> [Databases -> {"none", "sent", "ok", "error"}]]
    /\ call \in [Calls -> CallRecords]
    /\ \A c \in Calls : Sound(call[c], redisUp)
BY DEF Invariant, TypeOK, Noticing, Unanswered, RedisAnswerIsTrue, Sound, CallRecords

(* The same, of the next state.                                             *)
LEMMA Joined ==
  ASSUME redisUp' \in BOOLEAN, dbUp' \subseteq Databases, clients' \in 0..MaxClients,
         queries' \in [Calls -> [Databases -> {"none", "sent", "ok", "error"}]],
         call' \in [Calls -> CallRecords],
         \A c \in Calls : Sound(call'[c], redisUp')
  PROVE  Invariant'
BY DEF Invariant, TypeOK, Noticing, Unanswered, RedisAnswerIsTrue, Sound, CallRecords

LEMMA IdleIsSound ==
  ASSUME NEW up \in BOOLEAN
  PROVE  Sound(Idle, up) /\ NoQuery \in [Databases -> {"none", "sent", "ok", "error"}]
BY DEF Sound, Idle, CallRecords, Answers, NoQuery

(* A step that changes one call only, and leaves Redis alone.               *)
LEMMA OneCall ==
  ASSUME Invariant, UNCHANGED redisUp, NEW c \in Calls, NEW q,
         Sound(q, redisUp), call' = [call EXCEPT ![c] = q],
         dbUp' \subseteq Databases, clients' \in 0..MaxClients,
         queries' \in [Calls -> [Databases -> {"none", "sent", "ok", "error"}]]
  PROVE  Invariant'
<1>1. q \in CallRecords
  BY DEF Sound
<1>2. call' \in [Calls -> CallRecords] /\ \A d \in Calls : Sound(call'[d], redisUp')
  BY <1>1, Split
<1> QED BY <1>2, Split, Joined

LEMMA InitHolds == Init => Invariant
<1> SUFFICES ASSUME Init PROVE Invariant
  OBVIOUS
<1>1. \A c \in Calls : Sound(call[c], redisUp) /\ call[c] = Idle
  BY IdleIsSound DEF Init
<1>2. call \in [Calls -> CallRecords]
  BY <1>1 DEF Init, Sound
<1>3. queries \in [Calls -> [Databases -> {"none", "sent", "ok", "error"}]]
  BY IdleIsSound DEF Init
<1>4. redisUp \in BOOLEAN /\ dbUp \subseteq Databases /\ clients \in 0..MaxClients
  BY HealthConstants DEF Init
<1> QED BY <1>1, <1>2, <1>3, <1>4, Split

LEMMA PingHolds == ASSUME Invariant, NEW c \in Calls, Ping(c) PROVE Invariant'
<1> DEFINE q == [Idle EXCEPT !.pc = "set", !.sawUp = redisUp, !.sawDown = ~ redisUp]
<1>1. redisUp \in BOOLEAN
  BY Split
<1>2. /\ q.pc = "set" /\ q.redis = "none" /\ q.mysql = "none"
      /\ q.sawUp = redisUp /\ q.sawDown = ~ redisUp
  BY DEF Idle
<1>3. q \in CallRecords
  BY <1>1 DEF Idle, CallRecords, Answers
<1>4. Sound(q, redisUp)
  BY <1>2, <1>3 DEF Sound
<1>5. call' = [call EXCEPT ![c] = q]
  BY DEF Ping
<1>6. clients' \in 0..MaxClients
  BY Split, HealthConstants DEF Ping
<1> HIDE DEF q
<1> QED BY <1>4, <1>5, <1>6, OneCall, Split DEF Ping

LEMMA RedisRepliesHolds ==
  ASSUME Invariant, NEW c \in Calls, RedisReplies(c) PROVE Invariant'
<1> DEFINE q(answer) == [call[c] EXCEPT !.pc = "query", !.redis = answer]
<1>1. call[c] \in CallRecords /\ Sound(call[c], redisUp) /\ call[c].pc = "set"
  BY Split DEF RedisReplies
<1>2. CASE redisUp /\ call' = [call EXCEPT ![c] = q("Success")]
  <2>1. q("Success") \in CallRecords
    BY <1>1 DEF CallRecords, Answers
  <2>2. Sound(q("Success"), redisUp)
    BY <1>1, <1>2, <2>1 DEF Sound, CallRecords
  <2> QED BY <1>2, <2>2, OneCall, Split DEF RedisReplies
<1>3. CASE ~ redisUp /\ call' = [call EXCEPT ![c] = q("Failed")]
  <2>1. q("Failed") \in CallRecords
    BY <1>1 DEF CallRecords, Answers
  <2>2. Sound(q("Failed"), redisUp)
    BY <1>1, <1>3, <2>1 DEF Sound, CallRecords
  <2> QED BY <1>3, <2>2, OneCall, Split DEF RedisReplies
<1> QED BY <1>2, <1>3, Split DEF RedisReplies, CallRecords

LEMMA SendQueriesHolds ==
  ASSUME Invariant, NEW c \in Calls, SendQueries(c) PROVE Invariant'
<1> DEFINE q == [call[c] EXCEPT !.pc = "done", !.mysql = "Success"]
<1>1. call[c] \in CallRecords /\ Sound(call[c], redisUp)
  BY Split
<1>2. q \in CallRecords
  BY <1>1 DEF CallRecords, Answers
<1>3. Sound(q, redisUp)
  BY <1>1, <1>2 DEF Sound, CallRecords
<1>4. call' = [call EXCEPT ![c] = q]
  BY <1>1, Split DEF SendQueries, CallRecords
<1>5. queries' \in [Calls -> [Databases -> {"none", "sent", "ok", "error"}]]
  BY Split DEF SendQueries
<1> HIDE DEF q
<1> QED BY <1>3, <1>4, <1>5, OneCall, Split DEF SendQueries

(* Redis changes, and every call that waits notes it.                       *)
LEMMA NotedHolds ==
  ASSUME Invariant, NEW up \in BOOLEAN, redisUp' = up, call' = Noted(up),
         UNCHANGED <<dbUp, clients, queries>>
  PROVE  Invariant'
<1>1. ASSUME NEW c \in Calls PROVE Sound(Noted(up)[c], up)
  <2>1. call[c] \in CallRecords /\ Sound(call[c], redisUp) /\ redisUp \in BOOLEAN
    BY Split
  <2>2. CASE call[c].pc = "set"
    <3> DEFINE q == [call[c] EXCEPT !.sawUp = @ \/ up, !.sawDown = @ \/ ~ up]
    <3>1. /\ q.pc = "set" /\ q.redis = call[c].redis
          /\ q.sawUp = (call[c].sawUp \/ up) /\ q.sawDown = (call[c].sawDown \/ ~ up)
      BY <2>1, <2>2 DEF CallRecords
    <3>2. q \in CallRecords
      BY <2>1 DEF CallRecords
    <3>3. Sound(q, up)
      BY <2>1, <2>2, <3>1, <3>2 DEF Sound
    <3> QED BY <2>2, <3>3 DEF Noted
  <2>3. CASE call[c].pc # "set"
    BY <2>1, <2>3 DEF Sound, Noted
  <2> QED BY <2>2, <2>3
<1>2. call' \in [Calls -> CallRecords]
  <2>1. \A c \in Calls : Noted(up)[c] \in CallRecords
    BY <1>1 DEF Sound
  <2> QED BY <2>1 DEF Noted
<1>3. \A c \in Calls : Sound(call'[c], redisUp')
  BY <1>1
<1> QED BY <1>2, <1>3, Split, Joined

LEMMA DiesHolds == ASSUME Invariant, Dies PROVE Invariant'
<1>1. redisUp \in BOOLEAN /\ redisUp' = redisUp
  BY Split DEF Dies
<1>2. \A c \in Calls : Sound(call'[c], redisUp') /\ call'[c] = Idle
  BY <1>1, IdleIsSound DEF Dies
<1>3. call' \in [Calls -> CallRecords]
  BY <1>2 DEF Dies, Sound
<1>4. queries' \in [Calls -> [Databases -> {"none", "sent", "ok", "error"}]]
  BY IdleIsSound DEF Dies
<1>5. clients' \in 0..MaxClients /\ dbUp' \subseteq Databases
  BY Split, HealthConstants DEF Dies
<1> QED BY <1>1, <1>2, <1>3, <1>4, <1>5, Split, Joined

LEMMA NextHolds == Invariant /\ [Next]_vars => Invariant'
<1> SUFFICES ASSUME Invariant, [Next]_vars PROVE Invariant'
  OBVIOUS
<1>1. ASSUME NEW c \in Calls, NEW d \in Databases, QueryEnds(c, d) PROVE Invariant'
  <2>1. queries' \in [Calls -> [Databases -> {"none", "sent", "ok", "error"}]]
    BY <1>1, Split DEF QueryEnds
  <2> QED BY <1>1, <2>1, Split, Joined DEF QueryEnds
<1>2. ASSUME NEW c \in Calls, Reuse(c) PROVE Invariant'
  <2>1. queries' \in [Calls -> [Databases -> {"none", "sent", "ok", "error"}]]
    BY <1>2, IdleIsSound, Split DEF Reuse
  <2> QED BY <1>2, <2>1, IdleIsSound, OneCall, Split DEF Reuse
<1>3. CASE RedisRecovers \/ RedisGone
  BY <1>3, NotedHolds DEF RedisRecovers, RedisGone
<1>4. CASE DatabaseChanges \/ UNCHANGED vars
  BY <1>4 DEF DatabaseChanges, vars, Invariant, TypeOK, Noticing, Unanswered,
              RedisAnswerIsTrue
<1> QED BY <1>1, <1>2, <1>3, <1>4, PingHolds, RedisRepliesHolds, SendQueriesHolds,
           DiesHolds DEF Next

(* Every reachable state satisfies the invariant.                           *)
THEOREM HealthInvariantHolds == Spec => []Invariant
BY InitHolds, NextHolds, PTL DEF Spec

(* The answer says of Redis what was so during the call: getHealth waits    *)
(* for the callback of SET (health.service.ts:19-33).                       *)
THEOREM RedisAnswersAreTrue == Spec => []RedisAnswerIsTrue
<1>1. Invariant => RedisAnswerIsTrue
  BY DEF Invariant
<1> QED BY <1>1, HealthInvariantHolds, PTL
=============================================================================
