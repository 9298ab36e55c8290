------------------------------- MODULE Rooms -------------------------------
(***************************************************************************)
(* Web sockets of the server processes, one room per user, and the events  *)
(* SocketEmitter sends to a room.  An event goes out on Redis pub/sub; the *)
(* adapter of every subscribed process receives it, later, and hands it to *)
(* its own sockets in the room.  Pub/sub keeps nothing for a process that  *)
(* is not subscribed.                                                      *)
(* Definitions headed "Faulty variant" are not part of the model.          *)
(***************************************************************************)
EXTENDS Integers, Sequences

CONSTANTS
  Sockets,    \* slots for connections, used again
  Processes,
  Users,
  None,
  MaxTime,    \* bound of the clock, and of the expiry of tokens
  MaxEvents   \* bound of the events emitted

ASSUME RoomConstants ==
  /\ MaxTime \in Nat
  /\ MaxEvents \in Nat
  /\ None \notin Processes

VARIABLES
  place,    \* the process a socket is connected to, or None
  rooms,    \* the rooms it is in
  token,    \* history: whose token it shook hands with, until when, and when
  heard,    \* history: the events it was sent, in order
  status,   \* of a process: "down", "alone" or "subscribed"
  inbox,    \* the events Redis has sent to a process
  emitted,  \* history: the room of every event
  now

vars == <<place, rooms, token, heard, status, inbox, emitted, now>>
sockets   == <<place, rooms, token, heard>>
processes == <<status, inbox>>

Guest == [user |-> None, expiry |-> 0, at |-> 0]

Init ==
  /\ place = [s \in Sockets |-> None]
  /\ rooms = [s \in Sockets |-> {}]
  /\ token = [s \in Sockets |-> Guest]
  /\ heard = [s \in Sockets |-> <<>>]
  /\ status = [p \in Processes |-> "down"]
  /\ inbox = [p \in Processes |-> <<>>]
  /\ emitted = <<>>
  /\ now = 0

-----------------------------------------------------------------------------
(* handleConnection: verify() throws on a token that has expired; the       *)
(* socket stays connected, in no room.                                      *)
Joins(u, expiry) == IF now < expiry THEN {u} ELSE {}

Connect(s, p) ==
  /\ place[s] = None
  /\ status[p] # "down"
  /\ place' = [place EXCEPT ![s] = p]
  /\ heard' = [heard EXCEPT ![s] = <<>>]
  /\ \/ \E u \in Users, expiry \in 0..MaxTime :
          /\ rooms' = [rooms EXCEPT ![s] = @ \cup Joins(u, expiry)]
          /\ token' = [token EXCEPT ![s] = [user |-> u, expiry |-> expiry, at |-> now]]
     \/ token' = [token EXCEPT ![s] = Guest] /\ UNCHANGED rooms
  /\ UNCHANGED <<processes, emitted, now>>

(* Faulty variant: a client that comes back finds its rooms.                *)
LeaveKeepsRooms(gone) ==
  /\ place' = [s \in Sockets |-> IF s \in gone THEN None ELSE place[s]]
  /\ UNCHANGED rooms

Leave(gone) ==
  /\ place' = [s \in Sockets |-> IF s \in gone THEN None ELSE place[s]]
  /\ rooms' = [s \in Sockets |-> IF s \in gone THEN {} ELSE rooms[s]]

Disconnect(s) ==
  /\ place[s] # None
  /\ Leave({s})
  /\ UNCHANGED <<token, heard, processes, emitted, now>>

-----------------------------------------------------------------------------
(* emitUpdatedTrades(u), in any process.                                    *)
Emit(u) ==
  /\ Len(emitted) < MaxEvents
  /\ emitted' = Append(emitted, u)
  /\ inbox' = [p \in Processes |->
                 IF status[p] = "subscribed" THEN Append(inbox[p], Len(emitted) + 1)
                 ELSE inbox[p]]
  /\ UNCHANGED <<sockets, status, now>>

Members(p, u) == {s \in Sockets : place[s] = p /\ u \in rooms[s]}

(* Faulty variant: an event is handed to one socket of the room.            *)
DeliverToOne(p) ==
  LET n == Head(inbox[p]) IN
  /\ inbox[p] # <<>>
  /\ inbox' = [inbox EXCEPT ![p] = Tail(@)]
  /\ IF Members(p, emitted[n]) = {} THEN UNCHANGED heard
     ELSE \E s \in Members(p, emitted[n]) : heard' = [heard EXCEPT ![s] = Append(@, n)]
  /\ UNCHANGED <<place, rooms, token, status, emitted, now>>

(* The adapter receives an event and sends it to its sockets in the room.   *)
Deliver(p) ==
  LET n == Head(inbox[p]) IN
  /\ inbox[p] # <<>>
  /\ inbox' = [inbox EXCEPT ![p] = Tail(@)]
  /\ heard' = [s \in Sockets |-> IF s \in Members(p, emitted[n])
                                 THEN Append(heard[s], n) ELSE heard[s]]
  /\ UNCHANGED <<place, rooms, token, status, emitted, now>>

(* A process starts, and the adapter's client connects to Redis, with it or *)
(* again.                                                                   *)
Boot(p) ==
  /\ status[p] = "down"
  /\ status' = [status EXCEPT ![p] = "alone"]
  /\ UNCHANGED <<sockets, inbox, emitted, now>>

(* Faulty variant: a process that comes back is sent what it may have missed. *)
SubscribeReplays(p) ==
  /\ status[p] = "alone"
  /\ status' = [status EXCEPT ![p] = "subscribed"]
  /\ inbox' = [inbox EXCEPT ![p] = [n \in 1..Len(emitted) |-> n]]
  /\ UNCHANGED <<sockets, emitted, now>>

Subscribe(p) ==
  /\ status[p] = "alone"
  /\ status' = [status EXCEPT ![p] = "subscribed"]
  /\ UNCHANGED <<sockets, inbox, emitted, now>>

(* The connection to Redis breaks, with what is on it; a process that goes  *)
(* down takes its sockets along.                                            *)
LoseRedis(p) ==
  /\ status[p] = "subscribed"
  /\ status' = [status EXCEPT ![p] = "alone"]
  /\ inbox' = [inbox EXCEPT ![p] = <<>>]
  /\ UNCHANGED <<sockets, emitted, now>>

Crash(p) ==
  /\ status[p] # "down"
  /\ status' = [status EXCEPT ![p] = "down"]
  /\ inbox' = [inbox EXCEPT ![p] = <<>>]
  /\ Leave({s \in Sockets : place[s] = p})
  /\ UNCHANGED <<token, heard, emitted, now>>

Tick ==
  /\ now < MaxTime
  /\ now' = now + 1
  /\ UNCHANGED <<sockets, processes, emitted>>

Next ==
  \/ \E s \in Sockets : Disconnect(s) \/ \E p \in Processes : Connect(s, p)
  \/ \E p \in Processes : Deliver(p)
                          \/ Boot(p) \/ Subscribe(p) \/ LoseRedis(p) \/ Crash(p)
  \/ \E u \in Users : Emit(u)
  \/ Tick

Fairness == \A p \in Processes : WF_vars(Deliver(p))

Spec == Init /\ [][Next]_vars /\ Fairness

-----------------------------------------------------------------------------
(* Every variable keeps its type.                                           *)
TypeOK ==
  /\ place \in [Sockets -> Processes \cup {None}]
  /\ rooms \in [Sockets -> SUBSET Users]
  /\ token \in [Sockets -> [user : Users \cup {None}, expiry : 0..MaxTime, at : 0..MaxTime]]
  /\ heard \in [Sockets -> Seq(Nat)]
  /\ status \in [Processes -> {"down", "alone", "subscribed"}]
  /\ inbox \in [Processes -> Seq(Nat)]
  /\ emitted \in Seq(Users)
  /\ now \in 0..MaxTime

(* What a socket is sent belongs to the user of the token it shook hands    *)
(* with, and that token was alive at the handshake: never to whoever used   *)
(* the slot before, and never to an expired token, although events travel   *)
(* while sockets come, go and come back (event.gateway.ts:21).              *)
OnlyOwnersHear ==
  \A s \in Sockets : \A i \in 1..Len(heard[s]) :
    /\ emitted[heard[s][i]] = token[s].user
    /\ token[s].at < token[s].expiry

(* A connection hears events in the order they were emitted, each once,     *)
(* whatever lost connections to Redis lie between (redis.adapter.ts:10).    *)
HeardInOrder ==
  \A s \in Sockets : \A i, j \in 1..Len(heard[s]) : i < j => heard[s][i] < heard[s][j]

(* An event on its way to a process reaches every socket in its room there  *)
(* that neither leaves nor loses its process or Redis first.                *)
Travels(s, n) ==
  /\ place[s] # None
  /\ n \in 1..Len(emitted)
  /\ emitted[n] \in rooms[s]
  /\ \E i \in 1..Len(inbox[place[s]]) : inbox[place[s]][i] = n

MembersHear ==
  \A s \in Sockets, n \in 1..MaxEvents :
    Travels(s, n) ~> \/ \E i \in 1..Len(heard[s]) : heard[s][i] = n
                     \/ place[s] = None
                     \/ status[place[s]] # "subscribed"

-----------------------------------------------------------------------------
(* The inductive invariant: a socket is in a room only while connected and  *)
(* by a token that was alive; what waits for a process comes after          *)
(* everything its sockets have heard.                                       *)
InOwnRoom ==
  \A s \in Sockets : \A u \in rooms[s] :
    place[s] # None /\ u = token[s].user /\ token[s].at < token[s].expiry

Sorted(q) == \A i, j \in 1..Len(q) : i < j => q[i] < q[j]

Within(q, n) == \A i \in 1..Len(q) : q[i] \in 1..n

Before(q, r) == \A i \in 1..Len(q), j \in 1..Len(r) : q[i] < r[j]

Ahead ==
  /\ \A p \in Processes : Sorted(inbox[p]) /\ Within(inbox[p], Len(emitted))
  /\ \A s \in Sockets : Within(heard[s], Len(emitted))
  /\ \A s \in Sockets, p \in Processes : place[s] = p => Before(heard[s], inbox[p])

Invariant == TypeOK /\ InOwnRoom /\ Ahead /\ OnlyOwnersHear /\ HeardInOrder
=============================================================================
