----------------------------- MODULE RoomProofs -----------------------------
(***************************************************************************)
(* Who hears what, in which order, for every number of sockets, processes, *)
(* users and events.                                                       *)
(***************************************************************************)
EXTENDS Rooms, SequenceTheorems, TLAPS

(* Reading the sequences.                                                   *)
LEMMA AppendAt ==
  ASSUME NEW S, NEW q \in Seq(S), NEW x \in S
  PROVE  /\ Append(q, x) \in Seq(S)
         /\ Len(q) \in Nat
         /\ Len(Append(q, x)) = Len(q) + 1
         /\ \A i \in 1..Len(q) : Append(q, x)[i] = q[i]
         /\ Append(q, x)[Len(q) + 1] = x
  BY AppendProperties, LenProperties

LEMMA TailAt ==
  ASSUME NEW S, NEW q \in Seq(S), q # <<>>
  PROVE  /\ Tail(q) \in Seq(S)
         /\ Head(q) = q[1]
         /\ Len(q) \in Nat \ {0}
         /\ Len(Tail(q)) = Len(q) - 1
         /\ \A i \in 1..Len(Tail(q)) : Tail(q)[i] = q[i + 1]
  BY HeadTailProperties, LenProperties

LEMMA EmptyAt ==
  ASSUME NEW S
  PROVE  <<>> \in Seq(S) /\ Len(<<>>) = 0
  BY EmptySeq

LEMMA AppendSorted ==
  ASSUME NEW q \in Seq(Nat), NEW n \in Nat, Sorted(q), \A i \in 1..Len(q) : q[i] < n
  PROVE  Sorted(Append(q, n))
<1> DEFINE r == Append(q, n)
<1>1. /\ Len(q) \in Nat /\ Len(r) = Len(q) + 1
      /\ \A i \in 1..Len(q) : r[i] = q[i]
      /\ r[Len(q) + 1] = n
  BY AppendAt
<1> HIDE DEF r
<1>2. ASSUME NEW i \in 1..Len(r), NEW j \in 1..Len(r), i < j
      PROVE  r[i] < r[j]
  <2>1. i \in 1..Len(q) /\ r[i] = q[i]
    BY <1>1, <1>2
  <2>2. CASE j \in 1..Len(q)
    BY <1>1, <1>2, <2>1, <2>2 DEF Sorted
  <2>3. CASE j = Len(q) + 1
    BY <1>1, <2>1, <2>3
  <2> QED BY <1>1, <2>2, <2>3
<1>3. Sorted(r)
  BY <1>2 DEF Sorted
<1> QED BY <1>3 DEF r

LEMMA TailSorted ==
  ASSUME NEW q \in Seq(Nat), q # <<>>, Sorted(q)
  PROVE  Sorted(Tail(q))
<1> DEFINE r == Tail(q)
<1>1. /\ Len(q) \in Nat \ {0} /\ Len(r) = Len(q) - 1
      /\ \A i \in 1..Len(r) : r[i] = q[i + 1]
  BY TailAt
<1> HIDE DEF r
<1>2. ASSUME NEW i \in 1..Len(r), NEW j \in 1..Len(r), i < j
      PROVE  r[i] < r[j]
  <2>1. i + 1 \in 1..Len(q) /\ j + 1 \in 1..Len(q) /\ i + 1 < j + 1
    BY <1>1, <1>2
  <2>2. q[i + 1] < q[j + 1]
    BY <2>1 DEF Sorted
  <2> QED BY <1>1, <2>2
<1>3. Sorted(r)
  BY <1>2 DEF Sorted
<1> QED BY <1>3 DEF r

(* A step that leaves the sockets, or takes some of them away.              *)
Fewer ==
  /\ UNCHANGED <<token, heard>>
  /\ place' \in [Sockets -> Processes \cup {None}]
  /\ rooms' \in [Sockets -> SUBSET Users]
  /\ \A s \in Sockets : \/ place'[s] = place[s] /\ rooms'[s] = rooms[s]
                        \/ place'[s] = None /\ rooms'[s] = {}

LEMMA LeaveIsFewer ==
  ASSUME TypeOK, NEW gone, Leave(gone), UNCHANGED <<token, heard>>
  PROVE  Fewer
  BY DEF Leave, Fewer, TypeOK

LEMMA StayIsFewer ==
  ASSUME TypeOK, UNCHANGED sockets
  PROVE  Fewer
  BY DEF sockets, Fewer, TypeOK

(* A step of the sockets or the processes that hands nothing over.          *)
LEMMA QuietStep ==
  ASSUME Invariant, Fewer, UNCHANGED emitted,
         status' \in [Processes -> {"down", "alone", "subscribed"}],
         inbox' \in [Processes -> Seq(Nat)],
         \A p \in Processes : inbox'[p] = inbox[p] \/ inbox'[p] = <<>>,
         now' \in 0..MaxTime
  PROVE  Invariant'
<1> USE RoomConstants DEF Invariant
<1>1. TypeOK'
  BY DEF Fewer, TypeOK
<1>2. InOwnRoom'
  BY DEF Fewer, InOwnRoom
<1>3. Ahead'
  <2>1. \A p \in Processes : Sorted(inbox'[p]) /\ Within(inbox'[p], Len(emitted'))
    BY EmptyAt DEF Ahead, Sorted, Within, Before
  <2>2. \A s \in Sockets : Within(heard'[s], Len(emitted'))
    BY DEF Fewer, Ahead, Within, Before
  <2>3. ASSUME NEW s \in Sockets, NEW p \in Processes, place'[s] = p,
               NEW i \in 1..Len(heard'[s]), NEW j \in 1..Len(inbox'[p])
        PROVE  heard'[s][i] < inbox'[p][j]
    <3>1. place[s] = p /\ heard'[s] = heard[s]
      BY <2>3 DEF Fewer
    <3>2. inbox'[p] = inbox[p]
      BY <2>3, EmptyAt
    <3> QED BY <2>3, <3>1, <3>2 DEF Ahead, Before
  <2> QED BY <2>1, <2>2, <2>3 DEF Ahead, Before
<1>4. OnlyOwnersHear' /\ HeardInOrder'
  BY DEF Fewer, OnlyOwnersHear, HeardInOrder
<1> QED BY <1>1, <1>2, <1>3, <1>4

LEMMA ConnectStep ==
  ASSUME Invariant, NEW s \in Sockets, NEW p \in Processes, Connect(s, p)
  PROVE  Invariant'
<1> USE RoomConstants DEF Invariant
<1>1. /\ place[s] = None /\ rooms[s] = {}
      /\ place' = [place EXCEPT ![s] = p]
      /\ heard' = [heard EXCEPT ![s] = <<>>]
      /\ UNCHANGED <<status, inbox, emitted, now>>
  BY DEF Connect, InOwnRoom, TypeOK, processes
<1>2. \E t \in [user : Users \cup {None}, expiry : 0..MaxTime, at : 0..MaxTime],
         in \in SUBSET Users :
        /\ token' = [token EXCEPT ![s] = t]
        /\ rooms' = [rooms EXCEPT ![s] = in]
        /\ \A u \in in : u = t.user /\ t.at < t.expiry
  <2>1. CASE \E u \in Users, expiry \in 0..MaxTime :
               /\ rooms' = [rooms EXCEPT ![s] = @ \cup Joins(u, expiry)]
               /\ token' = [token EXCEPT ![s] = [user |-> u, expiry |-> expiry,
                                                 at |-> now]]
    <3>1. PICK u \in Users, expiry \in 0..MaxTime :
               /\ rooms' = [rooms EXCEPT ![s] = @ \cup Joins(u, expiry)]
               /\ token' = [token EXCEPT ![s] = [user |-> u, expiry |-> expiry,
                                                 at |-> now]]
      BY <2>1
    <3>2. rooms' = [rooms EXCEPT ![s] = Joins(u, expiry)]
      BY <1>1, <3>1 DEF TypeOK
    <3>3. /\ Joins(u, expiry) \in SUBSET Users
          /\ \A v \in Joins(u, expiry) : v = u /\ now < expiry
      BY DEF Joins
    <3>4. [user |-> u, expiry |-> expiry, at |-> now]
            \in [user : Users \cup {None}, expiry : 0..MaxTime, at : 0..MaxTime]
      BY DEF TypeOK
    <3> QED BY <3>1, <3>2, <3>3, <3>4
  <2>2. CASE token' = [token EXCEPT ![s] = Guest] /\ UNCHANGED rooms
    <3>1. rooms' = [rooms EXCEPT ![s] = {}]
      BY <1>1, <2>2 DEF TypeOK
    <3>2. Guest \in [user : Users \cup {None}, expiry : 0..MaxTime, at : 0..MaxTime]
      BY DEF Guest
    <3> QED BY <2>2, <3>1, <3>2
  <2> QED BY <2>1, <2>2 DEF Connect
<1>3. PICK t \in [user : Users \cup {None}, expiry : 0..MaxTime, at : 0..MaxTime],
          in \in SUBSET Users :
        /\ token' = [token EXCEPT ![s] = t]
        /\ rooms' = [rooms EXCEPT ![s] = in]
        /\ \A u \in in : u = t.user /\ t.at < t.expiry
  BY <1>2
<1>4. TypeOK'
  <2>1. heard' \in [Sockets -> Seq(Nat)]
    BY <1>1, EmptyAt DEF TypeOK
  <2> QED BY <1>1, <1>3, <2>1 DEF TypeOK
<1>5. /\ token'[s] = t /\ rooms'[s] = in /\ place'[s] = p /\ heard'[s] = <<>>
      /\ \A r \in Sockets \ {s} : /\ token'[r] = token[r] /\ rooms'[r] = rooms[r]
                                  /\ place'[r] = place[r] /\ heard'[r] = heard[r]
  BY <1>1, <1>3 DEF TypeOK
<1>6. InOwnRoom'
  BY <1>3, <1>5 DEF InOwnRoom
<1>7. Ahead'
  <2>1. \A q \in Processes : Sorted(inbox[q]) /\ Within(inbox[q], Len(emitted'))
    BY <1>1 DEF Ahead, Within, Before
  <2>2. \A r \in Sockets : Within(heard'[r], Len(emitted'))
    BY <1>1, <1>5, EmptyAt DEF Ahead, Within, Before
  <2>3. ASSUME NEW r \in Sockets, NEW q \in Processes, place'[r] = q,
               NEW i \in 1..Len(heard'[r]), NEW j \in 1..Len(inbox[q])
        PROVE  heard'[r][i] < inbox[q][j]
    <3>1. r # s
      BY <1>5, <2>3, EmptyAt
    <3> QED BY <1>5, <2>3, <3>1 DEF Ahead, Before
  <2> QED BY <1>1, <2>1, <2>2, <2>3 DEF Ahead, Before
<1>8. OnlyOwnersHear'
  BY <1>1, <1>5, EmptyAt DEF OnlyOwnersHear
<1>9. HeardInOrder'
  BY <1>5, EmptyAt DEF HeardInOrder
<1> QED BY <1>4, <1>6, <1>7, <1>8, <1>9

LEMMA EmitStep ==
  ASSUME Invariant, NEW u \in Users, Emit(u)
  PROVE  Invariant'
<1> USE DEF Invariant
<1> DEFINE n == Len(emitted) + 1
<1>1. /\ emitted' = Append(emitted, u)
      /\ \A p \in Processes : inbox'[p] = inbox[p] \/ inbox'[p] = Append(inbox[p], n)
      /\ UNCHANGED <<place, rooms, token, heard, status, now>>
  BY DEF Emit, sockets
<1>2. /\ emitted' \in Seq(Users) /\ Len(emitted) \in Nat /\ Len(emitted') = n
      /\ \A i \in 1..Len(emitted) : emitted'[i] = emitted[i]
  BY <1>1, AppendAt DEF TypeOK
<1>3. ASSUME NEW p \in Processes
      PROVE  /\ Append(inbox[p], n) \in Seq(Nat)
             /\ Len(inbox[p]) \in Nat
             /\ Len(Append(inbox[p], n)) = Len(inbox[p]) + 1
             /\ \A i \in 1..Len(inbox[p]) : Append(inbox[p], n)[i] = inbox[p][i]
             /\ Append(inbox[p], n)[Len(inbox[p]) + 1] = n
  BY <1>2, AppendAt DEF TypeOK
<1>4. inbox' \in [Processes -> Seq(Nat)]
  BY <1>3 DEF Emit, TypeOK
<1>5. TypeOK'
  BY <1>1, <1>2, <1>4 DEF TypeOK
<1>6. InOwnRoom'
  BY <1>1 DEF InOwnRoom
<1> HIDE DEF n
<1>7. Len(emitted) < n /\ n \in Nat
  BY <1>2 DEF n
<1>8. ASSUME NEW s \in Sockets, NEW i \in 1..Len(heard[s])
      PROVE  heard[s][i] \in 1..Len(emitted)
  BY DEF Ahead, Within, Before
<1>9. Ahead'
  <2>1. ASSUME NEW p \in Processes
        PROVE  Sorted(inbox'[p]) /\ Within(inbox'[p], Len(emitted'))
    <3>1. Sorted(inbox[p]) /\ Within(inbox[p], Len(emitted))
      BY DEF Ahead, Before
    <3>2. CASE inbox'[p] = inbox[p]
      BY <1>2, <1>7, <3>1, <3>2 DEF Sorted, Within, Before
    <3>3. CASE inbox'[p] = Append(inbox[p], n)
      <4>1. \A i \in 1..Len(inbox'[p]) :
              \/ i \in 1..Len(inbox[p]) /\ inbox'[p][i] = inbox[p][i]
              \/ i = Len(inbox[p]) + 1 /\ inbox'[p][i] = n
        BY <1>3, <3>3
      <4>2. \A i \in 1..Len(inbox[p]) : inbox[p][i] \in Nat /\ inbox[p][i] < n
        BY <1>2, <1>7, <3>1 DEF Within
      <4>3. Sorted(inbox'[p])
        BY <1>7, <3>1, <3>3, <4>2, AppendSorted DEF TypeOK
      <4>4. Within(inbox'[p], Len(emitted'))
        BY <1>2, <1>7, <3>1, <4>1 DEF Within, n
      <4> QED BY <4>3, <4>4
    <3> QED BY <1>1, <3>2, <3>3
  <2>2. \A s \in Sockets : Within(heard'[s], Len(emitted'))
    BY <1>1, <1>2, <1>7, <1>8 DEF Within
  <2>3. ASSUME NEW s \in Sockets, NEW p \in Processes, place[s] = p,
               NEW i \in 1..Len(heard[s]), NEW j \in 1..Len(inbox'[p])
        PROVE  heard[s][i] < inbox'[p][j]
    <3>1. CASE j \in 1..Len(inbox[p]) /\ inbox'[p][j] = inbox[p][j]
      BY <2>3, <3>1 DEF Ahead, Before
    <3>2. CASE inbox'[p][j] = n
      BY <1>2, <1>7, <1>8, <3>2
    <3>3. CASE inbox'[p] = inbox[p]
      BY <2>3, <3>1, <3>3
    <3>4. CASE inbox'[p] = Append(inbox[p], n)
      <4>1. j \in 1..Len(inbox[p]) \/ j = Len(inbox[p]) + 1
        BY <1>3, <2>3, <3>4
      <4> QED BY <1>3, <3>1, <3>2, <3>4, <4>1
    <3> QED BY <1>1, <3>3, <3>4
  <2> QED BY <1>1, <2>1, <2>2, <2>3 DEF Ahead, Before
<1>10. OnlyOwnersHear'
  BY <1>1, <1>2, <1>8 DEF OnlyOwnersHear
<1>11. HeardInOrder'
  BY <1>1 DEF HeardInOrder
<1> QED BY <1>5, <1>6, <1>9, <1>10, <1>11

LEMMA DeliverStep ==
  ASSUME Invariant, NEW p \in Processes, Deliver(p)
  PROVE  Invariant'
<1> USE DEF Invariant
<1> DEFINE n == Head(inbox[p])
<1>1. /\ inbox[p] # <<>>
      /\ inbox' = [inbox EXCEPT ![p] = Tail(@)]
      /\ heard' = [s \in Sockets |-> IF s \in Members(p, emitted[n])
                                     THEN Append(heard[s], n) ELSE heard[s]]
      /\ UNCHANGED <<place, rooms, token, status, emitted, now>>
  BY DEF Deliver
<1>2. inbox[p] \in Seq(Nat)
  BY DEF TypeOK
<1>3. /\ Tail(inbox[p]) \in Seq(Nat)
      /\ n = inbox[p][1]
      /\ Len(inbox[p]) \in Nat \ {0}
      /\ Len(Tail(inbox[p])) = Len(inbox[p]) - 1
      /\ \A i \in 1..Len(Tail(inbox[p])) : Tail(inbox[p])[i] = inbox[p][i + 1]
  BY <1>1, <1>2, TailAt
<1>4. n \in 1..Len(emitted) /\ n \in Nat
  <2>1. Len(emitted) \in Nat
    BY LenProperties DEF TypeOK
  <2>2. Within(inbox[p], Len(emitted))
    BY DEF Ahead, Before
  <2> QED BY <1>3, <2>1, <2>2 DEF Within
<1>5. /\ inbox'[p] = Tail(inbox[p])
      /\ \A q \in Processes \ {p} : inbox'[q] = inbox[q]
  BY <1>1 DEF TypeOK
<1> HIDE DEF n
<1>6. ASSUME NEW s \in Sockets
      PROVE  \/ heard'[s] = heard[s]
             \/ s \in Members(p, emitted[n]) /\ heard'[s] = Append(heard[s], n)
  BY <1>1
<1>7. ASSUME NEW s \in Sockets
      PROVE  /\ Append(heard[s], n) \in Seq(Nat)
             /\ Len(heard[s]) \in Nat
             /\ Len(Append(heard[s], n)) = Len(heard[s]) + 1
             /\ \A i \in 1..Len(heard[s]) : Append(heard[s], n)[i] = heard[s][i]
             /\ Append(heard[s], n)[Len(heard[s]) + 1] = n
  BY <1>4, AppendAt DEF TypeOK
<1>8. TypeOK'
  <2>1. heard' \in [Sockets -> Seq(Nat)]
    BY <1>1, <1>7 DEF TypeOK
  <2>2. inbox' \in [Processes -> Seq(Nat)]
    BY <1>1, <1>3 DEF TypeOK
  <2> QED BY <1>1, <2>1, <2>2 DEF TypeOK
<1>9. InOwnRoom'
  BY <1>1 DEF InOwnRoom
<1>10. ASSUME NEW s \in Sockets, NEW i \in 1..Len(heard'[s])
       PROVE  \/ i \in 1..Len(heard[s]) /\ heard'[s][i] = heard[s][i]
              \/ /\ i = Len(heard[s]) + 1 /\ heard'[s][i] = n
                 /\ place[s] = p /\ emitted[n] \in rooms[s]
  BY <1>6, <1>7 DEF Members
<1>11. ASSUME NEW s \in Sockets, place[s] = p, NEW i \in 1..Len(heard[s])
       PROVE  heard[s][i] < n /\ heard[s][i] \in Nat
  <2>1. 1 \in 1..Len(inbox[p])
    BY <1>3
  <2>2. Within(heard[s], Len(emitted)) /\ Len(emitted) \in Nat
    BY LenProperties DEF Ahead, TypeOK
  <2>3. Before(heard[s], inbox[p])
    BY <1>11 DEF Ahead
  <2>4. heard[s][i] < inbox[p][1]
    BY <2>1, <2>3 DEF Before
  <2>5. heard[s][i] \in 1..Len(emitted)
    BY <2>2 DEF Within
  <2> QED BY <1>3, <2>2, <2>4, <2>5
<1>12. ASSUME NEW j \in 1..Len(Tail(inbox[p]))
       PROVE  n < Tail(inbox[p])[j] /\ j + 1 \in 1..Len(inbox[p])
  <2>1. Sorted(inbox[p])
    BY DEF Ahead, Before
  <2> QED BY <1>3, <2>1 DEF Sorted
<1>13. Ahead'
  <2>1. ASSUME NEW q \in Processes
        PROVE  Sorted(inbox'[q]) /\ Within(inbox'[q], Len(emitted'))
    <3>1. Sorted(inbox[q]) /\ Within(inbox[q], Len(emitted))
      BY DEF Ahead, Before
    <3>2. CASE q = p
      <4>1. Sorted(Tail(inbox[p]))
        BY <1>1, <1>2, <3>1, <3>2, TailSorted
      <4>2. Within(Tail(inbox[p]), Len(emitted))
        BY <1>3, <3>1, <3>2, <1>12 DEF Within
      <4> QED BY <1>1, <1>5, <3>2, <4>1, <4>2 DEF Within
    <3>3. CASE q # p
      BY <1>1, <1>5, <3>1, <3>3 DEF Within
    <3> QED BY <3>2, <3>3
  <2>2. ASSUME NEW s \in Sockets
        PROVE  Within(heard'[s], Len(emitted'))
    <3>1. Within(heard[s], Len(emitted))
      BY DEF Ahead, Before
    <3> QED BY <1>1, <1>4, <1>10, <3>1 DEF Within
  <2>3. ASSUME NEW s \in Sockets, NEW q \in Processes, place[s] = q,
               NEW i \in 1..Len(heard'[s]), NEW j \in 1..Len(inbox'[q])
        PROVE  heard'[s][i] < inbox'[q][j]
    <3>1. CASE q = p
      <4>1. n < inbox'[p][j] /\ inbox'[p][j] \in Nat
        <5>1. j \in 1..Len(Tail(inbox[p]))
          BY <1>5, <2>3, <3>1
        <5>2. Tail(inbox[p])[j] \in Nat
          BY <1>3, <5>1, ElementOfSeq
        <5> QED BY <1>5, <1>12, <5>1, <5>2
      <4>2. heard'[s][i] = n \/ (heard'[s][i] < n /\ heard'[s][i] \in Nat)
        BY <1>10, <1>11, <2>3, <3>1
      <4> QED BY <1>4, <3>1, <4>1, <4>2
    <3>2. CASE q # p
      <4>1. heard'[s][i] = heard[s][i] /\ i \in 1..Len(heard[s])
        BY <1>10, <2>3, <3>2
      <4> QED BY <1>5, <2>3, <3>2, <4>1 DEF Ahead, Before
    <3> QED BY <3>1, <3>2
  <2> QED BY <1>1, <2>1, <2>2, <2>3 DEF Ahead, Before
<1>14. OnlyOwnersHear'
  BY <1>1, <1>10 DEF OnlyOwnersHear, InOwnRoom
<1>15. HeardInOrder'
  <2>1. ASSUME NEW s \in Sockets, NEW i \in 1..Len(heard'[s]),
               NEW j \in 1..Len(heard'[s]), i < j
        PROVE  heard'[s][i] < heard'[s][j]
    <3>1. Len(heard[s]) \in Nat
      BY <1>7
    <3>2. i \in 1..Len(heard[s]) /\ heard'[s][i] = heard[s][i]
      BY <1>6, <1>7, <1>10, <2>1, <3>1
    <3>3. CASE j \in 1..Len(heard[s]) /\ heard'[s][j] = heard[s][j]
      BY <2>1, <3>2, <3>3 DEF HeardInOrder
    <3>4. CASE heard'[s][j] = n /\ place[s] = p
      BY <1>11, <3>2, <3>4
    <3> QED BY <1>10, <3>3, <3>4
  <2> QED BY <2>1 DEF HeardInOrder
<1> QED BY <1>8, <1>9, <1>13, <1>14, <1>15

LEMMA RoomStep ==
  ASSUME Invariant, [Next]_vars
  PROVE  Invariant'
<1> USE RoomConstants
<1>0. TypeOK
  BY DEF Invariant
<1>1. ASSUME NEW s \in Sockets, Disconnect(s)
      PROVE  Invariant'
  <2>1. Fewer
    BY <1>0, <1>1, LeaveIsFewer DEF Disconnect
  <2> QED BY <1>0, <1>1, <2>1, QuietStep DEF Disconnect, processes, TypeOK
<1>2. ASSUME NEW p \in Processes, Boot(p) \/ Subscribe(p) \/ LoseRedis(p)
      PROVE  Invariant'
  <2>1. Fewer
    BY <1>0, <1>2, StayIsFewer DEF Boot, Subscribe, LoseRedis
  <2>2. status' \in [Processes -> {"down", "alone", "subscribed"}]
    BY <1>0, <1>2 DEF Boot, Subscribe, LoseRedis, TypeOK
  <2>3. inbox' = inbox \/ inbox' = [inbox EXCEPT ![p] = <<>>]
    BY <1>2 DEF Boot, Subscribe, LoseRedis
  <2>4. /\ inbox' \in [Processes -> Seq(Nat)]
        /\ \A q \in Processes : inbox'[q] = inbox[q] \/ inbox'[q] = <<>>
    <3>1. inbox \in [Processes -> Seq(Nat)]
      BY <1>0 DEF TypeOK
    <3>2. <<>> \in Seq(Nat)
      BY EmptyAt
    <3>3. CASE inbox' = inbox
      BY <3>1, <3>3
    <3>4. CASE inbox' = [inbox EXCEPT ![p] = <<>>]
      BY <3>1, <3>2, <3>4
    <3> QED BY <2>3, <3>3, <3>4
  <2>5. UNCHANGED <<emitted, now>>
    BY <1>2 DEF Boot, Subscribe, LoseRedis
  <2> QED BY <1>0, <2>1, <2>2, <2>4, <2>5, QuietStep DEF TypeOK
<1>3. ASSUME NEW p \in Processes, Crash(p)
      PROVE  Invariant'
  <2>1. Fewer
    BY <1>0, <1>3, LeaveIsFewer DEF Crash
  <2>2. /\ inbox' \in [Processes -> Seq(Nat)]
        /\ \A q \in Processes : inbox'[q] = inbox[q] \/ inbox'[q] = <<>>
    BY <1>0, <1>3, EmptyAt DEF Crash, TypeOK
  <2> QED BY <1>0, <1>3, <2>1, <2>2, QuietStep DEF Crash, TypeOK
<1>4. CASE Tick
  <2>1. Fewer
    BY <1>0, <1>4, StayIsFewer DEF Tick
  <2> QED BY <1>0, <1>4, <2>1, QuietStep DEF Tick, processes, TypeOK
<1>5. CASE UNCHANGED vars
  <2>1. Fewer
    BY <1>0, <1>5, StayIsFewer DEF vars, sockets
  <2> QED BY <1>0, <1>5, <2>1, QuietStep DEF vars, TypeOK
<1> QED BY <1>1, <1>2, <1>3, <1>4, <1>5, ConnectStep, EmitStep, DeliverStep DEF Next

LEMMA RoomInit ==
  ASSUME Init
  PROVE  Invariant
<1> USE RoomConstants, EmptyAt
<1>1. TypeOK
  BY DEF Init, TypeOK, Guest
<1>2. InOwnRoom /\ OnlyOwnersHear /\ HeardInOrder
  BY DEF Init, InOwnRoom, OnlyOwnersHear, HeardInOrder
<1>3. Ahead
  BY DEF Init, Ahead, Sorted, Within, Before
<1> QED BY <1>1, <1>2, <1>3 DEF Invariant

(* The invariant holds in every reachable state.                            *)
THEOREM RoomInvariantHolds == Spec => []Invariant
<1>1. Init => Invariant
  BY RoomInit
<1>2. Invariant /\ [Next]_vars => Invariant'
  BY RoomStep
<1> QED BY <1>1, <1>2, PTL DEF Spec

(* An event reaches only sockets that shook hands with a live token of the  *)
(* user it is for (event.gateway.ts:21), however slots are used again.      *)
THEOREM OnlyOwners == Spec => []OnlyOwnersHear
<1>1. Invariant => OnlyOwnersHear
  BY DEF Invariant
<1> QED BY <1>1, RoomInvariantHolds, PTL

(* A connection hears events once and in the order they were emitted,       *)
(* whatever the adapter's connection to Redis (redis.adapter.ts:10) loses.  *)
THEOREM InOrder == Spec => []HeardInOrder
<1>1. Invariant => HeardInOrder
  BY DEF Invariant
<1> QED BY <1>1, RoomInvariantHolds, PTL
=============================================================================
