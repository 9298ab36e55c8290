----------------------------- MODULE MailProofs -----------------------------
(***************************************************************************)
(* The safety of the mail queue for every number of jobs, workers,         *)
(* processes and stalls: Invariant is inductive, one lemma for each        *)
(* action, and the properties follow.                                      *)
(***************************************************************************)
EXTENDS MailSafety, FiniteSetTheorems, TLAPS

LEMMA ConstantFacts ==
  /\ IsFiniteSet(Workers) /\ Home \in [Workers -> Processes]
  /\ MaxStalls \in Nat /\ MaxJobs \in Nat /\ Jobs \subseteq Nat
  /\ None \notin Jobs /\ None \notin Processes /\ None \notin Names
  BY MailConstants DEF Jobs

LEMMA LeastFacts ==
  ASSUME NEW m \in Nat, NEW n \in Nat
  PROVE  /\ Least(m, n) \in Nat /\ Least(m, n) <= m /\ Least(m, n) <= n
         /\ m <= n => Least(m, n) = m
         /\ m > n => Least(m, n) = n
         /\ m <= n => Least(m, n) <= Least(m + 1, n)
  BY DEF Least

LEMMA DueFacts ==
  ASSUME NEW m \in Nat
  PROVE  /\ \A where : Due(where, m) \in Nat
         /\ Due("none", m) = 0
         /\ Due("wait", m) = m
         /\ \A where : where \notin {"none", "wait"} =>
                        Due(where, m) = 1 + Least(m, MaxStalls)
  BY LeastFacts, ConstantFacts DEF Due

(* Every queued name's template is given the variables it uses.             *)
LEMMA TemplatesRender ==
  ASSUME NEW n \in Names
  PROVE  Renders(n)
<1>1. n \in Queued
  BY MailConstants
<1>2. CASE n = "sendVerifyEmail"
  BY <1>2 DEF Renders, Uses, Context, VerifyEmail
<1>3. CASE n = "sendForgotPasswordEmail"
  BY <1>3 DEF Renders, Uses, Context, ForgotPasswordEmail
<1>4. CASE n = "sendPasswordChangedEmail"
  BY <1>4 DEF Renders, Uses, Context, PasswordChangedEmail
<1>5. CASE n = "sendApproveUserEmail"
  BY <1>5 DEF Renders, Uses, Context, ApproveUserEmail
<1>6. CASE n = "sendRejectUserEmail"
  BY <1>6 DEF Renders, Uses, Context, RejectUserEmail
<1>7. CASE n = "sendTestEmail"
  BY <1>7 DEF Renders, Uses, Context, TestEmail
<1> QED BY <1>1, <1>2, <1>3, <1>4, <1>5, <1>6, <1>7 DEF Queued

-----------------------------------------------------------------------------
(* How the set of workers about to send a mail changes.                     *)

LEMMA SendingFinite ==
  ASSUME NEW j \in Jobs
  PROVE  IsFiniteSet(Sending(j)) /\ Cardinality(Sending(j)) \in Nat
<1>1. IsFiniteSet(Sending(j))
  BY ConstantFacts, FS_Subset DEF Sending
<1> QED BY <1>1, FS_CardinalityType

LEMMA SendingSame ==
  ASSUME NEW j \in Jobs, Sending(j)' = Sending(j)
  PROVE  Cardinality(Sending(j))' = Cardinality(Sending(j))
<1>1. Cardinality(Sending(j))' = Cardinality(Sending(j)')
  OBVIOUS
<1> QED BY <1>1

LEMMA SendingAdds ==
  ASSUME NEW j \in Jobs, NEW w \in Workers, Sending(j)' = Sending(j) \cup {w}
  PROVE  /\ Cardinality(Sending(j))' <= Cardinality(Sending(j)) + 1
         /\ Cardinality(Sending(j))' \in Nat
<1>1. Cardinality(Sending(j))' = Cardinality(Sending(j) \cup {w})
  OBVIOUS
<1>2. IsFiniteSet(Sending(j)) /\ Cardinality(Sending(j)) \in Nat
  BY SendingFinite
<1>3. Cardinality(Sending(j) \cup {w}) =
        IF w \in Sending(j) THEN Cardinality(Sending(j)) ELSE Cardinality(Sending(j)) + 1
  BY <1>2, FS_AddElement
<1> QED BY <1>1, <1>2, <1>3

LEMMA SendingLoses ==
  ASSUME NEW j \in Jobs, NEW w \in Sending(j), Sending(j)' = Sending(j) \ {w}
  PROVE  Cardinality(Sending(j))' = Cardinality(Sending(j)) - 1
<1>1. Cardinality(Sending(j))' = Cardinality(Sending(j) \ {w})
  OBVIOUS
<1>2. IsFiniteSet(Sending(j))
  BY SendingFinite
<1> QED BY <1>1, <1>2, FS_RemoveElement

LEMMA SendingShrinks ==
  ASSUME NEW j \in Jobs, Sending(j)' \subseteq Sending(j)
  PROVE  /\ Cardinality(Sending(j))' <= Cardinality(Sending(j))
         /\ Cardinality(Sending(j))' \in Nat
<1>1. IsFiniteSet(Sending(j)') /\ Cardinality(Sending(j)') <= Cardinality(Sending(j))
  BY SendingFinite, FS_Subset
<1>2. Cardinality(Sending(j)') \in Nat
  BY <1>1, FS_CardinalityType
<1> QED BY <1>1, <1>2

-----------------------------------------------------------------------------
LEMMA InitHolds == Init => Invariant
<1> SUFFICES ASSUME Init PROVE Invariant
  OBVIOUS
<1> USE ConstantFacts
<1>1. TypeOK
  BY DEF Init, TypeOK, Idle, Ended
<1>2. WaitListed /\ Placed /\ Busy /\ EndedWasTried
  BY DEF Init, WaitListed, Placed, Busy, EndedWasTried, Ended, Idle
<1>3. ASSUME NEW j \in Jobs PROVE mailed[j] + Cardinality(Sending(j)) <= Due(place[j], stalls[j])
  <2>1. Sending(j) = {}
    BY DEF Init, Sending, Idle
  <2> QED BY <2>1, FS_EmptySet DEF Init, Due
<1> QED BY <1>1, <1>2, <1>3 DEF Invariant, Counted

LEMMA AddHolds ==
  ASSUME Invariant, NEW n \in Names, Add(n)
  PROVE  Invariant'
<1> USE ConstantFacts
<1>1. PICK j \in Jobs :
        /\ place[j] = "none"
        /\ name' = [name EXCEPT ![j] = n]
        /\ wait' = Append(wait, j)
        /\ place' = [place EXCEPT ![j] = "wait"]
        /\ UNCHANGED <<lock, stalls, task, mailed, refused>>
  BY DEF Add
<1>2. TypeOK'
  BY <1>1 DEF Invariant, TypeOK, Ended
<1>3. WaitListed'
  <2>1. /\ Len(wait') = Len(wait) + 1 /\ wait'[Len(wait) + 1] = j
        /\ \A i \in 1..Len(wait) : wait'[i] = wait[i] /\ wait[i] \in Jobs
        /\ Len(wait) \in Nat
    BY <1>1 DEF Invariant, TypeOK
  <2>2. \A i \in 1..Len(wait) : wait[i] # j
    BY <1>1 DEF Invariant, WaitListed
  <2>3. \A i \in 1..(Len(wait) + 1) : i \in 1..Len(wait) \/ i = Len(wait) + 1
    BY <2>1
  <2>4. \A i \in 1..Len(wait) : place'[wait[i]] = "wait"
    BY <1>1, <2>1, <2>2 DEF Invariant, WaitListed, TypeOK
  <2>5. place'[j] = "wait"
    BY <1>1 DEF Invariant, TypeOK
  <2> QED BY <2>1, <2>2, <2>3, <2>4, <2>5 DEF Invariant, WaitListed
<1>4. Placed'
  BY <1>1 DEF Invariant, Placed, TypeOK
<1>5. Busy' /\ EndedWasTried'
  BY <1>1 DEF Invariant, Busy, EndedWasTried, TypeOK, Ended
<1>6. Counted'
  <2> SUFFICES ASSUME NEW i \in Jobs
               PROVE  mailed'[i] + Cardinality(Sending(i))' <= Due(place'[i], stalls'[i])
    BY DEF Counted
  <2>1. Sending(i)' = Sending(i)
    BY <1>1 DEF Sending
  <2>2. stalls[i] \in Nat /\ stalls'[i] = stalls[i]
    BY <1>1 DEF Invariant, TypeOK
  <2>3. Due(place[i], stalls[i]) <= Due(place'[i], stalls'[i])
    BY <1>1, <2>2, DueFacts DEF Invariant, TypeOK
  <2>4. mailed[i] + Cardinality(Sending(i)) <= Due(place[i], stalls[i]) /\ mailed[i] \in Nat
    BY DEF Invariant, Counted, TypeOK
  <2> QED BY <1>1, <2>1, <2>2, <2>3, <2>4, SendingSame, SendingFinite, DueFacts
<1> QED BY <1>2, <1>3, <1>4, <1>5, <1>6 DEF Invariant

LEMMA TakeHolds ==
  ASSUME Invariant, NEW w \in Workers, Take(w)
  PROVE  Invariant'
<1> USE ConstantFacts
<1> DEFINE h == Head(wait)
<1>1. /\ h \in Jobs /\ Len(wait) \in Nat /\ Len(wait) > 0 /\ h = wait[1]
      /\ wait' \in Seq(Jobs) /\ Len(wait') = Len(wait) - 1
      /\ \A i \in 1..Len(wait') : wait'[i] = wait[i + 1] /\ i + 1 \in 1..Len(wait)
                                 /\ wait[i + 1] \in Jobs
  BY DEF Take, Invariant, TypeOK
<1>2. place[h] = "wait" /\ \A i \in 1..Len(wait') : wait'[i] # h
  BY <1>1 DEF Invariant, WaitListed
<1>3. /\ place' = [place EXCEPT ![h] = "active"]
      /\ lock' = [lock EXCEPT ![h] = Home[w]]
      /\ task' = [task EXCEPT ![w] = [id |-> h, phase |-> "send"]]
      /\ UNCHANGED <<name, stalls, mailed, refused>>
      /\ task[w] = Idle
  BY DEF Take
<1> HIDE DEF h
<1>4. TypeOK'
  BY <1>1, <1>3 DEF Invariant, TypeOK, Ended
<1>5. WaitListed'
  <2>1. \A i \in 1..Len(wait') : place'[wait'[i]] = "wait"
    BY <1>1, <1>2, <1>3 DEF Invariant, WaitListed, TypeOK
  <2>2. \A i, k \in 1..Len(wait') : i # k => wait'[i] # wait'[k]
    BY <1>1 DEF Invariant, WaitListed
  <2> QED BY <2>1, <2>2 DEF WaitListed
<1>6. Placed'
  BY <1>1, <1>2, <1>3 DEF Invariant, Placed, TypeOK
<1>7. Busy' /\ EndedWasTried'
  BY <1>1, <1>2, <1>3 DEF Invariant, Busy, EndedWasTried, TypeOK, Ended
<1>8. Counted'
  <2> SUFFICES ASSUME NEW i \in Jobs
               PROVE  mailed'[i] + Cardinality(Sending(i))' <= Due(place'[i], stalls'[i])
    BY DEF Counted
  <2>1. mailed[i] + Cardinality(Sending(i)) <= Due(place[i], stalls[i]) /\ mailed[i] \in Nat
    BY DEF Invariant, Counted, TypeOK
  <2>2. CASE i = h
    <3>1. Sending(i)' = Sending(i) \cup {w}
      BY <1>1, <1>3, <2>2 DEF Sending, Invariant, TypeOK, Idle
    <3>2. stalls[i] \in Nat /\ stalls[i] <= MaxStalls /\ place'[i] = "active"
      BY <1>1, <1>2, <1>3, <2>2 DEF Invariant, TypeOK, Placed
    <3>3. Due("wait", stalls[i]) = stalls[i]
      BY <3>2, DueFacts
    <3>4. Due("active", stalls[i]) = 1 + stalls[i]
      BY <3>2, LeastFacts DEF Due
    <3>5. /\ Cardinality(Sending(i))' <= Cardinality(Sending(i)) + 1
          /\ Cardinality(Sending(i))' \in Nat
      BY <3>1, SendingAdds
    <3> QED BY <1>2, <1>3, <2>1, <2>2, <3>2, <3>3, <3>4, <3>5, SendingFinite
  <2>3. CASE i # h
    <3>1. Sending(i)' = Sending(i)
      BY <1>1, <1>3, <2>3 DEF Sending, Invariant, TypeOK, Idle
    <3>2. Due(place'[i], stalls'[i]) = Due(place[i], stalls[i])
      BY <1>1, <1>3, <2>3 DEF Invariant, TypeOK, Due
    <3> QED BY <1>3, <2>1, <3>1, <3>2, SendingSame
  <2> QED BY <2>2, <2>3
<1> QED BY <1>4, <1>5, <1>6, <1>7, <1>8 DEF Invariant

(* What Send and Refuse have in common.                                     *)
LEMMA HandledHolds ==
  ASSUME Invariant, NEW w \in Workers, Handled(w),
         refused \subseteq refused', refused' \subseteq Jobs,
         mailed' \in {mailed, [mailed EXCEPT ![task[w].id] = @ + 1]},
         mailed'[task[w].id] > 0 \/ task[w].id \in refused',
         UNCHANGED <<name, wait, place, lock, stalls>>
  PROVE  Invariant'
<1> USE ConstantFacts
<1> DEFINE j == task[w].id
<1>1. j \in Jobs /\ place[j] # "none" /\ w \in Sending(j)
  BY DEF Handled, Invariant, Busy, Idle, Sending
<1>2. task' = [task EXCEPT ![w].phase = "done"]
  BY DEF Handled
<1>3. /\ mailed' \in [Jobs -> Nat] /\ mailed'[j] <= mailed[j] + 1
      /\ \A i \in Jobs : mailed'[i] >= mailed[i] /\ (i # j => mailed'[i] = mailed[i])
  <2>1. mailed \in [Jobs -> Nat] /\ mailed[j] \in Nat
    BY <1>1 DEF Invariant, TypeOK
  <2>2. CASE mailed' = mailed
    BY <2>1, <2>2
  <2>3. CASE mailed' = [mailed EXCEPT ![j] = @ + 1]
    BY <1>1, <2>1, <2>3
  <2> QED BY <2>2, <2>3
<1>4. task'[w] = [id |-> j, phase |-> "done"]
  BY <1>2 DEF Invariant, TypeOK
<1> HIDE DEF j
<1>5. TypeOK'
  <2>1. task' \in [Workers -> [id : Jobs \cup {None}, phase : {"idle", "send", "done"}]]
    BY <1>1, <1>2, <1>4 DEF Invariant, TypeOK
  <2> QED BY <1>3, <2>1 DEF Invariant, TypeOK
<1>6. WaitListed' /\ Placed'
  BY DEF Invariant, WaitListed, Placed
<1>7. EndedWasTried'
  BY <1>3 DEF Invariant, TypeOK, EndedWasTried
<1>8. Busy'
  <2> SUFFICES ASSUME NEW v \in Workers
               PROVE  \/ task'[v] = Idle
                      \/ /\ task'[v].id \in Jobs
                         /\ place'[task'[v].id] # "none"
                         /\ task'[v].phase \in {"send", "done"}
                         /\ task'[v].phase = "done" =>
                              (mailed'[task'[v].id] > 0 \/ task'[v].id \in refused')
    BY DEF Busy
  <2>1. CASE v = w
    BY <1>1, <1>4, <2>1 DEF j
  <2>2. CASE v # w
    BY <1>2, <1>3, <2>2 DEF Invariant, TypeOK, Busy
  <2> QED BY <2>1, <2>2
<1>9. Counted'
  <2> SUFFICES ASSUME NEW i \in Jobs
               PROVE  mailed'[i] + Cardinality(Sending(i))' <= Due(place'[i], stalls'[i])
    BY DEF Counted
  <2>1. /\ mailed[i] + Cardinality(Sending(i)) <= Due(place[i], stalls[i])
        /\ mailed[i] \in Nat /\ mailed'[i] \in Nat
        /\ Due(place'[i], stalls'[i]) = Due(place[i], stalls[i])
        /\ Due(place[i], stalls[i]) \in Nat
    BY <1>3, DueFacts DEF Invariant, Counted, TypeOK
  <2>2. CASE i = j
    <3>1. Sending(i)' = Sending(i) \ {w}
      BY <1>1, <1>2, <2>2 DEF Sending, Invariant, TypeOK
    <3>2. Cardinality(Sending(i))' = Cardinality(Sending(i)) - 1
      BY <1>1, <2>2, <3>1, SendingLoses
    <3>3. mailed'[i] <= mailed[i] + 1 /\ Cardinality(Sending(i)) \in Nat
      BY <1>3, <2>2, SendingFinite
    <3> QED BY <2>1, <3>2, <3>3
  <2>3. CASE i # j
    <3>1. Sending(i)' = Sending(i)
      BY <1>2, <2>3 DEF Sending, Invariant, TypeOK, j
    <3> QED BY <1>3, <2>1, <2>3, <3>1, SendingSame
  <2> QED BY <2>2, <2>3
<1> QED BY <1>5, <1>6, <1>7, <1>8, <1>9 DEF Invariant

LEMMA SendHolds ==
  ASSUME Invariant, NEW w \in Workers, Send(w)
  PROVE  Invariant'
<1> DEFINE j == task[w].id
<1>1. j \in Jobs /\ name[j] \in Names
  BY DEF Send, Handled, Invariant, Busy, Placed, Idle
<1>2. Renders(name[j])
  BY <1>1, TemplatesRender
<1>3. mailed' = [mailed EXCEPT ![j] = @ + 1] /\ mailed[j] \in Nat
  BY <1>1, <1>2 DEF Send, Invariant, TypeOK
<1>4. mailed'[j] > 0
  BY <1>1, <1>3 DEF Invariant, TypeOK
<1>5. refused' \subseteq Jobs /\ refused \subseteq refused'
  BY DEF Send, Invariant, TypeOK
<1> QED BY <1>3, <1>4, <1>5, HandledHolds DEF Send

LEMMA RefuseHolds ==
  ASSUME Invariant, NEW w \in Workers, Refuse(w)
  PROVE  Invariant'
<1> DEFINE j == task[w].id
<1>1. j \in Jobs
  BY DEF Refuse, Handled, Invariant, Busy, Idle
<1>2. refused' \subseteq Jobs /\ refused \subseteq refused' /\ j \in refused'
  BY <1>1 DEF Refuse, Invariant, TypeOK
<1> QED BY <1>2, HandledHolds DEF Refuse

LEMMA FinishHolds ==
  ASSUME Invariant, NEW w \in Workers, Finish(w)
  PROVE  Invariant'
<1> USE ConstantFacts
<1> DEFINE j == task[w].id
<1>1. /\ j \in Jobs /\ task[w].phase = "done"
      /\ mailed[j] > 0 \/ j \in refused
  BY DEF Finish, Invariant, Busy, Idle
<1>2. /\ task' = [task EXCEPT ![w] = Idle]
      /\ UNCHANGED <<name, wait, stalls, mailed, refused>>
  BY DEF Finish
<1>3. ASSUME NEW i \in Jobs PROVE Sending(i)' = Sending(i)
  BY <1>1, <1>2 DEF Sending, Invariant, TypeOK, Idle
<1> HIDE DEF j
<1>4. CASE UNCHANGED <<place, lock>>
  <2>1. TypeOK' /\ Busy'
    BY <1>2, <1>4 DEF Invariant, TypeOK, Busy, Idle
  <2>2. WaitListed' /\ Placed' /\ EndedWasTried'
    BY <1>2, <1>4 DEF Invariant, WaitListed, Placed, EndedWasTried
  <2>3. Counted'
    BY <1>2, <1>3, <1>4, SendingSame DEF Invariant, Counted
  <2> QED BY <2>1, <2>2, <2>3 DEF Invariant
<1>5. ASSUME NEW end \in Ended, lock[j] = Home[w],
             lock' = [lock EXCEPT ![j] = None],
             place' = [place EXCEPT ![j] = end]
      PROVE  Invariant'
  <2>1. place[j] = "active" /\ stalls[j] <= MaxStalls
    BY <1>1, <1>5 DEF Invariant, Placed
  <2>2. TypeOK'
    BY <1>1, <1>2, <1>5 DEF Invariant, TypeOK, Idle, Ended
  <2>3. WaitListed'
    <3>1. \A i \in 1..Len(wait) : wait[i] # j /\ wait[i] \in Jobs
      BY <2>1 DEF Invariant, WaitListed, TypeOK
    <3> QED BY <1>2, <1>5, <3>1 DEF Invariant, WaitListed, TypeOK
  <2>4. Placed'
    BY <1>1, <1>2, <1>5, <2>1 DEF Invariant, Placed, TypeOK, Ended
  <2>5. Busy'
    BY <1>1, <1>2, <1>5 DEF Invariant, Busy, TypeOK, Ended
  <2>6. EndedWasTried'
    BY <1>1, <1>2, <1>5 DEF Invariant, EndedWasTried, TypeOK
  <2>7. Counted'
    <3> SUFFICES ASSUME NEW i \in Jobs
                 PROVE  mailed'[i] + Cardinality(Sending(i))' <= Due(place'[i], stalls'[i])
      BY DEF Counted
    <3>1. mailed[i] + Cardinality(Sending(i)) <= Due(place[i], stalls[i])
      BY DEF Invariant, Counted
    <3>2. Due(place'[i], stalls'[i]) = Due(place[i], stalls[i])
      BY <1>1, <1>2, <1>5, <2>1 DEF Due, Ended, Invariant, TypeOK
    <3> QED BY <1>2, <1>3, <3>1, <3>2, SendingSame
  <2> QED BY <2>2, <2>3, <2>4, <2>5, <2>6, <2>7 DEF Invariant
<1> QED BY <1>4, <1>5 DEF Finish, j

LEMMA LockLostHolds ==
  ASSUME Invariant, NEW j \in Jobs, LockLost(j)
  PROVE  Invariant'
<1>1. TypeOK' /\ Placed'
  BY DEF LockLost, Invariant, TypeOK, Placed
<1>2. WaitListed' /\ Busy' /\ EndedWasTried'
  BY DEF LockLost, Invariant, WaitListed, Busy, EndedWasTried
<1>3. ASSUME NEW i \in Jobs PROVE Sending(i)' = Sending(i)
  BY DEF LockLost, Sending
<1>4. Counted'
  BY <1>3, SendingSame DEF LockLost, Invariant, Counted
<1> QED BY <1>1, <1>2, <1>4 DEF Invariant

LEMMA StallHolds ==
  ASSUME Invariant, NEW j \in Jobs, Stall(j)
  PROVE  Invariant'
<1> USE ConstantFacts
<1>1. /\ place[j] = "active" /\ lock[j] = None
      /\ stalls' = [stalls EXCEPT ![j] = @ + 1]
      /\ UNCHANGED <<name, lock, task, mailed, refused>>
  BY DEF Stall
<1>2. stalls[j] \in Nat /\ stalls[j] <= MaxStalls /\ stalls[j] + 1 \in 0..(MaxStalls + 1)
  BY <1>1 DEF Invariant, TypeOK, Placed
<1>3. stalls'[j] = stalls[j] + 1 /\ \A i \in Jobs : i # j => stalls'[i] = stalls[i]
  BY <1>1 DEF Invariant, TypeOK
<1>4. \A i \in 1..Len(wait) : wait[i] # j /\ wait[i] \in Jobs
  BY <1>1 DEF Invariant, WaitListed, TypeOK
<1>5. ASSUME NEW i \in Jobs PROVE Sending(i)' = Sending(i)
  BY <1>1 DEF Sending
<1>6. ASSUME NEW where \in {"wait", "failed"},
             place' = [place EXCEPT ![j] = where],
             where = "wait" => stalls[j] < MaxStalls,
             where = "failed" => ~ (stalls[j] < MaxStalls)
      PROVE  Placed' /\ Busy' /\ EndedWasTried' /\ Counted'
  <2>1. Placed'
    BY <1>1, <1>2, <1>3, <1>6 DEF Invariant, Placed, TypeOK
  <2>2. Busy'
    BY <1>1, <1>6 DEF Invariant, Busy, TypeOK
  <2>3. EndedWasTried'
    BY <1>1, <1>2, <1>3, <1>6 DEF Invariant, EndedWasTried, TypeOK, Ended
  <2>4. Counted'
    <3> SUFFICES ASSUME NEW i \in Jobs
                 PROVE  mailed'[i] + Cardinality(Sending(i))' <= Due(place'[i], stalls'[i])
      BY DEF Counted
    <3>1. mailed[i] + Cardinality(Sending(i)) <= Due(place[i], stalls[i])
      BY DEF Invariant, Counted
    <3>2. CASE i # j
      <4>1. place'[i] = place[i] /\ stalls'[i] = stalls[i] /\ mailed'[i] = mailed[i]
        BY <1>1, <1>3, <1>6, <3>2 DEF Invariant, TypeOK
      <4> QED BY <1>5, <3>1, <4>1, SendingSame
    <3>3. CASE i = j
      <4>1. Due(place[i], stalls[i]) = 1 + stalls[i]
        BY <1>1, <1>2, <3>3, LeastFacts DEF Due
      <4>2. Due(place'[i], stalls'[i]) >= 1 + stalls[i]
        BY <1>2, <1>3, <1>6, <3>3, <4>1 DEF Due, Least, Invariant, TypeOK
      <4>3. Due(place'[i], stalls'[i]) \in Nat
        BY <1>2, <1>3, <3>3, DueFacts
      <4>4. mailed[i] \in Nat /\ Cardinality(Sending(i)) \in Nat
        BY SendingFinite DEF Invariant, TypeOK
      <4>5. mailed'[i] + Cardinality(Sending(i))' = mailed[i] + Cardinality(Sending(i))
        BY <1>1, <1>5, SendingSame
      <4> QED BY <1>2, <3>1, <3>3, <4>1, <4>2, <4>3, <4>4, <4>5
    <3> QED BY <3>2, <3>3
  <2> QED BY <2>1, <2>2, <2>3, <2>4
<1>7. CASE stalls[j] < MaxStalls
  <2>1. place' = [place EXCEPT ![j] = "wait"] /\ wait' = <<j>> \o wait
    BY <1>7 DEF Stall
  <2>2. /\ Len(wait') = Len(wait) + 1 /\ wait'[1] = j /\ wait' \in Seq(Jobs)
        /\ \A i \in 2..Len(wait') : wait'[i] = wait[i - 1] /\ i - 1 \in 1..Len(wait)
        /\ Len(wait) \in Nat
    BY <2>1 DEF Invariant, TypeOK
  <2>3. TypeOK'
    BY <1>1, <1>2, <2>1, <2>2 DEF Invariant, TypeOK
  <2>4. \A i \in 1..Len(wait') : place'[wait'[i]] = "wait"
    <3> SUFFICES ASSUME NEW i \in 1..Len(wait') PROVE place'[wait'[i]] = "wait"
      OBVIOUS
    <3>1. CASE i = 1
      BY <2>1, <2>2, <3>1 DEF Invariant, TypeOK
    <3>2. CASE i # 1
      BY <1>4, <2>1, <2>2, <3>2 DEF Invariant, WaitListed, TypeOK
    <3> QED BY <3>1, <3>2
  <2>5. \A i, k \in 1..Len(wait') : i # k => wait'[i] # wait'[k]
    BY <1>4, <2>2 DEF Invariant, WaitListed
  <2>6. WaitListed'
    BY <2>4, <2>5 DEF WaitListed
  <2> QED BY <1>6, <1>7, <2>1, <2>3, <2>6 DEF Invariant
<1>8. CASE ~ (stalls[j] < MaxStalls)
  <2>1. place' = [place EXCEPT ![j] = "failed"] /\ wait' = wait
    BY <1>8 DEF Stall
  <2>2. TypeOK'
    BY <1>1, <1>2, <2>1 DEF Invariant, TypeOK, Ended
  <2>3. WaitListed'
    BY <1>4, <2>1 DEF Invariant, WaitListed, TypeOK
  <2> QED BY <1>6, <1>8, <2>1, <2>2, <2>3 DEF Invariant
<1> QED BY <1>7, <1>8

LEMMA CrashHolds ==
  ASSUME Invariant, NEW p \in Processes, Crash(p)
  PROVE  Invariant'
<1> USE ConstantFacts
<1>1. /\ task' = [w \in Workers |-> IF Home[w] = p THEN Idle ELSE task[w]]
      /\ UNCHANGED <<name, wait, place, lock, stalls, mailed, refused>>
  BY DEF Crash
<1>2. TypeOK' /\ Busy'
  BY <1>1 DEF Invariant, TypeOK, Busy, Idle
<1>3. WaitListed' /\ Placed' /\ EndedWasTried'
  BY <1>1 DEF Invariant, WaitListed, Placed, EndedWasTried
<1>4. Counted'
  <2> SUFFICES ASSUME NEW i \in Jobs
               PROVE  mailed'[i] + Cardinality(Sending(i))' <= Due(place'[i], stalls'[i])
    BY DEF Counted
  <2>1. Sending(i)' \subseteq Sending(i)
    BY <1>1 DEF Sending, Idle
  <2>2. /\ Cardinality(Sending(i))' <= Cardinality(Sending(i))
        /\ Cardinality(Sending(i))' \in Nat
    BY <2>1, SendingShrinks
  <2>3. /\ mailed[i] + Cardinality(Sending(i)) <= Due(place[i], stalls[i])
        /\ mailed[i] \in Nat /\ Due(place[i], stalls[i]) \in Nat
    BY DueFacts DEF Invariant, Counted, TypeOK
  <2> QED BY <1>1, <2>2, <2>3, SendingFinite
<1> QED BY <1>2, <1>3, <1>4 DEF Invariant

LEMMA NextHolds == Invariant /\ [Next]_vars => Invariant'
<1> SUFFICES ASSUME Invariant, [Next]_vars PROVE Invariant'
  OBVIOUS
<1>1. CASE UNCHANGED vars
  <2>1. ASSUME NEW i \in Jobs PROVE Sending(i)' = Sending(i)
    BY <1>1 DEF vars, Sending
  <2>2. Counted'
    BY <1>1, <2>1, SendingSame DEF vars, Invariant, Counted
  <2>3. TypeOK' /\ WaitListed' /\ Placed' /\ Busy' /\ EndedWasTried'
    BY <1>1 DEF vars, Invariant, TypeOK, WaitListed, Placed, Busy, EndedWasTried
  <2> QED BY <2>2, <2>3 DEF Invariant
<1> QED BY <1>1, AddHolds, TakeHolds, SendHolds, RefuseHolds, FinishHolds,
           LockLostHolds, StallHolds, CrashHolds DEF Next

-----------------------------------------------------------------------------
(* Everything below holds in every reachable state of the mail queue.       *)
THEOREM MailInvariantHolds == Spec => []Invariant
<1> QED BY InitHolds, NextHolds, PTL DEF Spec

(* However often processes crash and locks run out, no mail is sent more    *)
(* often than its job stalled, plus once: the @Process methods never throw. *)
THEOREM MailsAreBounded == Spec => []MailsBounded
<1>1. Invariant => MailsBounded
  <2> SUFFICES ASSUME Invariant, NEW j \in Jobs
               PROVE  mailed[j] + Cardinality(Sending(j)) <= 1 + Least(stalls[j], MaxStalls)
    BY DEF MailsBounded
  <2>1. /\ mailed[j] + Cardinality(Sending(j)) <= Due(place[j], stalls[j])
        /\ mailed[j] \in Nat /\ stalls[j] \in Nat
    BY DEF Invariant, Counted, TypeOK
  <2>2. Cardinality(Sending(j)) \in Nat
    BY SendingFinite
  <2>3. place[j] = "wait" => stalls[j] <= MaxStalls
    BY DEF Invariant, Placed
  <2>4. Due(place[j], stalls[j]) <= 1 + Least(stalls[j], MaxStalls)
    BY <2>1, <2>3, ConstantFacts DEF Due, Least
  <2>5. Due(place[j], stalls[j]) \in Nat /\ Least(stalls[j], MaxStalls) \in Nat
    BY <2>1, DueFacts, LeastFacts, ConstantFacts
  <2> QED BY <2>1, <2>2, <2>4, <2>5
<1> QED BY <1>1, MailInvariantHolds, PTL

(* A job that did not stall too often ends only after its mail was tried.   *)
THEOREM EndedWereTried == Spec => []EndedWasTried
<1>1. Invariant => EndedWasTried
  BY DEF Invariant
<1> QED BY <1>1, MailInvariantHolds, PTL

(* A worker without a lock never brings an ended job back.                  *)
THEOREM EndsAreFinal == Spec => EndIsFinal
<1>1. ASSUME Invariant, [Next]_vars
      PROVE  [\A j \in Jobs : place[j] \in Ended => place'[j] = place[j]]_vars
  <2> SUFFICES ASSUME Next, NEW j \in Jobs, place[j] \in Ended
               PROVE  place'[j] = place[j]
    BY <1>1
  <2>1. ASSUME NEW n \in Names, Add(n) PROVE place'[j] = place[j]
    BY <1>1, <2>1 DEF Add, Invariant, TypeOK, Ended
  <2>2. ASSUME NEW w \in Workers, Take(w) PROVE place'[j] = place[j]
    <3>1. Head(wait) = wait[1] /\ 1 \in 1..Len(wait)
      BY <1>1, <2>2 DEF Take, Invariant, TypeOK
    <3>2. Head(wait) # j
      BY <1>1, <3>1 DEF Invariant, WaitListed, Ended
    <3> QED BY <1>1, <2>2, <3>2 DEF Take, Invariant, TypeOK
  <2>3. ASSUME NEW w \in Workers, Finish(w) PROVE place'[j] = place[j]
    <3>1. task[w].id \in Jobs
      BY <1>1, <2>3 DEF Finish, Invariant, Busy, Idle
    <3>2. lock[task[w].id] = Home[w] => task[w].id # j
      BY <1>1, <3>1, ConstantFacts DEF Invariant, Placed, Ended
    <3> QED BY <1>1, <2>3, <3>1, <3>2 DEF Finish, Invariant, TypeOK
  <2>4. ASSUME NEW i \in Jobs, Stall(i) PROVE place'[j] = place[j]
    BY <1>1, <2>4 DEF Stall, Invariant, TypeOK, Ended
  <2> QED BY <2>1, <2>2, <2>3, <2>4 DEF Next, Send, Refuse, LockLost, Crash
<1> QED BY <1>1, MailInvariantHolds, PTL DEF Spec, EndIsFinal
-----------------------------------------------------------------------------
(* The refinement of the outbox.                                            *)

State == [j \in Jobs |-> Stage(place[j], stalls[j])]
Tried == {j \in Jobs : mailed[j] > 0} \cup refused

LEMMA BoxInit == Init => Box!Init
<1> SUFFICES ASSUME Init PROVE Box!Init
  OBVIOUS
<1>1. /\ State = [j \in Jobs |-> "none"]
      /\ Tried = {}
  BY DEF Init, State, Tried, Stage
<1> QED BY <1>1 DEF Init, Box!Init, State, Tried

(* A step that leaves the stages and the history of attempts alone.         *)
LEMMA BoxStutters ==
  ASSUME UNCHANGED <<mailed, refused>>, State' = State
  PROVE  UNCHANGED Box!vars
BY DEF Box!vars, State

(* A step that moves one mail and no other.                                 *)
LEMMA BoxMoves ==
  ASSUME UNCHANGED <<mailed, refused>>,
         NEW j \in Jobs,
         \A i \in Jobs \ {j} : Stage(place'[i], stalls'[i]) = Stage(place[i], stalls[i]),
         \/ Stage(place[j], stalls[j]) = "none" /\ Stage(place'[j], stalls'[j]) = "due"
         \/ /\ Stage(place[j], stalls[j]) = "due"
            /\ \/ Stage(place'[j], stalls'[j]) = "givenUp"
               \/ Stage(place'[j], stalls'[j]) = "closed" /\ j \in Tried
  PROVE  Box!Next
<1>1. ASSUME NEW from, NEW to, Stage(place[j], stalls[j]) = from,
             Stage(place'[j], stalls'[j]) = to
      PROVE  Box!Move(j, from, to)
  <2>1. State[j] = from /\ State' = [State EXCEPT ![j] = to]
    BY <1>1 DEF State
  <2> QED BY <2>1 DEF Box!Move, State
<1>2. CASE Stage(place[j], stalls[j]) = "none"
  BY <1>1, <1>2 DEF Box!Next, Box!Queue
<1>3. CASE Stage(place'[j], stalls'[j]) = "givenUp"
  BY <1>1, <1>3 DEF Box!Next, Box!GiveUp
<1>4. CASE Stage(place'[j], stalls'[j]) = "closed" /\ Stage(place[j], stalls[j]) = "due"
  <2>1. j \in Tried
    BY <1>4
  <2> QED BY <1>1, <1>4, <2>1 DEF Box!Next, Box!Close, Tried
<1> QED BY <1>2, <1>3, <1>4

(* A worker at job j sends its mail, or SMTP refuses it.                    *)
LEMMA BoxAttempts ==
  ASSUME Invariant, Invariant', NEW w \in Workers, Send(w) \/ Refuse(w)
  PROVE  Box!Next \/ UNCHANGED Box!vars
<1>1. PICK j \in Jobs : /\ task[w].id = j /\ place[j] # "none"
                        /\ UNCHANGED <<place, stalls>>
  BY DEF Send, Refuse, Handled, Invariant, Busy, Idle
<1>2. mailed \in [Jobs -> Nat] /\ refused \subseteq Jobs
  BY DEF Invariant, TypeOK
<1>3. State' = State /\ State[j] # "none"
  BY <1>1 DEF State, Stage, Invariant, TypeOK
<1>4. mailed'[j] <= 1 + MaxStalls
  <2>1. /\ mailed'[j] + Cardinality(Sending(j))' <= Due(place'[j], stalls'[j])
        /\ mailed'[j] \in Nat /\ stalls'[j] \in Nat
    BY <1>1 DEF Invariant, Counted, TypeOK
  <2>2. Cardinality(Sending(j))' \in Nat
    <3>1. IsFiniteSet(Workers)
      BY ConstantFacts
    <3>2. Sending(j)' \subseteq Workers
      BY DEF Sending
    <3> QED BY <3>1, <3>2, FS_Subset, FS_CardinalityType
  <2>3. place'[j] = "wait" => stalls'[j] <= MaxStalls
    BY <1>1 DEF Invariant, Placed
  <2>4. Due(place'[j], stalls'[j]) <= 1 + MaxStalls
    BY <2>1, <2>3, ConstantFacts DEF Due, Least
  <2>5. Due(place'[j], stalls'[j]) \in Nat
    BY <2>1, DueFacts
  <2> QED BY <2>1, <2>2, <2>4, <2>5, ConstantFacts
<1>5. CASE UNCHANGED <<mailed, refused>>
  BY <1>3, <1>5, BoxStutters
<1>6. CASE ~ UNCHANGED <<mailed, refused>>
  <2>1. /\ mailed' = mailed \/ mailed' = [mailed EXCEPT ![j] = @ + 1]
        /\ refused' = refused \/ refused' = refused \cup {j}
    BY <1>1 DEF Send, Refuse
  <2>2. Tried' = Tried \cup {j}
    BY <1>1, <1>2, <1>6, <2>1 DEF Tried
  <2>3. mailed' = [mailed EXCEPT ![j] = @ + 1] => mailed[j] < 1 + MaxStalls
    BY <1>1, <1>2, <1>4, ConstantFacts
  <2>4. Box!Attempt(j)
    BY <1>1, <1>3, <2>1, <2>2, <2>3 DEF Box!Attempt, State, Tried
  <2> QED BY <1>1, <2>4 DEF Box!Next
<1> QED BY <1>5, <1>6

LEMMA BoxStep ==
  ASSUME Invariant, Invariant', [Next]_vars
  PROVE  Box!Next \/ UNCHANGED Box!vars
<1> USE ConstantFacts
<1>1. CASE UNCHANGED <<place, stalls, mailed, refused>>
  BY <1>1, BoxStutters DEF State
<1>2. ASSUME NEW n \in Names, Add(n) PROVE Box!Next
  <2>1. PICK j \in Jobs : /\ place[j] = "none"
                          /\ place' = [place EXCEPT ![j] = "wait"]
                          /\ UNCHANGED <<stalls, mailed, refused>>
    BY <1>2 DEF Add
  <2>2. /\ Stage(place[j], stalls[j]) = "none"
        /\ Stage(place'[j], stalls'[j]) = "due"
        /\ \A i \in Jobs \ {j} : place'[i] = place[i]
    BY <2>1 DEF Stage, Invariant, TypeOK
  <2> QED BY <2>1, <2>2, BoxMoves
<1>3. ASSUME NEW w \in Workers, Take(w) PROVE UNCHANGED Box!vars
  <2>1. Head(wait) \in Jobs /\ place[Head(wait)] = "wait"
    BY <1>3 DEF Take, Invariant, TypeOK, WaitListed
  <2>2. \A i \in Jobs : Stage(place'[i], stalls'[i]) = Stage(place[i], stalls[i])
    BY <1>3, <2>1 DEF Take, Stage, Invariant, TypeOK
  <2> QED BY <1>3, <2>2, BoxStutters DEF Take, State
<1>4. ASSUME NEW w \in Workers, Finish(w) PROVE Box!Next \/ UNCHANGED Box!vars
  <2> DEFINE j == task[w].id
  <2>1. j \in Jobs /\ j \in Tried
    BY <1>4 DEF Finish, Invariant, Busy, Idle, Tried
  <2>2. CASE UNCHANGED place
    BY <1>1, <1>4, <2>2 DEF Finish
  <2>3. CASE ~ UNCHANGED place
    <3>1. lock[j] # None /\ \E end \in Ended : place' = [place EXCEPT ![j] = end]
      BY <1>4, <2>3 DEF Finish
    <3>2. place[j] = "active" /\ stalls[j] <= MaxStalls
      BY <2>1, <3>1 DEF Invariant, Placed
    <3>3. /\ Stage(place[j], stalls[j]) = "due"
          /\ Stage(place'[j], stalls[j]) = "closed"
          /\ \A i \in Jobs \ {j} : place'[i] = place[i]
      BY <2>1, <3>1, <3>2 DEF Stage, Ended, Invariant, TypeOK
    <3> QED BY <1>4, <2>1, <3>3, BoxMoves DEF Finish
  <2> QED BY <2>2, <2>3
<1>5. ASSUME NEW j \in Jobs, Stall(j) PROVE Box!Next \/ UNCHANGED Box!vars
  <2>1. /\ \A i \in Jobs \ {j} : place'[i] = place[i] /\ stalls'[i] = stalls[i]
        /\ Stage(place[j], stalls[j]) = "due" /\ stalls[j] \in Nat
        /\ stalls'[j] = stalls[j] + 1
    BY <1>5 DEF Stall, Stage, Invariant, TypeOK
  <2>2. CASE stalls[j] < MaxStalls
    <3>1. Stage(place'[j], stalls'[j]) = "due"
      BY <1>5, <2>2 DEF Stall, Stage, Invariant, TypeOK
    <3> QED BY <1>5, <2>1, <3>1, BoxStutters DEF Stall, State
  <2>3. CASE ~ (stalls[j] < MaxStalls)
    <3>1. Stage(place'[j], stalls'[j]) = "givenUp"
      BY <1>5, <2>1, <2>3 DEF Stall, Stage, Invariant, TypeOK
    <3> QED BY <1>5, <2>1, <3>1, BoxMoves DEF Stall
  <2> QED BY <2>2, <2>3
<1> QED BY <1>1, <1>2, <1>3, <1>4, <1>5, BoxAttempts
        DEF Next, LockLost, Crash, vars

(* The mail queue, with its lost locks, crashes and late workers, implements *)
(* the outbox: a mail is closed after it was tried or given up for stalling, *)
(* for good, and SMTP takes it at most 1 + maxStalledCount times.            *)
THEOREM QueueIsOutbox == Spec => ImplementsOutbox
<1>1. Init => Box!Init
  BY BoxInit
<1>2. Invariant /\ Invariant' /\ [Next]_vars => [Box!Next]_(Box!vars)
  BY BoxStep
<1> QED BY <1>1, <1>2, MailInvariantHolds, PTL DEF Spec, Box!Spec, ImplementsOutbox
=============================================================================
