----------------------------- MODULE MailSafety -----------------------------
(* What the mail queue promises.                                            *)
EXTENDS MailQueue

(* The workers about to send the mail of job j.                             *)
Sending(j) == {w \in Workers : task[w].id = j /\ task[w].phase = "send"}

Least(m, n) == IF m <= n THEN m ELSE n

(* A mail goes out once, once more for each time its job stalled, and never *)
(* more than 1 + MaxStalls times, whatever crashes, late workers that have  *)
(* lost their lock and lost SMTP answers do: the methods of MailProcessor   *)
(* catch every error, so nothing else sends a job through again.            *)
MailsBounded ==
  \A j \in Jobs :
    mailed[j] + Cardinality(Sending(j)) <= 1 + Least(stalls[j], MaxStalls)

(* A job that ended, but not by stalling too often, had its mail taken by   *)
(* SMTP or refused by it: 'Done job' never hides a mail that was not tried, *)
(* because each method awaits the sending and every template is given the   *)
(* variables it uses.                                                       *)
EndedWasTried ==
  \A j \in Jobs :
    (place[j] \in Ended /\ stalls[j] <= MaxStalls) =>
       (mailed[j] > 0 \/ j \in refused)

(* A job that has ended stays so, although a worker that lost its lock may  *)
(* finish it a second time and the stalled check may find it meanwhile.     *)
EndIsFinal ==
  [][\A j \in Jobs : place[j] \in Ended => place'[j] = place[j]]_vars

(* The queue as an outbox: a job that ended by stalling was given up.       *)
Stage(where, stalled) ==
  CASE where = "none" -> "none"
    [] where \in {"wait", "active"} -> "due"
    [] OTHER -> IF stalled <= MaxStalls THEN "closed" ELSE "givenUp"

Box == INSTANCE Outbox WITH
  Mails    <- Jobs,
  MaxSends <- 1 + MaxStalls,
  state    <- [j \in Jobs |-> Stage(place[j], stalls[j])],
  tried    <- {j \in Jobs : mailed[j] > 0} \cup refused,
  sent     <- mailed

(* The queue implements the outbox: whatever order lost locks, crashes and  *)
(* late workers finish in, a job is closed at most once, after it was       *)
(* tried, or given up, and goes out 1 + MaxStalls times at most.            *)
ImplementsOutbox == Box!Spec

(* Every job ends: no order of crashes, lost locks and SMTP errors leaves a *)
(* mail waiting for ever, since a method returns whatever SMTP answers.     *)
EveryJobEnds ==
  \A j \in Jobs : place[j] \in {"wait", "active"} ~> place[j] \in Ended

-----------------------------------------------------------------------------
(* The inductive invariant behind the four safety properties.               *)

(* The wait list holds each waiting job once, and nothing else.             *)
WaitListed ==
  /\ \A i \in 1..Len(wait) : place[wait[i]] = "wait"
  /\ \A i, k \in 1..Len(wait) : i # k => wait[i] # wait[k]

(* Only active jobs are locked; a job that was queued has a name.           *)
Placed ==
  \A j \in Jobs : /\ lock[j] # None => place[j] = "active"
                  /\ place[j] # "none" => name[j] \in Names
                  /\ place[j] \in {"none", "wait", "active"} => stalls[j] <= MaxStalls

(* A busy worker is at a job that was queued, and is done with it only      *)
(* after it tried to send.                                                  *)
Busy ==
  \A w \in Workers :
    \/ task[w] = Idle
    \/ /\ task[w].id \in Jobs
       /\ place[task[w].id] # "none"
       /\ task[w].phase \in {"send", "done"}
       /\ task[w].phase = "done" =>
            (mailed[task[w].id] > 0 \/ task[w].id \in refused)

(* Mails sent or about to be sent; a waiting job is due its next one.       *)
Due(where, stalled) ==
  IF where = "none" THEN 0
  ELSE IF where = "wait" THEN stalled
  ELSE 1 + Least(stalled, MaxStalls)

Counted ==
  \A j \in Jobs :
    mailed[j] + Cardinality(Sending(j)) <= Due(place[j], stalls[j])

Invariant ==
  TypeOK /\ WaitListed /\ Placed /\ Busy /\ Counted /\ EndedWasTried
=============================================================================
