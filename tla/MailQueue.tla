------------------------------ MODULE MailQueue ------------------------------
(***************************************************************************)
(* The 'mail' queue: MailService puts a job on it and goes on, and some    *)
(* worker loop of some server process later runs the MailProcessor method  *)
(* of the job's name, which calls MailService again to send the mail.      *)
(*                                                                         *)
(* The queue is Bull on Redis.  A worker holds a lock on its job and       *)
(* renews it; a job whose lock is gone has stalled and goes back to the    *)
(* head of the queue, at most MaxStalls times.  The lock belongs to the    *)
(* process, not to the loop.  A worker that lost its lock does not notice. *)
(*                                                                         *)
(* Definitions headed "Faulty variant" are not part of the model.          *)
(***************************************************************************)
EXTENDS Integers, Sequences, FiniteSets

CONSTANTS
  Processes,  \* server processes connected to the queue
  Workers,    \* worker loops, one per @Process method of each process
  Home,       \* the process of each worker
  Names,      \* names of jobs this instance queues
  MaxJobs,    \* bound of the jobs queued
  MaxStalls,  \* maxStalledCount of Bull
  None        \* no lock, no name

Jobs == 1..MaxJobs

(* The names some operation of the program queues.                          *)
Queued == {"sendVerifyEmail", "sendForgotPasswordEmail",
           "sendPasswordChangedEmail", "sendApproveUserEmail",
           "sendRejectUserEmail", "sendTestEmail"}

ASSUME MailConstants ==
  /\ IsFiniteSet(Workers)
  /\ Home \in [Workers -> Processes]
  /\ Names \subseteq Queued
  /\ MaxJobs \in Nat
  /\ MaxStalls \in Nat
  /\ None \notin Names \cup Processes \cup Nat

VARIABLES
  name,    \* the name of each job
  wait,    \* the wait list; its head is taken next
  place,   \* the list or set of Redis each job is in
  lock,    \* the process that holds the lock of each job
  stalls,  \* stalledCounter of each job
  task,    \* what each worker does
  mailed,  \* history: the mails SMTP took for each job
  refused  \* history: the jobs SMTP answered with an error, or not at all

vars == <<name, wait, place, lock, stalls, task, mailed, refused>>

Ended == {"completed", "failed"}
Idle  == [id |-> None, phase |-> "idle"]

TypeOK ==
  /\ name \in [Jobs -> Names \cup {None}]
  /\ wait \in Seq(Jobs)
  /\ place \in [Jobs -> {"none", "wait", "active"} \cup Ended]
  /\ lock \in [Jobs -> Processes \cup {None}]
  /\ stalls \in [Jobs -> 0..(MaxStalls + 1)]
  /\ task \in [Workers -> [id : Jobs \cup {None}, phase : {"idle", "send", "done"}]]
  /\ mailed \in [Jobs -> Nat]
  /\ refused \subseteq Jobs

Init ==
  /\ name = [j \in Jobs |-> None]
  /\ wait = <<>>
  /\ place = [j \in Jobs |-> "none"]
  /\ lock = [j \in Jobs |-> None]
  /\ stalls = [j \in Jobs |-> 0]
  /\ task = [w \in Workers |-> Idle]
  /\ mailed = [j \in Jobs |-> 0]
  /\ refused = {}

-----------------------------------------------------------------------------
(* The variables each template uses.                                        *)
Uses ==
  [sendVerifyEmail          |-> {"email", "publicLink", "verifyEmailUrl"},
   sendForgotPasswordEmail  |-> {"email", "publicLink", "token", "supportEmail"},
   sendPasswordChangedEmail |-> {"email", "publicLink", "supportEmail"},
   sendApproveUserEmail     |-> {"email", "publicLink", "signInLink"},
   sendRejectUserEmail      |-> {"email", "publicLink", "supportEmail"},
   sendTestEmail            |-> {}]

(* Those each method renders its mail with.                                 *)
VerifyEmail         == {"email", "verifyEmailUrl", "publicLink"}
ForgotPasswordEmail == {"email", "token", "supportEmail", "publicLink"}

(* Faulty variant: a variable is left out.                                  *)
PasswordChangedNoSupport == {"email", "publicLink"}

PasswordChangedEmail == {"email", "supportEmail", "publicLink"}
ApproveUserEmail     == {"email", "signInLink", "supportEmail", "publicLink"}
RejectUserEmail      == {"email", "supportEmail", "publicLink"}
TestEmail            == {"email", "title", "message", "publicLink", "userSettingPage"}

Context ==
  [sendVerifyEmail          |-> VerifyEmail,
   sendForgotPasswordEmail  |-> ForgotPasswordEmail,
   sendPasswordChangedEmail |-> PasswordChangedEmail,
   sendApproveUserEmail     |-> ApproveUserEmail,
   sendRejectUserEmail      |-> RejectUserEmail,
   sendTestEmail            |-> TestEmail]

(* Handlebars is strict: a variable that is missing is an error.            *)
Renders(n) == Uses[n] \subseteq Context[n]

-----------------------------------------------------------------------------
(* send...Job: the job goes to the tail; nobody waits for it to be worked.  *)
Add(n) ==
  \E j \in Jobs :
    /\ place[j] = "none"
    /\ \A i \in Jobs : i < j => place[i] # "none"
    /\ name' = [name EXCEPT ![j] = n]
    /\ wait' = Append(wait, j)
    /\ place' = [place EXCEPT ![j] = "wait"]
    /\ UNCHANGED <<lock, stalls, task, mailed, refused>>

(* An idle loop takes the head, whatever its name, and starts the method.   *)
Take(w) ==
  /\ task[w] = Idle
  /\ wait # <<>>
  /\ wait' = Tail(wait)
  /\ place' = [place EXCEPT ![Head(wait)] = "active"]
  /\ lock' = [lock EXCEPT ![Head(wait)] = Home[w]]
  /\ task' = [task EXCEPT ![w] = [id |-> Head(wait), phase |-> "send"]]
  /\ UNCHANGED <<name, stalls, mailed, refused>>

Handled(w) ==
  /\ task[w].phase = "send"
  /\ task' = [task EXCEPT ![w].phase = "done"]

(* The mail goes out, or its template throws and the method catches that.   *)
Send(w) ==
  LET j == task[w].id IN
  /\ Handled(w)
  /\ mailed' = IF Renders(name[j]) THEN [mailed EXCEPT ![j] = @ + 1] ELSE mailed
  /\ UNCHANGED <<name, wait, place, lock, stalls, refused>>

(* SMTP answers with an error, or takes the mail and the answer is lost;    *)
(* the method catches the error.  nodemailer itself refuses a mail for an   *)
(* account without an e-mail address; that counts as an answer, too.        *)
Refuse(w) ==
  LET j == task[w].id IN
  /\ Handled(w)
  /\ Renders(name[j])
  /\ refused' = refused \cup {j}
  /\ mailed' \in {mailed, [mailed EXCEPT ![j] = @ + 1]}
  /\ UNCHANGED <<name, wait, place, lock, stalls>>

(* Faulty variant: the method throws and the job is tried again.            *)
FinishRetries(w) ==
  LET j == task[w].id IN
  /\ task[w].phase = "done"
  /\ task' = [task EXCEPT ![w] = Idle]
  /\ \/ /\ lock[j] = Home[w]
        /\ lock' = [lock EXCEPT ![j] = None]
        /\ IF j \in refused
           THEN /\ place' = [place EXCEPT ![j] = "wait"]
                /\ wait' = Append(wait, j)
           ELSE /\ place' = [place EXCEPT ![j] = "completed"]
                /\ UNCHANGED wait
     \/ UNCHANGED <<place, lock, wait>>
  /\ UNCHANGED <<name, stalls, mailed, refused>>

(* Faulty variant: the job is finished whoever holds its lock.              *)
FinishUnlocked(w) ==
  LET j == task[w].id IN
  /\ task[w].phase = "done"
  /\ task' = [task EXCEPT ![w] = Idle]
  /\ \/ \E end \in Ended : place' = [place EXCEPT ![j] = end]
     \/ UNCHANGED place
  /\ lock' = [lock EXCEPT ![j] = None]
  /\ UNCHANGED <<name, wait, stalls, mailed, refused>>

(* The method returned 1.  If the process still holds the lock the job is   *)
(* moved to completed, or to failed when Redis missed the first call;       *)
(* otherwise, or when Redis is out of reach, it stays where it is.          *)
Finish(w) ==
  LET j == task[w].id IN
  /\ task[w].phase = "done"
  /\ task' = [task EXCEPT ![w] = Idle]
  /\ \/ /\ lock[j] = Home[w]
        /\ lock' = [lock EXCEPT ![j] = None]
        /\ \E end \in Ended : place' = [place EXCEPT ![j] = end]
     \/ UNCHANGED <<place, lock>>
  /\ UNCHANGED <<name, wait, stalls, mailed, refused>>

-----------------------------------------------------------------------------
(* A lock runs out: its process died, or was too busy to renew it.          *)
LockLost(j) ==
  /\ lock[j] # None
  /\ lock' = [lock EXCEPT ![j] = None]
  /\ UNCHANGED <<name, wait, place, stalls, task, mailed, refused>>

(* The periodic check finds an active job without a lock.                   *)
Stall(j) ==
  /\ place[j] = "active"
  /\ lock[j] = None
  /\ stalls' = [stalls EXCEPT ![j] = @ + 1]
  /\ IF stalls[j] < MaxStalls
     THEN /\ place' = [place EXCEPT ![j] = "wait"]
          /\ wait' = <<j>> \o wait
     ELSE /\ place' = [place EXCEPT ![j] = "failed"]
          /\ UNCHANGED wait
  /\ UNCHANGED <<name, lock, task, mailed, refused>>

(* A process that is working is killed and starts again.                    *)
Crash(p) ==
  /\ \E w \in Workers : Home[w] = p /\ task[w] # Idle
  /\ task' = [w \in Workers |-> IF Home[w] = p THEN Idle ELSE task[w]]
  /\ UNCHANGED <<name, wait, place, lock, stalls, mailed, refused>>

Next ==
  \/ \E n \in Names : Add(n)
  \/ \E w \in Workers : Take(w) \/ Send(w) \/ Refuse(w) \/ Finish(w)
  \/ \E j \in Jobs : LockLost(j) \/ Stall(j)
  \/ \E p \in Processes : Crash(p)

Spec == Init /\ [][Next]_vars

(* A lock nobody renews: no worker of its process is at the job.            *)
Orphaned(j) == \A w \in Workers : task[w].id = j => Home[w] # lock[j]

(* Loops poll, sending times out, and each process checks for stalled jobs  *)
(* every half minute; a lock runs out when nobody renews it.                *)
Fairness ==
  /\ \A w \in Workers : /\ WF_vars(Take(w))
                        /\ WF_vars(Send(w) \/ Refuse(w))
                        /\ WF_vars(Finish(w))
  /\ \A j \in Jobs : /\ WF_vars(Orphaned(j) /\ LockLost(j))
                     /\ WF_vars(Stall(j))

FairSpec == Spec /\ Fairness
=============================================================================
