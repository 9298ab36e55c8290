------------------------------- MODULE Outbox -------------------------------
(***************************************************************************)
(* What the rest of the program may rely on when it has queued a mail: it   *)
(* stays due until it is closed or given up, it is closed only after it was *)
(* tried, SMTP takes it MaxSends times at most, and neither end is undone.  *)
(* An attempt may be late: a mail that was closed can still go out.         *)
(***************************************************************************)
EXTENDS Naturals

CONSTANTS Mails, MaxSends

VARIABLES
  state,  \* where each mail is
  tried,  \* the mails SMTP took or refused
  sent    \* how often SMTP took each mail

vars == <<state, tried, sent>>

Init ==
  /\ state = [m \in Mails |-> "none"]
  /\ tried = {}
  /\ sent = [m \in Mails |-> 0]

Move(m, from, to) ==
  /\ state[m] = from
  /\ state' = [state EXCEPT ![m] = to]
  /\ UNCHANGED <<tried, sent>>

Queue(m) == Move(m, "none", "due")

Attempt(m) ==
  /\ state[m] # "none"
  /\ tried' = tried \cup {m}
  /\ \/ sent' = sent
     \/ sent[m] < MaxSends /\ sent' = [sent EXCEPT ![m] = @ + 1]
  /\ UNCHANGED state

Close(m) == m \in tried /\ Move(m, "due", "closed")

GiveUp(m) == Move(m, "due", "givenUp")

Next == \E m \in Mails : Queue(m) \/ Attempt(m) \/ Close(m) \/ GiveUp(m)

Spec == Init /\ [][Next]_vars
=============================================================================
