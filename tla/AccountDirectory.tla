-------------------------- MODULE AccountDirectory --------------------------
(***************************************************************************)
(* What the users table promises about identities, whatever the account    *)
(* operations do to the other columns: an id stands for one wallet, one    *)
(* e-mail address and one role for as long as the account exists, no two   *)
(* accounts share a wallet or an address, and an id is handed out once.    *)
(* Only an id that remove() deleted may come back, blank or with the old    *)
(* identity: saves that were in flight re-insert and update it.             *)
(***************************************************************************)
CONSTANTS Users, Identities, None

VARIABLES
  entry,   \* the identity of each account, None when there is no account
  handed,  \* ids handed out so far
  gone     \* ids that were deleted at least once

vars == <<entry, handed, gone>>

Distinct(e) ==
  \A u, v \in Users :
    (u # v /\ e[u] # None /\ e[v] # None) =>
       /\ e[u].address # e[v].address
       /\ e[u].email = e[v].email => e[u].email = None

Init ==
  /\ entry \in [Users -> Identities \cup {None}]
  /\ Distinct(entry)
  /\ handed = {u \in Users : entry[u] # None}
  /\ gone = {}

Enter(u, i) == /\ entry' = [entry EXCEPT ![u] = i]
               /\ Distinct(entry')

(* A registration takes an id; without an entry when it is refused.         *)
Register(u) ==
  /\ u \notin handed
  /\ handed' = handed \cup {u}
  /\ \/ \E i \in Identities : Enter(u, i)
     \/ entry' = entry
  /\ gone' = gone

Delete(u) ==
  /\ entry[u] # None
  /\ entry' = [entry EXCEPT ![u] = None]
  /\ gone' = gone \cup {u}
  /\ handed' = handed

Return(u) ==
  /\ u \in gone
  /\ \E i \in Identities : Enter(u, i)
  /\ UNCHANGED <<handed, gone>>

Next == \E u \in Users : Register(u) \/ Delete(u) \/ Return(u)

Spec == Init /\ [][Next]_vars
=============================================================================
