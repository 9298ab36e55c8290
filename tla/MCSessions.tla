----------------------------- MODULE MCSessions -----------------------------
(* Small instances of Sessions for TLC.                                     *)
EXTENDS Sessions, TLC

CONSTANTS u1, u2

(* config/default.yml and config/test.yml; the environment that sets the    *)
(* refresh secret alone; and the one that sets all three.                   *)
AsShipped   == [p \in Purposes |-> "file"]
OwnRefresh  == [AsShipped EXCEPT !["refresh"] = "environment"]
AllApart    == [p \in Purposes |-> p]
Set == {AsShipped, OwnRefresh, AllApart}

(* One user has not confirmed her e-mail address; the other has, or is      *)
(* locked.                                                                  *)
Mixed == {[locked |-> l, submitted |-> {u1}] : l \in {{}, {u2}}}

(* Slots for logins are interchangeable.                                   *)
Sym == Permutations(Requests)
=============================================================================
