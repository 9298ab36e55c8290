----------------------------- MODULE MCAccounts -----------------------------
(* Small instances of Accounts for TLC.                                     *)
EXTENDS AccountInvariant, TLC

CONSTANTS u1, u2, a1, a2, e1, e2, p1, p2

(* A body of POST /users without the optional columns; and one with them.   *)
Plain == [locked |-> Unlocked, isFirstLogin |-> FALSE,
          tokenResetPassword |-> None, expire |-> None]
Full  == [locked |-> Locked, isFirstLogin |-> TRUE,
          tokenResetPassword |-> 100000, expire |-> ResetTtl]

PlainBodies  == {Plain}
VariedBodies == {Plain, Full}

User(a, e, p, s) == NewRow(a, e, p, s, Plain)
Others(us)  == [u \in us |-> None]

(* Nobody is registered.                                                    *)
Empty == {[u \in Users |-> None]}

(* One account of each status, its e-mail address known.                    *)
OneOf(statuses) ==
  {(u1 :> User(a1, e1, p1, s)) @@ Others(Users \ {u1}) : s \in statuses}

OneActive == OneOf({Active})
OneSubmit == OneOf({Submit})
OneAny    == OneOf(Statuses)

(* Nobody, or one account.                                                  *)
EmptyOrOne == Empty \cup OneAny

(* The same, as a user and as an admin.                                     *)
OneOfAnyRole ==
  {[t EXCEPT ![u1].role = role] : t \in OneAny, role \in {0, 1}}

(* An account that has asked for no code, one that has one, and one that    *)
(* has one and has not confirmed its e-mail address; beside each an admin   *)
(* who has not logged in yet, for whom no code is drawn.                    *)
WithCode(row) == [row EXCEPT !.tokenResetPassword = 100000, !.expire = ResetTtl]
NewAdmin == [User(a2, e2, p2, Active) EXCEPT !.role = 1, !.isFirstLogin = TRUE]
BesideAdmin ==
  {(u1 :> row) @@ (u2 :> NewAdmin) :
     row \in {User(a1, e1, p1, Active), WithCode(User(a1, e1, p1, Active)),
              WithCode(User(a1, e1, p1, Submit))}}

(* No guard reads job, and of the properties of the runs with this view     *)
(* none does.                                                               *)
NoJob == <<master, report, req, now, used, links, tokens, accepted, approved,
           removed, fate>>

(* Slots for requests are interchangeable.                                  *)
Sym == Permutations(Requests)
=============================================================================
