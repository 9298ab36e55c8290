\* Operations that write only the columns they own, and the removal of the account.
SPECIFICATION Spec
CONSTANTS
  u1 = u1
  u2 = u2
  a1 = a1
  a2 = a2
  e1 = e1
  e2 = e2
  p1 = p1
  p2 = p2
  Blank = Blank
  None = None
  Users = {u1}
  Addresses = {a1}
  Emails = {e1}
  Passwords = {p1}
  Codes = {100000}
  Requests = {r1, r2}
  Operations = {"forgot", "lock", "unlock", "status", "confirm", "activeToken",
                "firstLogin", "remove"}
  Seeds <- OneOfAnyRole
  Lagging = FALSE
  LinkTtl = 1
  ResetTtl = 1
  Bodies <- PlainBodies
  MaxTime = 1
INVARIANTS TypeOK
PROPERTIES OwnColumnsOnly
SYMMETRY Sym
