\* Racing registrations, then approvals, confirmations, verifications and password
\* changes over a lagging replica.
SPECIFICATION Spec
CONSTANTS
  u1 = u1
  u2 = u2
  a1 = a1
  a2 = a2
  e1 = e1
  e2 = e2
  p1 = p1
  p2 = p2
  Blank = Blank
  None = None
  Users = {u1, u2}
  Addresses = {a1}
  Emails = {e1}
  Passwords = {p1}
  Codes = {100000}
  Requests = {r1, r2}
  Operations = {"create", "register", "change", "verify", "resend", "status",
                "confirm", "activeToken"}
  Seeds <- EmptyOrOne
  Lagging = TRUE
  LinkTtl = 1
  ResetTtl = 1
  Bodies <- VariedBodies
  MaxTime = 0
INVARIANTS ActiveWasApproved
PROPERTIES ImplementsDirectory
VIEW NoJob
SYMMETRY Sym
CHECK_DEADLOCK FALSE
