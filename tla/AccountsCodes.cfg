\* Reset codes drawn, drawn again, used and written back by a late verification.
SPECIFICATION Spec
CONSTANTS
  u1 = u1
  u2 = u2
  a1 = a1
  a2 = a2
  e1 = e1
  e2 = e2
  p1 = p1
  p2 = p2
  Blank = Blank
  None = None
  Users = {u1, u2}
  Addresses = {a1, a2}
  Emails = {e1, e2}
  Passwords = {p1, p2}
  Codes = {100000, 100001}
  Requests = {r1, r2}
  Operations = {"forgot", "reset", "verify", "resend", "confirm", "activeToken"}
  Seeds <- BesideAdmin
  Lagging = FALSE
  LinkTtl = 1
  ResetTtl = 1
  Bodies <- PlainBodies
  MaxTime = 0
INVARIANTS StoredCodeIsLive StoredPasswordWasAccepted ZeroNeedsCode
VIEW NoJob
SYMMETRY Sym
CHECK_DEADLOCK FALSE
