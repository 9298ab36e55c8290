\* Two logins at once, mailed links, and renewals until the refresh tokens have died.
SPECIFICATION Spec
CONSTANTS
  None = None
  u1 = u1
  u2 = u2
  Users = {u1, u2}
  Requests = {r1, r2}
  Configurations <- Set
  Starts <- Mixed
  AccessTtl = 1
  RefreshTtl = 2
  LinkTtl = 1
  MaxTime = 3
  MaxLogins = 2
  Lagging = TRUE
SYMMETRY Sym
INVARIANTS SessionEnds SessionOnRecord LastLoginIsPast
CHECK_DEADLOCK FALSE
