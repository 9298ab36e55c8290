CONSTANTS
  Sockets = {s1, s2}
  Processes = {p1, p2}
  Users = {u1, u2}
  None = None
  MaxTime = 1
  MaxEvents = 2
SPECIFICATION Spec
INVARIANTS OnlyOwnersHear HeardInOrder
PROPERTIES MembersHear
