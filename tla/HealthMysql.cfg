\* Two health checks at once while Redis and the databases come and go.
SPECIFICATION Spec
CONSTANTS
  Calls = {c1, c2}
  MaxClients = 3
SYMMETRY Sym
INVARIANTS MysqlAnswerIsTrue
CHECK_DEADLOCK FALSE
