\* Two jobs, two loops that share the lock of their process, one of another process.
SPECIFICATION FairSpec
CONSTANTS
  p1 = p1
  p2 = p2
  w1 = w1
  w2 = w2
  w3 = w3
  None = None
  Processes = {p1, p2}
  Workers = {w1, w2, w3}
  Home <- TwoAndOne
  Names = {"sendVerifyEmail", "sendPasswordChangedEmail"}
  MaxJobs = 2
  MaxStalls = 1
INVARIANTS MailsBounded EndedWasTried
PROPERTIES ImplementsOutbox EndIsFinal EveryJobEnds
CHECK_DEADLOCK FALSE
