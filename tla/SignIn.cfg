\* Two devices of one wallet, a client with another, and one e-mail address to fight for.
CONSTANTS
  c1 = c1
  c2 = c2
  c3 = c3
  w1 = w1
  w2 = w2
  e1 = e1
  None = None
  Clients = {c1, c2, c3}
  Wallets = {w1, w2}
  Emails = {e1}
  WalletOf <- TwoDevices
  MaxFailures = 1
SPECIFICATION Spec
INVARIANTS TypeOK AnswersMean
PROPERTY EveryClientPassesGuard
