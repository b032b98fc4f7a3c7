CONSTANTS
  a = a
  b = b
  c = c
  x = x
  y = y
  w1 = w1
  w2 = w2
  Accounts = {a, b, c}
  Syms <- OneSym
  Unit = 2
  Workers = {w1, w2}
  Workloads <- AbortLoads
  OpeningAccount <- TwoFunds
  OpeningPosition <- Stock
  SameSecond = FALSE
  MayAbort = TRUE
SPECIFICATION FairSpec
INVARIANTS TypeOK OrderInvariant PositionsAudited
PROPERTIES AllServed StepsAreTransactions
CHECK_DEADLOCK FALSE
