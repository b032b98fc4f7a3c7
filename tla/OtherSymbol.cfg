CONSTANTS
  a = a
  b = b
  c = c
  x = x
  y = y
  w1 = w1
  w2 = w2
  Accounts = {a, b, c}
  Syms <- TwoSyms
  Unit = 2
  Workers = {w1}
  Workloads <- TwoSymLoads
  OpeningAccount <- TwoFunds
  OpeningPosition <- TwoStocks
  SameSecond = FALSE
  MayAbort = FALSE
SPECIFICATION Spec
INVARIANT PositionsAudited
CHECK_DEADLOCK FALSE
