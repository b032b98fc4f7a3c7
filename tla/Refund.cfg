CONSTANTS
  a = a
  b = b
  c = c
  x = x
  y = y
  w1 = w1
  w2 = w2
  Accounts = {a, b, c}
  Syms <- OneSym
  Unit = 2
  Workers = {w1}
  Workloads <- SerialLoads
  OpeningAccount <- TwoFunds
  OpeningPosition <- Stock
  SameSecond = FALSE
  MayAbort = FALSE
SPECIFICATION Spec
INVARIANT CashConserved
CHECK_DEADLOCK FALSE
