CONSTANTS
  w1 = w1
  w2 = w2
  w3 = w3
  a = a
  b = b
  c = c
  x = x
  y = y
  Workers = {w1, w2, w3}
  Rows <- MCRows
  Opening <- MCOpening
  Mixes <- MCMixes
SPECIFICATION FairSpec
INVARIANTS LockInvariant Serializable CreationsAgree
PROPERTIES AllEnd
CHECK_DEADLOCK FALSE
