CONSTANTS
  c1 = c1
  c2 = c2
  c3 = c3
  w1 = w1
  w2 = w2
  Clients = {c1, c2, c3}
  Workers = {w1, w2}
  Texts <- MCTexts
  Reading <- MCReading
  Cancelling <- MCCancelling
  Mixes <- MCMixes
  Limits = {2, 5}
  MaxQueue = 3
SPECIFICATION FairSpec
INVARIANTS DescriptorInvariant OwnAnswer Accounted
PROPERTIES Answered
CHECK_DEADLOCK FALSE
