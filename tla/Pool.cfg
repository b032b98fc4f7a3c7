CONSTANTS
  w1 = w1
  w2 = w2
  w3 = w3
  Workers = {w1, w2, w3}
  NumJobs = 3
SPECIFICATION FairSpec
INVARIANTS PoolInvariant NoneStranded DrainedAtExit
PROPERTIES QueueSpec Served DestructorReturns
CHECK_DEADLOCK FALSE
