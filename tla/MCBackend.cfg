SPECIFICATION FairSpec
CONSTANTS
  q1 = q1
  q2 = q2
  Requests = {q1, q2}
  Tries = 2
  PoolSize = 2
  MaxOutages = 2
INVARIANT FailuresHaveCauses
PROPERTY ServesAgain
CHECK_DEADLOCK FALSE
