SPECIFICATION FairSpec
CONSTANTS
  Workers = {w1, w2}
  NumTasks = 1
  Nobody = Nobody
CHECK_DEADLOCK FALSE
PROPERTY DestroyReturns
