SPECIFICATION FairSpec
CONSTANTS
  Workers = {w1, w2, w3}
  NumTasks = 3
  Nobody = Nobody
CHECK_DEADLOCK FALSE
INVARIANTS
  AssertsHold
  SomeoneAwake
PROPERTIES
  TaskRefinement
  EveryTaskRuns
