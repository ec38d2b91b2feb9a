SPECIFICATION FairSpec
CONSTANTS
  MaxCalls = 4
  MaxFaults = 1
  MaxEvents = 4
  FaultKinds = {"create", "open", "write", "read"}
  GapLimit = 1
CHECK_DEADLOCK FALSE
INVARIANTS
  CommandsExclusive
  ThreadsWithinSession
PROPERTIES
  SessionRefinement
  CleanupReturns
