SPECIFICATION FairSpec
CONSTANTS
  NumDrivers = 2
  Handles <- MCHandles
  NumEvents <- MCNumEvents
  Reports <- MCReports
  Counts = {1, 3}
  MaxReports = 2
  MaxActivations = 2
  MaxFaults = 1
  FaultKinds = {"read", "poll", "enable"}
  Errno = 5
INVARIANTS
  WithinRoom
  PollsOnlyWhenDrained
PROPERTIES
  ChannelRefinement
  ReportsHandled
CHECK_DEADLOCK FALSE
