SPECIFICATION FairSpec
CONSTANTS
  NumDrivers = 2
  Handles <- MCHandles
  NumEvents <- MCNumEvents
  Reports <- MCReports
  Counts = {1}
  MaxReports = 2
  MaxActivations = 1
  MaxFaults = 0
  FaultKinds = {"poll", "enable"}
  Errno = 5
PROPERTY LeftoversHandled
CHECK_DEADLOCK FALSE
