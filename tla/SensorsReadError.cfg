SPECIFICATION Spec
CONSTANTS
  NumDrivers = 2
  Handles <- MCHandles
  NumEvents <- MCNumEvents
  Reports <- MCReports
  Counts = {1, 3}
  MaxReports = 2
  MaxActivations = 2
  MaxFaults = 1
  FaultKinds = {"read"}
  Errno = 5
INVARIANT NeverBeforeArray
CHECK_DEADLOCK FALSE
