SPECIFICATION Spec
CONSTANTS
  MaxCalls = 2
  MaxFaults = 0
  MaxEvents = 2
  FaultKinds = {}
  GapLimit = 1
CHECK_DEADLOCK FALSE
INVARIANT TtyClosedByCleanup
