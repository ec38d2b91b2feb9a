SPECIFICATION FairSpec
CONSTANTS
  MaxCalls = 4
  MaxFaults = 0
  MaxEvents = 4
  FaultKinds = {}
  GapLimit = 1
CHECK_DEADLOCK FALSE
PROPERTY StartWakesChip
