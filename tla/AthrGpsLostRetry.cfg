SPECIFICATION FairSpec
CONSTANTS
  MaxCalls = 2
  MaxFaults = 2
  MaxEvents = 4
  FaultKinds = {"write"}
  GapLimit = 1
CHECK_DEADLOCK FALSE
PROPERTY FirstStartWakesChip
