SPECIFICATION FairSpec
CONSTANTS
  MaxCalls = 3
  MaxFaults = 1
  MaxEvents = 4
  FaultKinds = {"open", "write", "read"}
  GapLimit = 1
CHECK_DEADLOCK FALSE
PROPERTIES
  FirstStartWakesChip
  StopEndsStarted
