SPECIFICATION FairSpec
CONSTANTS
  Byte <- MCByte
  CommandLines <- MCCommandLines
  Inputs <- MCInputs
  Outputs <- MCOutputs
  MaxFaults = 1
  U <- MCU
CHECK_DEADLOCK FALSE
INVARIANTS
  BufferBounds
  NothingLost
  CopyExact
  ErrorsKeepOffsets
PROPERTIES
  Ends
  NearerToEnd
