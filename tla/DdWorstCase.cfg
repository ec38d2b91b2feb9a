SPECIFICATION Spec
CONSTANTS
  Byte <- MCByte
  CommandLines <- ZeroLines
  Inputs <- MCInputs
  Outputs <- MCOutputs
  MaxFaults = 0
  U <- MCU
CHECK_DEADLOCK FALSE
INVARIANT WorstCase
