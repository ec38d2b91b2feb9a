SPECIFICATION Spec
CONSTANTS
  Byte <- MCByte
  CommandLines <- BlockLines
  Inputs <- MCInputs
  Outputs <- MCOutputs
  MaxFaults = 0
  U <- MCU
CHECK_DEADLOCK FALSE
INVARIANT BlockInput
