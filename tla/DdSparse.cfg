SPECIFICATION Spec
CONSTANTS
  Byte <- MCByte
  CommandLines <- SparseLines
  Inputs <- MCInputs
  Outputs <- MCOutputs
  MaxFaults = 0
  U <- MCU
CHECK_DEADLOCK FALSE
INVARIANT SparseExact
