SPECIFICATION Spec
CONSTANTS
  d1 = d1
  d2 = d2
  Drives <- MCDrives
  MaxDumps = 1
  Units = 2
  Commands <- DumpStopReset
  Patient = FALSE
CHECK_DEADLOCK FALSE
PROPERTIES
  StopReturns
