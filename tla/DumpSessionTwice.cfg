SPECIFICATION Spec
CONSTANTS
  d1 = d1
  d2 = d2
  Drives <- MCDrives
  MaxDumps = 2
  Units = 2
  Commands <- DumpOnly
  Patient = FALSE
CHECK_DEADLOCK FALSE
INVARIANTS
  OneDump
