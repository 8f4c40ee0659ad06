SPECIFICATION BoardSpec
CONSTANTS
  Drives = {0, 1}
  Line <- MCLine
  Modes = {"GENERIC", "APPLE_II", "APPLE_MACINTOSH", "UNKNOWN"}
  Calls <- MCCalls
  Dumps <- MCDumps
  Tracks = {0, 1, 2}
  Reload = TRUE
  Overlap = FALSE
  Files <- MCFiles
  MaxCalls = 3
INVARIANTS DiskIsWhole
CHECK_DEADLOCK FALSE
