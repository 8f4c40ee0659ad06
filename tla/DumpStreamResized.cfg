SPECIFICATION Spec
CONSTANTS
  Chunk = 4
  Group = 4
  Lead = 2
  Wrap = 32
  MaxSize = 12
  Sizes <- MCSizes
  Captures = 2
  Steady = FALSE
  Prompt = TRUE
CHECK_DEADLOCK FALSE
INVARIANTS
  TimeAsStated
