SPECIFICATION Spec
CONSTANTS
  Last = 3
  MaxSteps = 3
  CountMod = 8
  RecalMax = 4
  RecalIn = 2
  SeekMax = 5
  SeekApple = 4
  Steps = {1, 2}
  Targets = {0, 2, 4}
  Orders <- MCOrders
  Overlap = FALSE
INVARIANTS
  HeadKnown
  RecalibrationHonest
PROPERTIES
  CommandsEnd
  ImplementsMover
