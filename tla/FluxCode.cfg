SPECIFICATION Spec
CONSTANTS
  W = 4
  R = 16
  G = 4
  Words <- MCWords
  Gaps <- MCGaps
  Shorts = {1, 3}
  Metas = {100, 8191}
  MaxRuns = 6
CHECK_DEADLOCK FALSE
INVARIANTS
  StreamTrue
  DriftKnown
  SamplesHonest
  OutFits
