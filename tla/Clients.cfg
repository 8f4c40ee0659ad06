SPECIFICATION Spec
CONSTANTS
  d = d
  c = c
  w1 = w1
  w2 = w2
  script = script
  Peers <- MCPeers
  Kind <- MCKind
  Entries <- MCEntries
  Outs <- MCOuts
  Writers <- MCWriters
  Wild <- MCWild
  N = 2
  Calm = TRUE
  MaxLines = 2
CHECK_DEADLOCK FALSE
INVARIANTS
  InOrder
PROPERTIES
  EveryLineArrives
  LeftNothingBehind
