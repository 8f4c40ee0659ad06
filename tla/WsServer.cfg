SPECIFICATION Spec
CONSTANTS
  a = a
  b = b
  c = c
  Peers <- MCPeers
  Port <- MCPort
  Ports = {8080, 8081}
  Slots = {0}
  ServerCloses <- MCServerCloses
  Reading = {8080}
  Ops <- MCOps
  Controls = {"ping", "bad"}
  Frames <- MCFrames
  Calm = TRUE
CHECK_DEADLOCK FALSE
INVARIANTS MessagesWhole CloseAnswered
PROPERTIES EventsPaired GoneAtLast
