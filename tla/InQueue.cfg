SPECIFICATION Spec
CONSTANTS
  c1 = c1
  c2 = c2
  Clients <- MCClients
  N = 3
  MaxLines = 5
CHECK_DEADLOCK FALSE
INVARIANTS
  NewestKept
PROPERTIES
  EveryLineHandled
  ImplementsMailbox
