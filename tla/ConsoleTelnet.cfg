SPECIFICATION Spec
CONSTANTS
  Symbols <- MCSymbols
  Numeral <- MCNumeral
  Padded <- MCPadded
  Fields <- MCFields
  Typed <- MCTyped
  Ends <- Telnet
  MSG = 35
  LINE = 60
  RECV = {4, 30}
  MaxDumps = 1
  MaxTyped = 2
  MaxRing = 2
  MaxIndex = 4
CHECK_DEADLOCK FALSE
INVARIANTS
  MissingAnswered
