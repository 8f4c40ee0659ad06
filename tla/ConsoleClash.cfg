SPECIFICATION Spec
CONSTANTS
  Symbols <- MCSymbols
  Numeral <- MCNumeral
  Padded <- MCPadded
  Fields <- ClashFields
  Typed <- MCTyped
  Ends <- LineFeed
  MSG = 35
  LINE = 60
  RECV = {4, 30}
  MaxDumps = 2
  MaxTyped = 2
  MaxRing = 2
  MaxIndex = 4
CHECK_DEADLOCK FALSE
PROPERTIES
  FoldersApart
