SPECIFICATION PreviewSpec
CONSTANTS
  Tracks = 2
  Blank <- MCBlank
  Boxes <- MCBoxes
  Removable <- MCRemovable
  MaxViews = 1
  MaxClicks = 2
  Pages <- MCPages
  Leaving <- MCLeaving
  Viewer = "p1"
CHECK_DEADLOCK FALSE
INVARIANTS
  Exclusive
