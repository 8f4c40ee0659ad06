SPECIFICATION PreviewSpec
CONSTANTS
  Tracks = 2
  Blank <- MCBlank
  Boxes <- MCBoxes
  Removable <- MCRemovable
  MaxViews = 1
  MaxClicks = 1
  Pages <- MCPages
  Leaving <- MCLeaving
  Viewer = "p1"
CHECK_DEADLOCK FALSE
PROPERTIES
  ExclusionKept
  PreviewFollows
  LockGiven
