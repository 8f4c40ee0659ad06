SPECIFICATION PreviewSpec
CONSTANTS
  Tracks = 2
  Blank <- MCBlank
  Boxes <- MCBoxesNew
  Removable <- MCRemovable
  MaxViews = 1
  MaxClicks = 2
  Pages <- MCPages
  Leaving <- MCLeaving
  Viewer = "p1"
CHECK_DEADLOCK FALSE
PROPERTIES
  BoxesHonoured
