SPECIFICATION MCSpec
CONSTANTS
  FrameIds <- MCFrameIds
  MaxFrames = 3
  MaxReferences = 2
  WindowSize = 3
  None = None
INVARIANTS
  FramesBounded
  LinksMatchReferences
PROPERTIES
  HeldFramesStay
  ImplementsWindow
CHECK_DEADLOCK FALSE
