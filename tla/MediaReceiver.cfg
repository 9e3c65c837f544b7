SPECIFICATION FairSpec
CONSTANTS
  NumFrameSuggested = 2
  MaxStarts = 2
  MaxFrames = 2
INVARIANTS
  SurfacesAreBacked
  FramesStayInOrder
  ShownIsNotOlder
  StopLimitsWork
PROPERTY FramesMoveOn
CHECK_DEADLOCK FALSE
