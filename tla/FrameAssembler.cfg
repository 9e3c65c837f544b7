SPECIFICATION Spec
CONSTANTS
  M = 32
  Packets <- WrappingStream
  StartSize = 4
  MaxSize = 8
  PaddingAge = 6
  H264 = FALSE
  MovedFrom = "empty"
  None = None
INVARIANTS
  AssertNeverFires
  MissingSpan
  SlotPlacement
  MissingNotHeld
  ContinuousReachesFirst
  FramesAreWhole
  FramesPassMissing
  NoCompleteFrameWaits
