SPECIFICATION Spec
CONSTANTS
  M = 20
  Packets <- SparseWrappingStream
  StartSize = 4
  MaxSize = 6
  PaddingAge = 7
  H264 = FALSE
  MovedFrom = "empty"
  None = None
PROPERTY ExpansionLosesOnlyRivals
CHECK_DEADLOCK FALSE
