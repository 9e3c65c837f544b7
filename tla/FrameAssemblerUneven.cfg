SPECIFICATION Spec
CONSTANTS
  M = 16
  Packets <- SparseStream
  StartSize = 4
  MaxSize = 6
  PaddingAge = 7
  H264 = FALSE
  MovedFrom = "empty"
  None = None
INVARIANT AssertNeverFires
