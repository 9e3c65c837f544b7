SPECIFICATION Spec
CONSTANTS
  M = 16
  Items <- MixedStream
  Reordering = 3
  MaxStashed = 2
  GopAge = 5
  PaddingAge = 4
  RekeyDistance = 7
  MaxReferences = 2
  None = None
INVARIANT CompletedFramesAreQueued
CHECK_DEADLOCK FALSE
