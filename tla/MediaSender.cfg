SPECIFICATION Spec
CONSTANTS
  MaxStarts = 2
  MaxFrames = 2
  MaxPackets = 2
  M = 3
  ReleaseAfterCapture = FALSE
  ReleaseAfterEncode = TRUE
INVARIANTS
  FrameReleasedOnce
  StreamIsContiguous
  StopLimitsSending
PROPERTIES
  CaptureEnds
  EncodedFramesLeave
CHECK_DEADLOCK FALSE
