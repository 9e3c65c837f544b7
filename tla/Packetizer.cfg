SPECIFICATION Spec
CONSTANTS
  Frames <- AllFrames
  AllLimits <- ReducedLimits
  MaxPayload = 10
  MaxNalus = 3
INVARIANTS
  FramesAreRebuilt
  PayloadsFit
  CountsAgree
  FragmentsAboutEqual
  OnlyFullNalusAssert
CHECK_DEADLOCK FALSE
