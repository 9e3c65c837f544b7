SPECIFICATION Spec
CONSTANTS
  M = 16
  PicM = 32
  Tl0M = 8
  Streams <- AllStreams
  Reordering = 4
  MaxStashed = 2
  GopAge = 5
  PaddingAge = 4
  RekeyDistance = 4
  MaxTemporalLayers = 3
  MaxSpatialLayers = 2
  MaxLayerInfo = 2
  MaxNotYetReceived = 5
  MaxGofSaved = 3
  UpSwitchAge = 5
  MaxReferences = 3
INVARIANTS
  TypeOK
  FramesAccountedFor
  IdsFollowStream
  StashedFramesWait
PROPERTIES
  ReferencesAreTheEncoders
  NextFrameIsKept
CHECK_DEADLOCK FALSE
