SPECIFICATION Spec
CONSTANTS
  FrameIds = {258, 65535}
  SpatialMasks = {255}
  TemporalLayers = {7, 8}
  FrameDiffs = {0, 63, 64, 16383, 16384}
  Resolutions <- SmallResolutions
  MaxDependencies = 2
  SequenceNumbers = {43981}
  Payloads <- SmallPayloads
  PeerDatagrams <- OtherSenders
  MaxDatagram = 40
INVARIANTS
  SizeIsWhatIsWritten
  DescriptorSurvives
  PacketSurvives
  PacketsAreSorted
  DescriptorIsReceived
