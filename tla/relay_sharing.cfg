SPECIFICATION Spec
CONSTANTS
  Stream = {s1, s2}
  NoStream = none
  StreamTTL = 2
  HeartbeatPeriod = 1
  ChannelCap = 1
  WireCap = 1
  Recording = TRUE
  MaxChunks = 2
SYMMETRY MCSymmetry
INVARIANTS
  MixedOnlyAfterLeave
  DoneMeansComplete
  ChunksInOrder
PROPERTIES
  LiveStreamNotTimedOut
