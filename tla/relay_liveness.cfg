SPECIFICATION FairSpec
CONSTANTS
  Stream = {s1, s2}
  NoStream = none
  StreamTTL = 2
  HeartbeatPeriod = 1
  ChannelCap = 1
  WireCap = 1
  Recording = FALSE
  MaxChunks = 1
PROPERTIES
  ResponsesEnd
  WorkerComesBack
