SPECIFICATION FairJobSpec
CONSTANTS
  Connection = {c1}
  Worker = {1, 2, 3}
  Stream = {s1, s2}
  Subscriber = {}
  Capability = {chat}
  Payload = {}
  SessionId = {}
  HashOf <- MCHash
  Offers <- MCOffers
  Wants <- MCWants
  NoStream = none
  NoWorker = noid
  NoConnection = noconn
  WorkerTTL = 1
  StreamTTL = 1
  SubscriberTTL = 1
  MaxTick = 1
  MaxSessions = 0
  MaxEntries = 0
  QueueCap = 1
CHECK_DEADLOCK FALSE
PROPERTIES
  ResponsesEnd
