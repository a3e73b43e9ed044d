SPECIFICATION JobSpec
CONSTANTS
  Connection = {c1, c2}
  Worker = {1, 2, 3, 4}
  Stream = {s1, s2}
  Subscriber = {}
  Capability = {chat}
  Payload = {}
  SessionId = {}
  HashOf <- MCHash
  Offers <- MCOffers
  Wants <- MCWants
  NoStream = none
  NoWorker = noid
  NoConnection = noconn
  WorkerTTL = 1
  StreamTTL = 1
  SubscriberTTL = 1
  MaxTick = 1
  MaxSessions = 0
  MaxEntries = 0
  QueueCap = 2
SYMMETRY MCSymmetry
CHECK_DEADLOCK FALSE
INVARIANTS
  HandlesAgree
  ResponseAccounted
  OneCarrierPerStream
  BusyWorkerNotOffered
  OneOfferPerConnection
