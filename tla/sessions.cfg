\* A creator and one who subscribes, before the session exists, while it does or
\* after it; channels of one place, so that every send may have to wait.
SPECIFICATION FairSessionSpec
CONSTANTS
  Worker = {}
  Stream = {}
  Subscriber = {u1, u2}
  Creators = {u1}
  Capability = {}
  Payload = {p}
  SessionId = {x}
  NoSession = none
  HashOf <- MCHash
  WorkerTTL = 1
  StreamTTL = 1
  SubscriberTTL = 1
  MaxTick = 1
  MaxSessions = 1
  MaxEntries = 2
  QueueCap = 1
  ChanCap = 1
CHECK_DEADLOCK FALSE
INVARIANTS
  SubscribersHaveHandles
  NotifiedOnce
PROPERTIES
  EndTogether
