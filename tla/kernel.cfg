SPECIFICATION FairSpec
CONSTANTS
  Worker = {1}
  Stream = {s1, s2}
  Subscriber = {u1, u2}
  Capability = {chat, audio}
  Payload = {p, q}
  SessionId <- MCSessionId
  HashOf <- MCHash
  WorkerTTL = 2
  StreamTTL = 1
  SubscriberTTL = 2
  MaxTick = 3
  MaxSessions = 1
  MaxEntries = 2
INVARIANTS
  TypeOK
  DeadlineWindow
PROPERTIES
  StreamEndsTold
  PoolConserved
  SubscriberNeverForgotten
  LogPermanence
  SessionsExpire
