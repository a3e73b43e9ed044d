SPECIFICATION FairSpec
CONSTANTS
  Payload = {p, q, bad}
  Valid = {p, q}
  Requested = Requested
  PageLimit = 2
  ServerLimit = 2
  MaxEntries = 4
CHECK_DEADLOCK FALSE
INVARIANTS
  ConnectedMeansSynced
PROPERTIES
  ImplementsCommittedLog
  CatchesUp
