\* A participant with a claim and a stance to submit, or a seeder; another one who
\* appends, and two lost connections.
SPECIFICATION SeedingSpec
CONSTANTS
  DraftKinds = {"claim", "stance"}
  EventBuffer = 2
  PageLimit = 1
  MaxOthers = 1
  MaxDrafts = 2
  MaxDisconnects = 2
  Scenario <- MCScenario
  OtherFiles <- MCOtherFiles
  EndpointLimit = 2
CHECK_DEADLOCK FALSE
INVARIANTS
  SeedFaithful
  NoGap
PROPERTIES
  EngineGetsCommittedLog
  SubmittedIsCommitted
  UploadsEnd
