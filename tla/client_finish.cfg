\* Drafts of which a later one refers to an earlier one, and no lost connection.
SPECIFICATION SeedingSpec
CONSTANTS
  DraftKinds = {"claim", "link"}
  EventBuffer = 2
  PageLimit = 1
  MaxOthers = 0
  MaxDrafts = 2
  MaxDisconnects = 0
  Scenario <- MCScenario
  OtherFiles <- MCOtherFiles
  EndpointLimit = 2
CHECK_DEADLOCK FALSE
PROPERTY FinishRemovesDrafts
