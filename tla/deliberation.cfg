SPECIFICATION Spec
CONSTANTS
  Me = "me"
  OtherEntries <- MCOtherEntries
  DraftContents <- MCDraftContents
  MaxEntries = 5
  MaxNodes = 3
  Calls <- MCCalls
  Scenario <- MCScenario
  MaxToolRounds = 2
  Answers <- MCAnswers
  Expectations <- MCExpectations
  Suites <- MCSuites
  Configs <- MCConfigs
  SuiteAnswers <- MCSuiteAnswers
INVARIANTS
  ConfirmationTrue
  ReportTrue
  RefsResolve
  ShownFaithful
  GroundedLabels
  ToolCallsAgree
  RepeatHarmless
