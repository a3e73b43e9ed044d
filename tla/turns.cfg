SPECIFICATION PageSpec
CONSTANTS
  MaxHistory = 4
  MaxRounds = 2
  MaxPrompts = 4
  MaxCalls = 2
  MaxMessages = 12
  MaxDrafts = 2
  Streamed <- MCStreamed
  BodyForms <- MCBodyForms
  Parts <- MCParts
  MaxParts = 4
  MaxOutput = 2
  Outputs <- MCOutputs
  MaxToolCalls = 2
  MaxPresses = 4
  Queries <- MCQueries
CHECK_DEADLOCK FALSE
INVARIANTS
  AnswersArrive
  HistoryPaired
  RequestAnswersPrompt
