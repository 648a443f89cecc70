CONSTANTS
  Pids = {1, 2}
  MaxRounds = 2
  CallLimit = 2
  Scenarios <- AllScenarios
SPECIFICATION Spec
INVARIANTS ConversationValid NothingLeftBehind
PROPERTIES ApprovedOnly StopEnds
CHECK_DEADLOCK FALSE
