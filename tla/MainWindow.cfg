SPECIFICATION FrontendSpec
CONSTANTS
  MaxId = 5
  Scenarios <- SafetyScenarios
  CodeSize = 2
  MaxViews = 2
  Notes = {"x", "y"}
  NoteTables <- MCNoteTables
  MaxDepth = 2
  TopId = 3
  Files <- MCFiles
CHECK_DEADLOCK FALSE
INVARIANTS RecordsOwned TargetCurrent ViewsTrue
PROPERTIES RowsOrdered
