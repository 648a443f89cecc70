SPECIFICATION Spec
CONSTANTS
  Thread = {1, 2}
  Scenarios <- MCScenarios
  Proc = {1, 2}
  Tid = {1, 2}
  Slot = {0}
  MaxConn = 2
  MaxHandle = 2
  MaxOpen = 1
  Entries = 1
  MaxStarts = 1
INVARIANTS RightAnswer OwnedOnce
PROPERTIES SeenStopsOnly NobodyHeld
CHECK_DEADLOCK FALSE
