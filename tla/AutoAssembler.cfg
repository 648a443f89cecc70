SPECIFICATION Spec
CONSTANTS
  Place <- MCPlace
  Func <- MCFunc
  Runtime = {"printf"}
  Long = {61}
  Near = 1
  Script <- MCScript
  Ext = {1, 2, 3}
  Code = {1}
  ReadOnly = {3}
  Fresh <- MCFresh
  Block = {10, 20}
  BlockLen = 6
  Site = {1}
  MaxRun = 4
  Scenarios <- MCScenarios
INVARIANTS Accounted
PROPERTIES LayersSpec UndoKeepsOthers
CHECK_DEADLOCK FALSE
