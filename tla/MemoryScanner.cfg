CONSTANTS
  Scenarios <- MCAllScenarios
  PtrScenarios <- MCPtrScenarios
  ReadWindow = 4
  PagemapMin = 4
  CheckEvery = 2
  Radix = 3
  FrameSpan = 6
  FlushAt = 2
  Page = 4
  Batch = 2
  MTFloor = 4
SPECIFICATION SessionSpec
INVARIANTS
  WholeOrMarked
  DirsAccounted
PROPERTIES
  ScansExact
