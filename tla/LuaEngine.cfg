SPECIFICATION Spec
CONSTANTS
    None = None
    Pids = {1, 2}
    MaxDepth = 4
    Slots = {1, 2, 3}
    Lists = {l1, l2}
    MaxRecords = 2
    Scenarios <- AllScenarios
INVARIANTS
    NothingStale
    RegistersKept
PROPERTIES
    StopsResume
CHECK_DEADLOCK FALSE
