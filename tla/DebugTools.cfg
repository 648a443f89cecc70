SPECIFICATION Spec
CONSTANTS
    t1 = t1
    t2 = t2
    t3 = t3
    None = None
    Tid = {t1, t2, t3}
    Leader = t1
    Sig = {s1}
    Callers = {c1, c2}
    ReleaseTries = 1
    MaxSteps = 2
    Scenarios <- AllScenarios
INVARIANTS
    Undisturbed
    NothingMissed
PROPERTIES
    StopsEnd
CHECK_DEADLOCK FALSE
