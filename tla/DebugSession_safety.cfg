SPECIFICATION Spec
CONSTANTS
    t1 = t1
    t2 = t2
    t3 = t3
    c1 = c1
    c2 = c2
    Tid = {t1, t2, t3}
    Leader = t1
    Start = {t1, t2}
    Addr = {a1, a2}
    Sig = {s1}
    None = None
    Budgets <- AnySafe
    Client = {c1, c2}
    RestoreAttempts = 2
SYMMETRY ClientSymmetry
INVARIANTS
    SignalsOwned
    HeldTogether
PROPERTIES
    NoPatchAcrossExec
CHECK_DEADLOCK FALSE
