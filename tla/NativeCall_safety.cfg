SPECIFICATION CallsSpec
CONSTANTS
    t1 = t1
    t2 = t2
    None = None
    Threads <- MCThreads
    Leader = t1
    Calls = {1, 2}
    Frames = {1, 2, 3}
    Budgets <- MCBudgets
    Loans <- MCLoans
INVARIANTS
    CallsSound
    LoanSound
PROPERTY
    ProgramKept
CHECK_DEADLOCK FALSE
