SPECIFICATION CallsFairSpec
CONSTANTS
    t1 = t1
    t2 = t2
    None = None
    Threads <- MCThreads
    Leader = t1
    Calls = {1, 2}
    Frames = {1, 2, 3}
    Budgets <- LiveBudgets
    Loans <- LiveLoans
PROPERTIES
    CallsEnd
    ThreadLetGo
CHECK_DEADLOCK FALSE
