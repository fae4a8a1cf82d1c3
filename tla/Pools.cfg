SPECIFICATION PoolsSpec
CONSTANTS
    user = user
    sub = sub
    backup = backup
    folder = folder
    sync = sync
    c1 = c1
    c2 = c2
    c3 = c3
    NoTask = NoTask
    Files = {sub, backup}
    Folders = {folder}
    PriorityOf <- Priority
    Callers = {c1, c2}
    InitSlots = 2
    MaxSlots = 3
    MaxShared = 2
    MaxAge = 1
    Transfers = {t1, t2, t3}
    InitMax = 2
    MaxMax = 4
    Accounts = {u1, u2, u3}
    MaxBudget = 45
    Levels <- MCLevels
    Sources = {0, 2, 9}
    WeightOf <- MCWeights
    ThreadsOf <- MCThreads
CHECK_DEADLOCK FALSE
INVARIANTS
    SlotsOrdered
    LimitCoveredAlone
    NoGhostBorrowAlone
    ChunkIdsSound
    SplitsExactly
    ProportionalFloor
PROPERTIES
    ResizeKeepsWork
    ActiveFileKept
