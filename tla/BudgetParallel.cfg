SPECIFICATION Spec
CONSTANTS
    Uids = {a}
    Slots = {s1}
    NoSlot = NoSlot
    Calls = {c1, c2, c3}
    InitBudget = 2
    MaxBudget = 2
    MaxCap = 2
    Parallel = TRUE
    Cancellable = TRUE
SYMMETRY Symmetry
INVARIANTS
    BudgetIsCapacity
    UsedIsExact
    P0WithinBase
    AccountNeverShort
PROPERTIES
    ImplementsSemaphore
