SPECIFICATION FairSpec
CONSTANTS
    Calls = {c1, c2, c3, c4}
    InitPermits = 2
    MinCapacity = 1
    MaxCapacity = 3
INVARIANTS
    TypeOK
    PermitsConserved
    NoIdlePermitWhileQueued
PROPERTIES
    GrantWithinCapacity
    NoOvertaking
    P0Served
    DebtCollected
