SPECIFICATION FairSpec
CONSTANTS
    d = d
    f = f
    g = g
    h = h
    Tree <- MCTree
    Batches <- MCBatches
    Kinds <- MCKinds
    AutoCleanup = TRUE
    CleanupOnFailure = TRUE
    MaxDepth = 2
    MaxTries = 1
    MaxMishaps = 2
    MaxWhims = 1
INVARIANT NoSilentLoss
PROPERTY WatcherConcludes
CHECK_DEADLOCK FALSE
