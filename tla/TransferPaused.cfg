SPECIFICATION Spec
CONSTANTS
    d = d
    f = f
    g = g
    h = h
    Tree <- MCTree
    Batches <- MCBatches
    Kinds <- MCKinds
    AutoCleanup = TRUE
    CleanupOnFailure = TRUE
    MaxDepth = 2
    MaxTries = 1
    MaxMishaps = 1
    MaxWhims = 1

PROPERTY PausedKeepsDir
CHECK_DEADLOCK FALSE
