SPECIFICATION FairSpec
CONSTANTS
    w1 = w1
    w2 = w2
    w3 = w3
    MaxRuns = 1
    NChunks = 2
    Workers = {w1, w2}
    MaxThreads = 2
    TaskChunks = 2
    FailureLimit = 2
    RetryLimit = 2
    MaxRequeue = 1
    MaxStartRetries = 0
    FolderSubtask = FALSE
    MaxFailures = 3
    MaxPauses = 0
CHECK_DEADLOCK FALSE
INVARIANTS
    CountersExact
    FinalizesWhole
    ChunkNotStranded
    LimitNoticed
PROPERTIES
    RunLeaves
