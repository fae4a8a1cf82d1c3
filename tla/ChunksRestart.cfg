SPECIFICATION Spec
CONSTANTS
    w1 = w1
    w2 = w2
    w3 = w3
    MaxRuns = 2
    NChunks = 1
    Workers = {w1, w2}
    MaxThreads = 2
    TaskChunks = 2
    FailureLimit = 1
    RetryLimit = 6
    MaxRequeue = 1
    MaxStartRetries = 1
    FolderSubtask = TRUE
    MaxFailures = 2
    MaxPauses = 1
CHECK_DEADLOCK FALSE
SYMMETRY Symmetry
INVARIANTS
    CountersExact
