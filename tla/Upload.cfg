SPECIFICATION FairSpec
CONSTANTS
    Chunks = {0}
    Workers = {w1, w2}
    MaxRuns = 2
    MaxConcurrent = 2
    RetryLimit = 2
    Encrypt = TRUE
    IsBackup = TRUE
    MaxFaults = 2
    MaxCommands = 1
CHECK_DEADLOCK FALSE
INVARIANTS
    NoChunkStranded
    OneMergePerRun
PROPERTIES
    RunLeaves
