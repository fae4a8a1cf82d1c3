SPECIFICATION Spec
CONSTANTS
    FileCount = 2
    AutoRetries = 1
    StartRetries = 1
    Scans <- MCScans
    MaxTasks = 2
    MaxEvents = 2
INVARIANT NoFileLost
CHECK_DEADLOCK FALSE
