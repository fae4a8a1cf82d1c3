SPECIFICATION PartSpec
CONSTANTS
    Files <- MCFiles
    MaxBackups = 3
    MaxEvents = 2
    FileCount = 2
    AutoRetries = 1
    StartRetries = 1
    Scans <- MCScans
    MaxTasks = 2
    MaxBackupEvents = 5
INVARIANTS
    RecordsTrue
    DoneHere
    NothingDropped
    RestartFindsAll
    CountsAgree
CHECK_DEADLOCK FALSE
