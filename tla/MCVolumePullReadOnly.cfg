SPECIFICATION Spec
CONSTANTS
    Pulls <- OnePull
    VolumePaths <- OneEntry
    UserPaths <- Beside
    ReadOnlyDirs = TRUE
    InitialNodes <- AllNodes
    MaxInterrupts = 0
INVARIANTS
    NoStagingLeft
\* Every call ends.
CHECK_DEADLOCK FALSE
