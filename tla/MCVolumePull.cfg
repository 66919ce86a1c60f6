SPECIFICATION Spec
CONSTANTS
    Pulls <- TwoPulls
    VolumePaths <- TwoEntries
    UserPaths <- Beside
    ReadOnlyDirs = FALSE
    InitialNodes <- AllNodes
    MaxInterrupts = 1
INVARIANTS
    ReturnedIsThere
    CleanedUp
PROPERTIES
    PublishesAtomically
\* Every call ends.
CHECK_DEADLOCK FALSE
