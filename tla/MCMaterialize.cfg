\* Three pulls of two versions into any of the listed destinations.
SPECIFICATION Spec
CONSTANTS
    Names <- MCNames
    Paths <- MCPaths
    Contents <- MCContents
    Modes <- MCModes
    Versions <- MCVersions
    Includes <- MCIncludes
    Trees <- MCTrees
    MaxPulls = 3
INVARIANTS
    TypeOK
    TreeIsManifest
    NoPermissionNeeded
    NothingOutside
PROPERTIES
    UserFilesKept
\* The pulls may all be over.
CHECK_DEADLOCK FALSE
