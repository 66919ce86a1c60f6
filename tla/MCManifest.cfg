SPECIFICATION Spec
CONSTANTS
    Parts <- MCParts
    Records <- MCRecords
    Headers <- MCHeaders
    Sizes <- MCSizes
    MaxHops = 2
    MaxFollowed = 4
    MaxRecords = 3
INVARIANTS
    ChunksTile
    EntriesFit
    RealIsLookup
    PlainWrittenIsReal
\* Reading ends.
CHECK_DEADLOCK FALSE
