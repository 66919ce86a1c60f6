SPECIFICATION Spec
CONSTANTS
    Pulls <- OnePull
    Reads <- OneRead
    PullOf <- OnePullOf
    Attempts = 5
    Margin = 1
    Lives <- HourLives
    TokenLife = 12
    MaxTime = 2
INVARIANTS
    LoopReturnsOrRaises
\* All reads end.
CHECK_DEADLOCK FALSE
