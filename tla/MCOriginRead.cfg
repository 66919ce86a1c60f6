SPECIFICATION Spec
CONSTANTS
    Pulls <- TwoPulls
    Reads <- TwoReads
    PullOf <- ReadsOfOne
    Attempts = 2
    Margin = 1
    Lives <- ShortLives
    TokenLife = 2
    MaxTime = 1
INVARIANTS
    OneVersion
PROPERTIES
    NeverOlder
    RejectedNotReused
    FreshTokenKept
    EveryReadEnds
\* All reads end.
CHECK_DEADLOCK FALSE
