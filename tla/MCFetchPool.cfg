SPECIFICATION Spec
CONSTANTS
    Files <- MCFiles
    Chunks <- MCChunks
    FileOrder <- MCFileOrder
    PlanOf <- MCPlanOf
    Listed <- MCListed
    Charge <- MCCharge
    Limit <- MCLimit
    Workers <- MCWorkers
    MaxInterrupts = 2
INVARIANTS
    BudgetFollowsWorkers
    SumIsExact
    SomeWorkerRuns
PROPERTIES
    NothingLost
    Termination
    ImplementsTransfer
    ImplementsBudget
\* The transfer ends: nothing runs any more afterwards.
CHECK_DEADLOCK FALSE
