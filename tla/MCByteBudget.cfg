SPECIFICATION Spec
CONSTANTS
    Callers <- MCCallers
    Charge <- MCCharge
    Limit <- MCLimit
INVARIANTS
    Accounting
    BudgetBound
    NoLostWakeup
PROPERTIES
    EveryCallAdmitted
\* Every call ends: the system stops once all are released.
CHECK_DEADLOCK FALSE
