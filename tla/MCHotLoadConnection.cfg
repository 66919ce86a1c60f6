SPECIFICATION Spec
CONSTANTS
    a1 = a1  a2 = a2  d1 = d1  d2 = d2  g = g  p = p
    Attaches = {a1, a2}
    Detaches = {d1, d2}
    Lookups = {g}
    Probes = {p}
    TargetOf <- MCTargetOf
    VictimOf <- MCVictimOf
    Mixes <- MCMixes
    MaxRetries = 1
    MaxStops = 1
INVARIANT ConnectionMessageIsRight
\* Every call may be over and the daemon up for good.
CHECK_DEADLOCK FALSE
