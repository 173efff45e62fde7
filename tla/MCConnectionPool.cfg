SPECIFICATION FairSpec
CONSTANTS
    Calls = {a, b}
    Conns = {n1, n2}
    None = None
    Failed = Failed
    MaxIdle = 1
    Canceled = {a}
    MaxTries = 1
INVARIANTS
    PoolInv
    CleanReuse
PROPERTIES
    EveryConnectionClosed
    IdleLimitRestored
CHECK_DEADLOCK FALSE
