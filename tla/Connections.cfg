SPECIFICATION PoolSpec
CONSTANTS
    Requests = {r1, r2, r3}
    MayFail = TRUE
    MaxConns = 2
    DefaultTimeout = TRUE
INVARIANTS
    PoolTypeOK
    NoCircularWait
PROPERTY EveryCallReturns
CHECK_DEADLOCK FALSE
