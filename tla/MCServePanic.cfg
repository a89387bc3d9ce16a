SPECIFICATION Spec
CONSTANTS
    Proxies = {p1, p2}
    NoProxy = NoProxy
    MaxPoolSize = 4
    MaxFailures = 2
    PoolSize = 1
    Plan <- PlainPlan
    Workers = 1
    GroupCap = 1
    ResultCap = 1
INVARIANT
    NeverPanics
CHECK_DEADLOCK FALSE
