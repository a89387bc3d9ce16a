SPECIFICATION FairSpec
CONSTANTS
    Proxies = {p1, p2}
    NoProxy = NoProxy
    MaxPoolSize = 4
    MaxFailures = 2
    PoolSize = 1
    Plan <- FullPlan
    Workers = 1
    GroupCap = 1
    ResultCap = 1
INVARIANTS
    OvershootBounded
    ReadyWhenFeedEnds
    SuccessMeansDrained
PROPERTIES
    GateReopens
    CtrlCEndsRun
CHECK_DEADLOCK FALSE
