CONSTANTS
    Proxies = {p1, p2, p3}
    NoProxy = NoProxy
    MaxPoolSize = 2
    MaxFailures = 2
    MaxConns = 3
    MinReady = 1
SPECIFICATION FairSpec
INVARIANTS
    PoolSound
    ChargesBacked
    RoundRobinBalanced
    DrainCutsNothingOff
PROPERTIES
    EvictionEarned
    RefusedOnlyIfNoneReady
    ImplementsContract
    StopsUnlessWriteStalls
CHECK_DEADLOCK FALSE
