CONSTANTS
    Proxies = {p1, p2, p3}
    NoProxy = NoProxy
    MaxPoolSize = 2
    MaxFailures = 2
    MaxConns = 2
    MinReady = 1
SPECIFICATION FairSpec
PROPERTY
    DrainAlwaysTerminates
CHECK_DEADLOCK FALSE
