SPECIFICATION RunSpec
CONSTANTS
    Families = {"HTTP", "SOCKS5"}
    Levels = {"Unknown", "Anonymous", "Elite"}
    Candidates = {"c1", "c2"}
    Requests <- MCRequests
    Advertised <- MCAdvertised
    Measured <- MCMeasured
    MaxLimit = 2
    Workers = 1
    ResultCap = 1
    MaxSignals = 1
    Source <- MCSource
    Capacity = 2
    Threshold = 2
    FallbackTimed = FALSE
    Concurrency = 1
    HostLimit = 1
    MaxAttempts = 2
    DedupCapacity = 2
    Wanted = {"a", "c"}
    Components = {"find"}
PROPERTY
    CtrlCEndsRun
CHECK_DEADLOCK FALSE
