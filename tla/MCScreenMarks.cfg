CONSTANTS
    Recorders = {p1, p2}
    RecordsEach = 2
    MaxFaults = 3
    MaxDrops = 2
    Processes = {g1, g2}
    MaxRevision = 2
    MaxRuns = 2
    List <- MCList
    Ttl = 1
    LastTick = 3
    MaxRunsBegun = 2
    RowsPerRun = 1
    MaxResults = 1
    BusCapacity = 1
    MaxExports = 1
    Arrivals <- MCArrivals
    Typed <- MCTyped
    MaxFilter = 1
    MaxCount = 9
    PageRows = 10
    ScreenWidth = 60
    ScreenHeight = 12
    Ellipsis = 3
    Invocations <- MCInvocations
    BufferRoom = 2
SPECIFICATION Spec
CHECK_DEADLOCK FALSE
INVARIANTS
    MarksInsideCells
