CONSTANTS
    Plan <- MCPlan
    Limit = 2
    GroupCap = 1
    ResultCap = 1
    MaxPauses = 1
    Judges = {j1, j2}
    Probers = {w1, w2}
    Sound = {w1}
    Kinds = {"http", "https"}
    Timeout = 2
    MaxAttempts = 2
    RetryDelay = 1
    Cooldown = 2
    PreflightRetries = 1
    CursorCycle = 2
SPECIFICATION RunSpec
\* A validation stops when every candidate is settled or the consumer drops.
CHECK_DEADLOCK FALSE
INVARIANTS
    GroupsAllOrNothing
    SkipsAreExcused
    EndsSettled
    SoundProxyPasses
    GivesUpWithCause
    EndsInBudget
    DeadlinesFire
PROPERTIES
    ValidationEnds
