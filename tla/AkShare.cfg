SPECIFICATION Spec
CONSTANTS
    p1 = p1  p2 = p2  c1 = c1  c2 = c2
    TaskCount = 3
    Policies <- ThreePolicies
    Statements = 2
    TimeoutThreads = 2
    Retries = 2
    FailureThreshold = 1
    MaxCooldowns = 1
    WindowSize = 2
    RecoverySuccesses = 2
    ConsecutiveFailures = 2
    QueueProcs = {p1, p2}
    QueueCodes = {c1, c2}
    MaxAnnounced = 2
    SpotDays = 3
    TradingDays = {1, 3}
    SpotCodes = {c1, c2}
    DelistedCodes = {c2}
    MaxSpotRuns = 3
INVARIANTS OneOutcome CircuitHolds NothingOwedIsLost SpotBarsAreCloses
PROPERTIES UpdateEnds
CHECK_DEADLOCK FALSE
