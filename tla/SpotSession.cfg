SPECIFICATION Spec
CONSTANTS
    p1 = p1  p2 = p2  c1 = c1  c2 = c2
    TaskCount = 1
    Policies <- ThreePolicies
    Statements = 2
    TimeoutThreads = 2
    Retries = 2
    FailureThreshold = 1
    MaxCooldowns = 1
    WindowSize = 2
    RecoverySuccesses = 2
    ConsecutiveFailures = 2
    QueueProcs = {p1, p2}
    QueueCodes = {c1, c2}
    MaxAnnounced = 1
    SpotDays = 3
    TradingDays = {1, 3}
    SpotCodes = {c1, c2}
    DelistedCodes = {c2}
    MaxSpotRuns = 3
INVARIANT SessionRunsStopped
CHECK_DEADLOCK FALSE
