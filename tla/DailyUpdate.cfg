SPECIFICATION UpdateSpec
CONSTANTS
    p1 = p1  p2 = p2  p3 = p3
    host1 = host1  host2 = host2
    Procs = {p1, p2, p3}
    HostOf <- TwoHosts
    StaleAfter = 0
    MaxClock = 1
    NoDir = NoDir
    NoOwner = NoOwner
    NoStep = NoStep
    NoDate = NoDate
    Order <- FullOrder
    Conf <- FullConf
    MaxDay = 1
    TradingDays = {0, 1}
    FriToSun = {}
    Options <- FullOptions
    MaxFaults = 1
    c1 = c1  c2 = c2  c3 = c3
    UpdateCodes <- ThreeCodes
    Workers = 2
    MaxPending = 4
    Targets <- EveryTarget
INVARIANTS LockTypeOK ExclusionUnlessRobbed NoLeftover
           TypeOK SuccessIsTrue ZeroMeansDone OneChildPerRun BlockedByFailureOnly
           PoolTypeOK PendingBounded NoNestedDrain InputsAtHand AllRecorded
PROPERTIES AcquireEnds WorkflowEventuallyClean PoolRunEnds TasksInTurn
