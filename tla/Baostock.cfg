SPECIFICATION FairSpec
CONSTANTS
    v1 = v1  v2 = v2
    None = None  NoFactors = NoFactors
    MaxDay = 3
    Lookback = 1
    Versions <- TwoVersions
    Requests <- Sessions
    MaxTroubles = 2
INVARIANTS NoGaps SuccessAgrees SkippedIsDone
PROPERTIES KeepsItsDays EventuallyDone
CHECK_DEADLOCK FALSE
