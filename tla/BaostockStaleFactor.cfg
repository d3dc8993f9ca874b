SPECIFICATION Spec
CONSTANTS
    v1 = v1  v2 = v2
    None = None  NoFactors = NoFactors
    MaxDay = 3
    Lookback = 1
    Versions <- TwoVersions
    Requests <- WithFactors
    MaxTroubles = 1
INVARIANT SkippedIsAdjusted
CHECK_DEADLOCK FALSE
