SPECIFICATION FairSpec
CONSTANTS
    a = a  b = b  x = x  y = y
    v1 = v1  v2 = v2  r1 = r1  r2 = r2
    Nothing = Nothing  Unsigned = Unsigned
    Securities <- TwoSecurities
    Sources <- TwoSources
    SourcesOf <- TwoSourcesOf
    Versions <- TwoVersions
    Rows <- TwoRows
    Modes <- EveryMode
    Orchestrated = TRUE
    MaxChanges = 3
    MaxFaults = 1
INVARIANTS TypeOK SkippedIsCurrent
PROPERTIES FullBuildRepairs EventuallyCurrent
