SPECIFICATION Spec
CONSTANTS
    a = a  b = b  x = x  y = y
    v1 = v1  v2 = v2  r1 = r1  r2 = r2
    Nothing = Nothing  Unsigned = Unsigned
    Securities <- OneSecurity
    Sources <- OneSource
    SourcesOf <- OneSourceOf
    Versions <- TwoVersions
    Rows <- OneRow
    Modes <- Incremental
    Orchestrated = TRUE
    MaxChanges = 3
    MaxFaults = 1
INVARIANTS PlannerSeesEveryChange
