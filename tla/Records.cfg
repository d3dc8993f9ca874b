SPECIFICATION Spec
CONSTANTS
    p1 = p1  p2 = p2  d1 = d1  d2 = d2  r1 = r1  r2 = r2  k1 = k1  k2 = k2  t1 = t1  t2 = t2
    s1 = s1  s2 = s2  q1 = q1  q2 = q2  q3 = q3  c1 = c1
    StoreProcs = {p1, p2}
    DataSets = {d1, d2}
    RowKeys = {r1, r2}
    MaxWrites = 3
    WriteRetries = 2
    Threads = {t1, t2}
    CheckpointKeys = {k1, k2}
    NullKeys = {k2}
    FlushSize = 2
    MaxAdds = 5
    Releases <- ThreeReleases
    QlibSymbols = {s1, s2}
    MaxTarget = 3
    LeapYears = {1}
    LastYear = 1
    BarValues <- SmallValues
    RestatedValues = {0}
    Windows = {1}
    MaxBars = 3
    MaxRestated = 1
    MaxRuns = 2
    Queries = {q1, q2, q3}
    Pages <- OneTwoThree
    MaxPages = 2
    MaxAttempts = 3
    MaxCalls = 3
    ReportCodes = {c1}
    MaxDate = 3
    Priorities = {1, 2}
    MaxChanges = 2
    ReportLookback = 1
    Retention = 2
SYMMETRY Alike
INVARIANTS NoRowLost InventoryAgrees LastOutcomeWins QlibStatusHonest
           PercentilesAreFull AnswerIsWhole NoReportForgotten
CHECK_DEADLOCK FALSE
