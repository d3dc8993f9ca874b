SPECIFICATION LockSpec
CONSTANTS
    p1 = p1
    p2 = p2
    p3 = p3
    host1 = host1
    host2 = host2
    Procs = {p1, p2, p3}
    HostOf <- TwoHosts
    StaleAfter = 1
    MaxClock = 3
    NoDir = NoDir
    NoOwner = NoOwner
SYMMETRY SameHost
INVARIANTS MutualExclusion
CHECK_DEADLOCK FALSE
