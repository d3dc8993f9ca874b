SPECIFICATION Spec
CONSTANTS
    NoStep = NoStep
    NoDate = NoDate
    Order <- SmallOrder
    Conf <- SmallConf
    MaxDay = 2
    TradingDays = {0, 2}
    FriToSun = {2}
    Options <- Repairing
    MaxFaults = 1
INVARIANTS ExitCodeHonest FullRunUpToDate
