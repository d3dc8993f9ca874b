SPECIFICATION Spec
CONSTANTS
    NoStep = NoStep
    NoDate = NoDate
    Order <- PairOrder
    Conf <- PairConf
    MaxDay = 1
    TradingDays = {0, 1}
    FriToSun = {1}
    Options <- OnlyPlain
    MaxFaults = 0
INVARIANTS DerivedAfterUpstream
