SPECIFICATION Spec
CONSTANTS
    Syms = {s1, s2}
    Sessions = {t1}
    SectorOf <- OneSector
    Feeds <- FewFeeds
    MaxDay = 3
    FirstPrice = 10
    Equity = 40
    RiskBudget = 2
    NameCap = 12
    SectorCap = 18
    HaltPct = 3
    PausePct = 7
    BandPct = 25
    Premium = 0
    StopGap = 2
    TargetGap = 2
    BuyFee = 1
    SellFee = 0
    CrashAllowed = TRUE
SYMMETRY Symmetry
CHECK_DEADLOCK FALSE
INVARIANTS
    ArmedXor
    PositionIdentity
    PeakIsRunningHigh
PROPERTIES
    ClocksKeep
