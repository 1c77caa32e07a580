SPECIFICATION Spec
CONSTANTS
    x1 = x1
    x2 = x2
    x3 = x3
    Symbols <- ThreeSymbols
    Active <- TwoActive
    Position <- Places
    Masters <- MCMasters
    Allocation = 700
    Profits = {0, 1, 3}
    Funds <- MCFunds
    Leverages = {1, 2}
    Irregular <- MCEach
    MaxTicks = 2
INVARIANTS
    TypeOK
    AllCashShared
    SharesByRank
    BlockedPreserves
    LiveIsSaved
    OutsidersKept
PROPERTIES
    ChangedOnce
CHECK_DEADLOCK FALSE
