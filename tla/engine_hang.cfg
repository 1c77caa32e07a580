SPECIFICATION FairSpec
CONSTANTS
    a = a
    Symbols <- MCSymbols
    Irregular <- MCNone
    Lot = 1
    Cap = 2
    MaxOrders = 2
    MaxExits = 0
    MaxManual = 0
PROPERTY ShutdownEnds
CHECK_DEADLOCK FALSE
