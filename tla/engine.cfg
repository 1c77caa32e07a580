SPECIFICATION Spec
CONSTANTS
    a = a
    Symbols <- MCSymbols
    Irregular <- MCEach
    Lot = 1
    Cap = 2
    MaxOrders = 2
    MaxExits = 1
    MaxManual = 1
INVARIANTS
    TypeOK
    OneSquareOff
    SquareOffOnce
    LedgerExact
    NoLeakedReservation
PROPERTIES
    CalmExitsReduce
    KeepsPromise
    NeverReenters
    DoneIsFinal
CHECK_DEADLOCK FALSE
