SPECIFICATION FairSpec
CONSTANTS
    a = a
    b = b
    Symbols <- TwoSymbols
    Irregular <- MCEach
    Lot = 1
    MaxOrders = 2
    MaxExits = 1
INVARIANTS
    TypeOK
    BooksAgree
    BookedExact
    CheckCoversBook
    NoStrayResult
    ReservationsSettle
    ExitedFlat
PROPERTIES
    RetryPossible
    HandoffReached
CHECK_DEADLOCK FALSE
