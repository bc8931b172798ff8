CONSTANTS
    Tokens = {A, B}
    NoId = NoId
    MaxTick = 2
    Sizes = {3}
    InitialCash = 6
    MinSwap = 1
    RetryBase = 1
    RetryCap = 2
    MaxOrders = 3
    MaxCrashes = 1
    Faults = {"callError", "ambiguous", "revert"}
SPECIFICATION Spec
SYMMETRY Interchangeable
INVARIANTS
    TypeOK
    PersistedBeforeSend
    SettledMeansHappened
    CountedOnce
    FillIsExact
    BooksBacked
    CashSettled
PROPERTIES
    NoBlindRetry
    LedgerSpec
