CONSTANTS
    Tokens = {A}
    NoId = NoId
    MaxTick = 3
    Sizes = {3}
    InitialCash = 6
    MinSwap = 1
    RetryBase = 1
    RetryCap = 2
    MaxOrders = 3
    MaxCrashes = 1
    Faults = {"callError", "ambiguous", "pollError", "logError", "revert", "transfer"}
SPECIFICATION Spec
INVARIANTS
    PersistedBeforeSend
