CONSTANTS
    Tokens = {A}
    NoId = NoId
    MaxTick = 3
    Sizes = {2}
    InitialCash = 5
    MinSwap = 1
    RetryBase = 1
    RetryCap = 2
    MaxOrders = 2
    MaxCrashes = 0
    Faults = {"pollError"}
SPECIFICATION Spec
PROPERTIES
    NoBlindRetry
