CONSTANTS
    Tokens = {A, B}
    NoId = NoId
    MaxTick = 1
    Sizes = {2}
    InitialCash = 5
    MinSwap = 1
    RetryBase = 1
    RetryCap = 2
    MaxOrders = 3
    MaxCrashes = 1
    Faults = {"callError", "ambiguous", "revert"}
SPECIFICATION FairSpec
PROPERTIES
    LandedIsBooked
