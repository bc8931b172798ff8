CONSTANTS
    Base = {}
    Dynamic = {dyn}
    Asset = dyn
    MaxAssets = 1
    RefreshEvery = 1
    Retain = 1
    AgeCap = 2
    Activation = 25
    Breakeven = 12
    FloorSteps <- MCFloorSteps
    TrailingFrom = 140
    TrailingGap = 55
    PartialTake = 120
    StopLoss = 60
    Prices = {92, 100, 113}
    MaxCrashes = 1
SPECIFICATION Spec
CHECK_DEADLOCK FALSE
INVARIANTS TypeOK RecentStaysMapped ValidationIsReal TakenOnce
PROPERTIES StopRatchets StopIsServed
