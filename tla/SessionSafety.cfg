CONSTANTS
    Tokens = {A, B}
    Prices = {2, 3}
    Slip = 1
    InitialCash = 6
    MaxQty = 2
    MaxEquity = 7
    KillNum = 1
    KillDen = 5
    LossNum = 1
    LossDen = 10
    MaxEntries = 1
    Pace = 1
    QuotesFail = TRUE
SPECIFICATION Spec
SYMMETRY Interchangeable
INVARIANTS
    TypeOK
    EntriesBounded
PROPERTIES
    GateSeesLosses
    RotationPaired
    HaltedIsQuiet
