CONSTANTS
    Tokens = {A}
    Prices = {2, 3}
    Slip = 0
    InitialCash = 6
    MaxQty = 2
    MaxEquity = 7
    KillNum = 1
    KillDen = 5
    LossNum = 1
    LossDen = 10
    MaxEntries = 2
    Pace = 1
    QuotesFail = FALSE
SPECIFICATION Spec
INVARIANTS
    HaltedIsFlat
