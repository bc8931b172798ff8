CONSTANTS
    Tokens = {A, B}
    Views <- MCViews
    Marks <- MCMarks
    Contexts <- MCContexts
    Cooldown = 2
    MinHold = 2
    MinRebalance = 2
    MinScale = 1
    MinConfirmed = 2
    MinUsd = 10
    Kill = 200
    Cutoff = 275
    DqLine = 275
    MaxPos = 550
    MaxConc = 600
    MaxRisk = 60
    StopLoss = 60
    GrossMax = 550
SYMMETRY MCTokens
SPECIFICATION Spec
INVARIANTS
    TypeOK
    BatchFits
    OnlyReduced
    ProposesBatch
    HoldingKept
PROPERTIES
    CooldownKept
    ConfirmedEntry
