CONSTANTS
    Tokens = {A, B, C}
    Views <- MCRivals
    Marks <- MCOneMark
    Contexts <- MCBehind
    Cooldown = 2
    MinHold = 2
    MinRebalance = 2
    MinScale = 1
    MinConfirmed = 2
    MinUsd = 10
    Kill = 200
    Cutoff = 275
    DqLine = 275
    MaxPos = 550
    MaxConc = 600
    MaxRisk = 60
    StopLoss = 60
    GrossMax = 550
SPECIFICATION Spec
INVARIANTS
    KeptUnlessBeaten
