CONSTANTS
    Prices = {1, 3}
    Stake = 6
    Unit = 2
    MaxTx = 2
    MaxHist = 2
    MinCap = 5
    Unknown = Unknown
SPECIFICATION Spec
INVARIANTS TypeOK DepositNeutral JudgeRecovers
