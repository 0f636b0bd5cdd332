CONSTANTS
    Master = {"a", "b", "c"}
    Nil = "nil"
    Endorsor <- MCEndorsor
    Account = {"x", "y"}
    Genesis <- MCGenesis
    InitialMaxBlockProposers = 3
    Limits = {0, 1}
    BlockInterval = 2
    VIP214s = {1, 2}
    EpochInterval = 1
    Dprp <- MCDprp
    Hash <- MCHash
    TargetGasLimit <- MCTargetGasLimit
    InitialGasLimit = 9
    MinGasLimit = 8
    GasLimitBoundDivisor = 4
    Self = "a"
    MaxBlocks = 3
    MaxTime = 8
SPECIFICATION Spec
INVARIANTS ListIsSound Agreement EarlierScoresHigher
CHECK_DEADLOCK FALSE
