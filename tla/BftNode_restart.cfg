CONSTANTS
    CheckpointInterval = 3
    FINALITY = 1
    MaxBlockProposers = 2
    InitialMaxBlockProposers = 101
    Signer <- MCSigner
    Score <- MCScore
    Master = 0
    MaxNumber = 6
    MaxBlocks = 7
    MaxStale = 7
    MaxHeads = 2
    MaxRestarts = 1
    CrashAnywhere = TRUE
    Queries = TRUE
SPECIFICATION Spec
INVARIANTS   QualityNeverTooHigh
CHECK_DEADLOCK FALSE
