CONSTANTS
    CheckpointInterval = 2
    FINALITY = 2
    MaxBlockProposers = 2
    InitialMaxBlockProposers = 101
    Signer <- MCSigner
    Score <- MCScore
    Master = 0
    MaxNumber = 5
    MaxBlocks = 7
    MaxStale = 7
    MaxHeads = 2
    MaxRestarts = 1
    CrashAnywhere = TRUE
    Queries = FALSE
SPECIFICATION Spec
INVARIANT SavedQualityIsTrue
CHECK_DEADLOCK FALSE
