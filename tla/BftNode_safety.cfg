CONSTANTS
    CheckpointInterval = 2
    FINALITY = 2
    MaxBlockProposers = 2
    InitialMaxBlockProposers = 101
    Signer <- MCSigner
    Score <- MCScore
    Master = 0
    MaxNumber = 5
    MaxBlocks = 10
    MaxStale = 7
    MaxHeads = 2
    MaxRestarts = 0
    CrashAnywhere = FALSE
    Queries = FALSE
SPECIFICATION Spec
INVARIANTS NoConflictingFinality  SavedQualityIsTrue JustifiedIsRight
PROPERTIES FinalizedOnlyAdvances 
CHECK_DEADLOCK FALSE
