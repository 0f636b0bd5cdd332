CONSTANTS
    Block <- MCBlock
    Genesis = "g"
    Parent <- MCParent
    Number <- MCNumber
    LogsOf <- MCLogsOf
    Rank <- MCRank
    MaxRestarts = 1
    Faults <- MCStops
SPECIFICATION Spec
CHECK_DEADLOCK FALSE
INVARIANT VerifyPasses
