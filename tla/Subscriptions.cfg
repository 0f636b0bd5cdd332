CONSTANTS
    Block <- MCBlock
    Genesis = "g"
    Parent <- MCParent
    Number <- MCNumber
    LogsOf <- MCLogsOf
    Rank <- MCRank
    MaxRestarts = 2
    Faults <- MCFaults
    Subscriber = {"s"}
    BacktraceLimit = 2
    Word = 8
    MaxSubscribes = 1
    Served <- MCServed
    ServedRestarts = 0
    Time <- MCTime
    MaxBlockNumber = 7
    Bounds = {1, 2, 3, 5, 8, 11}
SPECIFICATION FairSpec
CHECK_DEADLOCK FALSE
INVARIANTS TypeOK LogsMatchBest NoGap StreamApplies  NoMissedWake RangeIsExact
PROPERTIES ToldAfterLogs CatchesUp
