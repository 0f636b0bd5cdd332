CONSTANTS
    Block <- MCBlock
    Genesis = "g"
    Parent <- MCParent
    Number <- MCNumber
    Tx = {"x", "y"}
    TxsOf <- MCTxsOf
    Goroutine <- MCGoroutine
    NoOne = "no one"
    Syncer = "sync"
    Scenarios <- MCScenarios
    MaxBlocks = 2
SPECIFICATION DSpec
INVARIANTS VersionsUnique IndexIsPath DataIsOwn HeadsAreLeaves TxLookupExact AncestorIsHighest StreamConnects DoneIsComplete
PROPERTY ImplementsTree
