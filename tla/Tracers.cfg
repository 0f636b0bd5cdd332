CONSTANTS
    Scenarios <- MCScenarios
    MaxDepth = 3
SPECIFICATION Spec
CHECK_DEADLOCK FALSE
INVARIANTS ResultIsComplete NgramsOfOneFrame EvmdisFollowsCalls EvmdisResults
 
