CONSTANTS
    Tx = {"x", "y", "z"}
    ID <- TheID
    Account = {"a", "b"}
    Origin <- TheOrigin
    Delegator <- TheDelegator
    Payer <- ThePayer
    Cost <- TheCost
    Price <- ThePrice
    Energy <- MCEnergy
    SmallPool = 200
    Adder = {"g1", "g2"}
    Scenarios <- PoolScenarios
SPECIFICATION Spec
CHECK_DEADLOCK FALSE
INVARIANTS QuotaIsCount WashCutsToLimit CostIsSumWithRoom RemoteBounded
