CONSTANTS
    Tx = {"x", "y", "z"}
    ID <- TheID
    Account = {"a", "b"}
    Origin <- TheOrigin
    Delegator <- TheDelegator
    Payer <- ThePayer
    Cost <- TheCost
    Price <- ThePrice
    Energy <- MCEnergy
    SmallPool = 200
    Adder = {"g1"}
    Scenarios <- OverlimitScenarios
SPECIFICATION Spec
CHECK_DEADLOCK FALSE
INVARIANT CostIsSum
