CONSTANTS
    Tx = {"x", "y"}
    ID <- TheID
    Account = {"a", "b"}
    Origin <- TheOrigin
    Delegator <- TheDelegator
    Payer <- ThePayer
    Cost <- TheCost
    Price <- ThePrice
    Energy <- MCEnergy
    SmallPool = 200
    Adder = {"g1"}
    Scenarios <- PublishScenarios
SPECIFICATION FairSpec
CHECK_DEADLOCK FALSE
PROPERTY ReadyIsPublished
