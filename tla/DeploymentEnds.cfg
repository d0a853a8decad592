SPECIFICATION FairDeploymentSpec
CONSTANTS
    Users = {u1}
    Jobs = {j1}
    Calls = {c1, c2}
    Realm <- OneRealm
    NoUser = NoUser
    NoId = NoId
    Cost = 1
    TopUps <- Nothing
    Gifts <- OneDeployment
    MaxTopUp = 1
    MaxPurchased = 1
    TestModes <- Closed
    ReplyFirst = TRUE
    Losses <- Nothing
    ProvisionViaCasals = TRUE
    Interventions <- Nothing
    Faults <- AllAtBadMoments
    MaxKicks = 2
    MaxPasses = 2
    MaxRunners = 2
    MaxSettle = 2
PROPERTIES
    HoldIsSettled
    EveryJobEnds
CHECK_DEADLOCK FALSE
