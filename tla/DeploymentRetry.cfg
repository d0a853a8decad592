SPECIFICATION DeploymentSpec
CONSTANTS
    Users = {u1}
    Jobs = {j1}
    Calls = {c1}
    Realm <- OneRealm
    NoUser = NoUser
    NoId = NoId
    Cost = 1
    TopUps <- Nothing
    Gifts <- OneDeployment
    MaxTopUp = 1
    MaxPurchased = 1
    TestModes <- Closed
    ReplyFirst = TRUE
    Losses <- Nothing
    ProvisionViaCasals = TRUE
    Interventions <- OnlyRetry
    Faults <- StepsFail
    MaxKicks = 1
    MaxPasses = 1
    MaxRunners = 1
    MaxSettle = 2
INVARIANTS
    SettledAsReported
CHECK_DEADLOCK FALSE
