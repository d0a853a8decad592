SPECIFICATION DeploymentSpec
CONSTANTS
    Users = {u1}
    Jobs = {j1}
    Calls = {c1, c2}
    Realm <- OneRealm
    NoUser = NoUser
    NoId = NoId
    Cost = 1
    TopUps <- Nothing
    Gifts <- OneDeployment
    MaxTopUp = 1
    MaxPurchased = 1
    TestModes <- Closed
    ReplyFirst = TRUE
    Losses <- AllButRejected
    ProvisionViaCasals = TRUE
    Interventions <- Owners
    Faults <- AllButRestarts
    MaxKicks = 2
    MaxPasses = 1
    MaxRunners = 1
    MaxSettle = 1
INVARIANTS
    DeploymentTypeOK
    SettledAsItEnded
    RegisteringIsDriven
PROPERTY LedgerSpec
CHECK_DEADLOCK FALSE
