SPECIFICATION DeploymentSpec
CONSTANTS
    Users = {u1}
    Jobs = {j1}
    Calls = {c1, c2}
    Realm <- OneRealm
    NoUser = NoUser
    NoId = NoId
    Cost = 1
    TopUps <- OneOrTooMuch
    Gifts <- Nothing
    MaxTopUp = 1
    MaxPurchased = 1
    TestModes <- OpenOrClosed
    ReplyFirst = TRUE
    Losses <- AllLosses
    ProvisionViaCasals = TRUE
    Interventions <- Operators
    Faults <- AllAndRestarts
    MaxKicks = 2
    MaxPasses = 2
    MaxRunners = 2
    MaxSettle = 1
INVARIANTS
    Conservation
    Solvency
    AcceptedCallHasPaid
    CapturedOnlyIfCompleted
PROPERTIES
    SettlementIsFinal
    CompletedIsFinal
    Spec
CHECK_DEADLOCK FALSE
