SPECIFICATION Spec
CONSTANTS
    Jobs = {j1}
    Realm <- OneRealm
    ProvisionViaCasals = TRUE
    Interventions <- Everybody
    Faults <- AllButTheLock
    MaxKicks = 2
    MaxPasses = 2
    MaxRunners = 1
    MaxSettle = 1
INVARIANTS TypeOK OnePassHoldsTheLock UnfinishedTaskHasRunner
PROPERTY ImplementsLife
CHECK_DEADLOCK FALSE
