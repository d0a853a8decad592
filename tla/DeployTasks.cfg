SPECIFICATION DeployTasksSpec
CONSTANTS
    Jobs = {j1, j2}
    RealmsGos = TRUE
    HasPair = FALSE
    Extensions <- OneExtension
    Codices <- NoPackage
    Faults <- AllButHaste
    Flaky = {"founder_admin"}
    MaxRetries = 1
    MaxRunners = 1
    MaxFilings = 1
    MaxUpgrades = 1
INVARIANTS DeployTasksTypeOK RecordIsTrue TaskHasRunner RegisteredIsBootstrapped
PROPERTIES AdminBeforeLaunch CompletedStepStays
CHECK_DEADLOCK FALSE
