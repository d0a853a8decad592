SPECIFICATION DeployTasksSpec
CONSTANTS
    Jobs = {j1}
    RealmsGos = TRUE
    HasPair = TRUE
    Extensions <- NoPackage
    Codices <- OneCodex
    Faults = {"reported", "refused", "hasty_resume"}
    Flaky = {}
    MaxRetries = 1
    MaxRunners = 2
    MaxFilings = 1
    MaxUpgrades = 0
INVARIANT RegisteredIsBootstrapped
CHECK_DEADLOCK FALSE
