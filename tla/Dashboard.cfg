SPECIFICATION FairDashboardSpec
CONSTANTS
    j1 = j1
    Jobs = {j1}
    Taken = {"provisioning", "failed", "failed_verification", "cancelled", "completed"}
    Settled = {"completed"}
    Age <- Age1
    Name <- OneName
    Backend <- OneBackend
    Requests = {"retry", "removal", "destruction"}
    Overlap = 2
INVARIANTS DashboardTypeOK DestroyedCardMeansGone
PROPERTIES CardsCatchUp SuccessIsNotUndone
CHECK_DEADLOCK FALSE
