SPECIFICATION FairTrackerSpec
CONSTANTS
    Jobs = {j1}
    Tracked = j1
    StepKinds <- OneStep
    Turns <- AllTurns
    MaxTime = 4
    MaxVisits = 1
    Overlap = 1
    PollsFail = TRUE
INVARIANTS TrackerTypeOK RetryClockFollowsFailure
PROPERTIES ProgressMovesForward EndIsShown
CHECK_DEADLOCK FALSE
