SPECIFICATION TrackerSpec
CONSTANTS
    Jobs = {j1}
    Tracked = j1
    StepKinds <- TwoSteps
    Turns = {"step_fails"}
    MaxTime = 2
    MaxVisits = 1
    Overlap = 1
    PollsFail = FALSE
INVARIANT PartialIsNotComplete
CHECK_DEADLOCK FALSE
