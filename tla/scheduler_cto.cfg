\* Details left over from a finished row reach the next one.
SPECIFICATION Spec
CONSTANTS
    Rows <- MCRows
    AppOf <- MCAppOf
    Steps <- MCShortSteps
    RetryLimit = 1
    WaitLimit = 0
    Masterbot = FALSE
    Periodic = FALSE
    NoRow <- MCNoRow
    NoApp = "none"
    MaxRuns = 1
    MaxMasterRuns = 1
INVARIANTS
    CtoDetailsAreOwn
CHECK_DEADLOCK FALSE
