\* A periodic master bot that never ends by itself: due runs, refreshes, waits.
SPECIFICATION FairSpec
CONSTANTS
    Rows <- MCTwoRows
    AppOf <- MCAppOf
    Steps <- MCSteps
    RetryLimit = 1
    WaitLimit = 1
    Masterbot = TRUE
    Periodic = TRUE
    NoRow <- MCNoRow
    NoApp = "none"
    MaxRuns = 2
    MaxMasterRuns = 3
INVARIANTS
    EndIsFinal
PROPERTIES
    EligibleIsServed
CHECK_DEADLOCK FALSE
