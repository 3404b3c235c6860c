\* One master run per process, bounded waits, a crash and a restart.
SPECIFICATION FairSpec
CONSTANTS
    Rows <- MCRows
    AppOf <- MCAppOf
    Steps <- MCSteps
    RetryLimit = 1
    WaitLimit = 1
    Masterbot = TRUE
    Periodic = FALSE
    NoRow <- MCNoRow
    NoApp = "none"
    MaxRuns = 2
    MaxMasterRuns = 1
INVARIANTS
    TypeOK
    HeldRowIsActive
    NothingHeldBetweenRows
    ProcessedInOwnSession
    BatchWithinLimit
    OneInProgressPerApp
    CleanExitLeavesNothingOpen
    CommentsAreOwn
PROPERTIES
    FailedAfterAllRetries
    ImplementsLifecycle
    Termination
CHECK_DEADLOCK FALSE
