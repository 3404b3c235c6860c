\* A connection lost in the middle of a queue set ends the run.
SPECIFICATION Spec
CONSTANTS
    Inputs <- MCInputs
    AppList <- MCAppList
    Masters <- MCMasters
    NoInput = "none"
    MaxFaults = 2
INVARIANTS
    QueueSetFailureIsRecorded
CHECK_DEADLOCK FALSE
