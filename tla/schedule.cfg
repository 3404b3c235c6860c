\* A masterbot with and without an interval, on a clock that may be set.
SPECIFICATION Spec
CONSTANTS
    Intervals <- MCIntervals
    WaitSeconds = 2
    WaitLimit = 2
    BatchCount = 2
    MaxTicks = 14
    MaxSet = 2
INVARIANTS
    DueRunIsInTime
    LateRowsAreLimited
PROPERTIES
    RunsAreSpaced
CHECK_DEADLOCK FALSE
