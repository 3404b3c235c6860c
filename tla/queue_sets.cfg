\* Two masters, failing statements, lost connections and answers, deaths.
SPECIFICATION FairSpec
CONSTANTS
    Inputs <- MCInputs
    AppList <- MCAppList
    Masters <- MCMasters
    NoInput = "none"
    MaxFaults = 2
INVARIANTS
    TypeOK
    QueueSetsAreComplete
    SummaryIsTrue
PROPERTIES
    ImplementsQueueSets
    EveryInputIsQueued
CHECK_DEADLOCK FALSE
