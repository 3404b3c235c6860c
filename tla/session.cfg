\* Statement by statement on either backend, every fault at any point.
SPECIFICATION Spec
CONSTANTS
    Rows <- MCRows
    AppOf <- MCAppOf
    Bots <- MCBots
    AppsOf <- MCAppsOf
    NoRow <- MCNoRow
    NoBot = "none"
INVARIANTS
    TypeOK
    NothingOpenBetweenStatements
PROPERTIES
    ImplementsFleet
CHECK_DEADLOCK FALSE
