\* Two bots that share an application, one of them alone on another, and a third.
SPECIFICATION FairSpec
CONSTANTS
    Rows <- MCRows
    AppOf <- MCAppOf
    Bots <- MCBots
    AppsOf <- MCAppsOf
    NoRow <- MCNoRow
    NoBot = "none"
INVARIANTS
    TypeOK
    SoleBotWorksAlone
PROPERTIES
    SoleBotFinalStays
    SoleBotRowsAreHandled
    SoleBotsImplementLifecycle
CHECK_DEADLOCK FALSE
