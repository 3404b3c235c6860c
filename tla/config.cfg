\* Every combination of three layers.
SPECIFICATION Spec
CONSTANTS
    Keys = {"a", "b", "x", "y"}
    Paths <- MCPaths
    Leaves = {"on", "off"}
INVARIANTS
    LastLayerWins
PROPERTIES
    EmptyNeverOverwrites
CHECK_DEADLOCK FALSE
