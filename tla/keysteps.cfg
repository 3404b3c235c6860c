\* Every worksheet of up to three rows.
SPECIFICATION Spec
CONSTANTS
    RowValues <- MCRowValues
    MaxRows = 3
INVARIANTS
    TypeOK
    ParsersAgree
PROPERTIES
    SessionRunsItsOwnModules
CHECK_DEADLOCK FALSE
