\* Numeric Case_IDs: an empty cell changes the identifiers of all rows.
SPECIFICATION Spec
CONSTANTS
    Cases <- MCNumberCases
    Names <- MCNumberNames
    Blank = "blank"
    KeyOf <- MCNumberKeyOf
    Mappings <- MCNumberMapping
    NoMapping <- MCNoMapping
    NumericCases = TRUE
    NumericNames = TRUE
    MaxRows = 2
    MaxFaults = 0
INVARIANTS
    OneInputPerCase
CHECK_DEADLOCK FALSE
