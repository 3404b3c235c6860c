\* A source whose Case_IDs and Processors are texts, loaded again and again.
SPECIFICATION FairSpec
CONSTANTS
    Cases <- MCCases
    Names <- MCNames
    Blank = "blank"
    KeyOf <- MCKeyOf
    Mappings <- MCMappings
    NoMapping <- MCNoMapping
    NumericCases = FALSE
    NumericNames = FALSE
    MaxRows = 2
    MaxFaults = 1
INVARIANTS
    TypeOK
    LoadAccountsForEveryRow
PROPERTIES
    StoredRowsAreMapped
    LoadableCasesArrive
CHECK_DEADLOCK FALSE
