CONSTANTS
    TempId = {0, 1, 2, 3, 4, 5, 6, 7}
    PushedOnEntry = 2
    VarName <- ProducedNames
    IRPrograms <- NestedPrograms
SPECIFICATION LowerSpecValues
INVARIANTS NestedReadsKeepVariables
CHECK_DEADLOCK FALSE
