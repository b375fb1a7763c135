CONSTANTS
    TempId = {0, 1}
    PushedOnEntry = 2
    VarName <- Names
    IRPrograms <- ShortPrograms
SPECIFICATION LowerSpecValues
INVARIANTS SystemVOrder
CHECK_DEADLOCK FALSE
