CONSTANTS
    TempId = {0, 1}
    PushedOnEntry = 2
    VarName <- Names
    IRPrograms <- SmallPrograms
SPECIFICATION LowerSpecValues
INVARIANTS
    LowerTypeOK
    LocationsDistinct
    StateSimulated
    TraceSimulated
    ArgumentsDelivered
    StaysInFrame
    CodeIsLinear
CHECK_DEADLOCK FALSE
