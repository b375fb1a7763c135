CONSTANTS
    TempId = {0, 1, 2, 3, 4, 5, 6, 7}
    PushedOnEntry = 2
    VarName <- ProducedNames
    IRPrograms <- ProducedPrograms
SPECIFICATION LowerSpecValues
INVARIANTS
    FramesGoRight
    StateSimulated
    TraceSimulated
    CodeIsLinear
PROPERTIES LowerTermination
CHECK_DEADLOCK FALSE
