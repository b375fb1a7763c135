CONSTANTS
    MaxLoops = 6
    CPrograms <- WellBehavedPrograms
SPECIFICATION MachineSpec
INVARIANTS
    ReturnsWhatCReturns
    TemporariesLinear
    JumpsResolve
PROPERTIES CodeReturns
CHECK_DEADLOCK FALSE
