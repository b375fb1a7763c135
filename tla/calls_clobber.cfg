CONSTANTS
    VirtId = {0, 1, 2}
    GeneralRegs <- ThreeRegs
    OneLength = 4
    TwoLength = 1
    Programs <- LinearPrograms
SPECIFICATION SpecValues
INVARIANTS CallsDontClobber
CHECK_DEADLOCK FALSE
