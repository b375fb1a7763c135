CONSTANTS
    VirtId = {0, 1, 2}
    GeneralRegs <- TwoRegs
    OneLength = 4
    TwoLength = 2
    Programs <- AllPrograms
SPECIFICATION SpecValues
INVARIANTS
    TypeOK
    NoInterference
    UsedExact
    ThrowsOnlyWhenFull
    ValuesKept
PROPERTIES
    StableRegister
    ImplementsRegisterFile
    Termination
\* The compiler stops when it has finished or thrown.
CHECK_DEADLOCK FALSE
