CONSTANTS
    MaxLoops = 6
    CPrograms <- IfPrograms
SPECIFICATION MachineSpec
INVARIANTS ConvertedIfRight
CHECK_DEADLOCK FALSE
