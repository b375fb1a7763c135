CONSTANTS
    MaxLoops = 6
    StackTop = 1024
    StackSize = 1024
    TempId <- TempIds
    VirtId <- VirtIds
    VarName <- CompiledNames
    CPrograms <- CompiledPrograms
SPECIFICATION CompilerSpec
INVARIANTS
    ExitsWithMeaning
    ReturnsToCaller
    StoresAboveStackPointer
    OperandSizesAgree
PROPERTIES CompiledProgramExits
CHECK_DEADLOCK FALSE
