CONSTANTS
    MaxLoops = 6
    StackTop = 1024
    StackSize = 1024
    TempId <- TempIds
    VirtId <- VirtIds
    VarName <- CompiledNames
    CPrograms <- VariableFreeMain
SPECIFICATION CompilerSpec
INVARIANTS ReturnsToCaller
CHECK_DEADLOCK FALSE
