CONSTANTS
    Letter = {"a", "b", "e", "f", "i", "l", "m", "n", "o", "p", "q", "r", "s", "t", "u", "w", "x", "y"}
    Digit = {"0", "1", "2", "3", "4", "5", "6", "7", "8", "9"}
    MaxInt = 99
    MaxLoops = 6
    PieceCount = 3
    CharacterCount = 4
    Inputs <- AllInputs
    Texts <- AllTexts
SPECIFICATION FrontSpec
INVARIANTS
    LexTypeOK
    TokensKept
    AcceptsWritten
    MeaningKept
    ProgramsCompile
    VariablesTyped
PROPERTIES
    LexesByLongestMatch
    FrontEndEnds
CHECK_DEADLOCK FALSE
