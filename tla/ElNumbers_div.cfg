SPECIFICATION Spec
CONSTANTS
    HalfBits <- MCHalfBits
    HalfSize <- MCHalfSize
    Lexemes <- MCLexemes
    OutputBases <- MCOutputBases
INVARIANT DivisionExact
CHECK_DEADLOCK FALSE
