SPECIFICATION Spec
CONSTANTS
    HalfBits <- MCHalfBits
    HalfSize <- MCHalfSize
    Lexemes <- MCLexemes
    OutputBases <- MCOutputBases
INVARIANTS ArithmeticExact QuotientsExact FoldAgrees LiteralExact RoundTrip
CHECK_DEADLOCK FALSE
