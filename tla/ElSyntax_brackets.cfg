SPECIFICATION SyntaxSpec
CONSTANTS
  Idents <- MCIdents
  Ints <- MCInts
  HugeInts <- MCHugeInts
  Literals <- MCLiterals
  Sources <- Bracketed
  Trees <- NoTrees
INVARIANT BracketsRestored
CHECK_DEADLOCK FALSE
