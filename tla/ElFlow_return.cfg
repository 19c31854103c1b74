SPECIFICATION FlowSpec
CONSTANTS
  Params <- OnlyX
  Programs <- ReturningLoops
  Funcs <- Compiled
  Stmts <- AllStmts
  Exprs <- AllExprs
  Steps = 4
INVARIANT ReturnsValue
