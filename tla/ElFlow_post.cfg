SPECIFICATION FlowSpec
CONSTANTS
  Params <- OnlyX
  Programs <- ForContinues
  Funcs <- Compiled
  Stmts <- AllStmts
  Exprs <- AllExprs
  Steps = 4
INVARIANT PostIteration
