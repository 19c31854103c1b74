SPECIFICATION FlowSpec
CONSTANTS
  Params <- OnlyX
  Programs <- NoEffects
  Funcs <- Compiled
  Stmts <- AllStmts
  Exprs <- AllExprs
  Steps = 4
INVARIANT SafelyRemoved
