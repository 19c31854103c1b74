SPECIFICATION FlowSpec
CONSTANTS
  Params <- OnlyX
  Programs <- AllPrograms
  Funcs <- Compiled
  Stmts <- AllStmts
  Exprs <- AllExprs
  Steps = 4
INVARIANTS BlockShape JumpsLand Agreement UsesDefined
PROPERTIES Responsive
