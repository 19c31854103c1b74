SPECIFICATION MCFairSpec
CONSTANTS
    Lines <- AllLines
    MaxLines = 6
    MaxItems = 2
    OpLimit = 40
    CallLimit = 2
    IncludeLimit = 2
INVARIANTS TypeOK ScopeBalance BranchScopes CrashFree CaptureConsistent BodiesBalanced LocalsStayLocal FailureReported
PROPERTIES NoOverwrite HermeticCalls StreamEnds
