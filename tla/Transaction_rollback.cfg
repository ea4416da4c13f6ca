CONSTANTS
    TModes = {"TERA"}
    Semantics = {"T"}
    MaxTxs = 2
    MaxStmts = 3
    MaxNest = 2
SPECIFICATION Spec
INVARIANT RollbackLeavesNothing
