CONSTANTS
    TModes = {"DEFAULT", "TERA", "ANSI"}
    Semantics = {"A", "T"}
    MaxTxs = 2
    MaxStmts = 3
    MaxNest = 3
SPECIFICATION Spec
INVARIANTS
    AllOrNothing
    PoolIsClean
    StuckAfterFailureOnly
PROPERTIES
    CommitReturns
