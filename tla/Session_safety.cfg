CONSTANTS
    Stmts = {s1, s2}
    Keep = TRUE
    Encrypted = FALSE
    Interleave = {}
    MaxCalls = 2
SPECIFICATION Spec
SYMMETRY Symmetry
INVARIANTS
    RowsAreTheirOwn
    ServerKeepsNothing
