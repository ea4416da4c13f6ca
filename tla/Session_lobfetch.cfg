CONSTANTS
    Stmts = {s1}
    Keep = TRUE
    Encrypted = FALSE
    Interleave = {"lob"}
    MaxCalls = 2
SPECIFICATION Spec
INVARIANT RowsAreTheirOwn
