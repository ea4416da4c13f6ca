CONSTANTS
    Stmts = {s1}
    Keep = FALSE
    Encrypted = TRUE
    Interleave = {}
    MaxCalls = 2
SPECIFICATION Spec
PROPERTY CancelledCallReturns
