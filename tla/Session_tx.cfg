CONSTANTS
    Stmts = {s1}
    Keep = TRUE
    Encrypted = FALSE
    Interleave = {"exec", "query", "session", "lob"}
    MaxCalls = 2
SPECIFICATION Spec
INVARIANTS
    NoLeftovers
    ReadsAreNotTimed
