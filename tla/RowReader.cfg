CONSTANTS
    DefaultBufSize = 3
    MaxCachedBufSize = 6
    Rows = 2
    LobSizes = {0, 2}
    MaxGets = 2
    MaxFaults = 1
SPECIFICATION Spec
INVARIANTS
    BufferIsExact
    RowsAreExact
    LobIsWhole
PROPERTY CallsReturn
