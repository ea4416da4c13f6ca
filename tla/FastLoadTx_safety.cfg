CONSTANTS
    MaxLoads = 4
    MaxRows = 3
SPECIFICATION Spec
INVARIANTS
    LoadStartsClean
    OpenTxHoldsTheLoad
    EndedLoadIsExact
    AbortRollsBack
    NoChannelLeaks
PROPERTIES
    ImplementsTable
