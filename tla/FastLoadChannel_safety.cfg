CONSTANTS
    Buffers = {b1, b2}
    NoBuf = NoBuf
    BodyLen = 3
    MaxParcelLen = 2
    Encrypted = FALSE
    MaxRows = 4
SPECIFICATION Spec
SYMMETRY Symmetry
INVARIANTS
    TypeOK
    BuffersOwnedOnce
    SendsNeverBlock
    StoredInOrderOnce
    FlushStoresAll
    CauseIsReported
    CloseFinishesIO
