CONSTANTS
    Buffers = {b1, b2}
    NoBuf = NoBuf
    BodyLen = 2
    MaxParcelLen = 2
    Encrypted = TRUE
    MaxRows = 3
SPECIFICATION Spec
PROPERTIES
    ImplementsQueue
    CancelledCallReturns
    AnsweredCallReturns
