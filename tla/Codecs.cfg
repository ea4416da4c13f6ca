CONSTANTS
    NumberMaxDigits = 4
    SeqNums = {1, 127, 128, 255, 256, 65535, 65536}
    DataSizes = {0, 1, 40, 80, 111, 112, 239, 240, 300}
    Unscaled = {0, 1, 5, 9, 50, 127, 128, 1000, 1005, 9994, 9995, 9999, 12345,
                12350, 32768, 99995, 100000, 123456, 999999}
    Texts = {0, 49, 50, 65459, 65460, 65531}
SPECIFICATION Spec
INVARIANTS
    ParcelsWalk
    ColumnsAreRouted
    WrapRoundTrips
    ValuesRoundTrip
    LoadRowsFit
    LoadedRowsAreRead
    DsnRoundTrips
