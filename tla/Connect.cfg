CONSTANTS
    Conns = {g1, g2}
    Observed = g1
    SSLModes = {"DISABLE", "PREFER", "REQUIRE", "VERIFYFULL"}
    EncryptData = FALSE
    CopLast = TRUE
    MaxCops = 2
    MaxRefusals = 2
    MaxMessages = 2
    Sizes = {1}
SPECIFICATION Spec
INVARIANTS
    AddressesAreTried
    ConnectedAsAsked
    LogonIsSecure
PROPERTIES
    ConnectReturns
