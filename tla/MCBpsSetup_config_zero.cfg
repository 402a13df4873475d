CONSTANTS
    Ep0MaxPacket = 64
    FsBulkMaxPacket = 64
    WLengths <- MCWLengths
    DualSpeed = TRUE
    EnableFaults = FALSE
SPECIFICATION Spec
INVARIANT
    SetConfigurationZeroDeconfigures
