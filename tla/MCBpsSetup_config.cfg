CONSTANTS
    Ep0MaxPacket = 64
    FsBulkMaxPacket = 64
    WLengths <- MCWLengths
    DualSpeed = TRUE
    EnableFaults = TRUE
SPECIFICATION Spec
INVARIANTS
    TypeOK
    ConfiguredEndpointsMatchSpeed
