CONSTANTS
    DATA = DATA
    CONFIG = CONFIG
    InCap <- MCInCap
    ErrCap <- MCErrCap
    MaxWrite <- MCMaxWrite
    HostSuspends = TRUE
    TransportFaults = TRUE
SPECIFICATION FairSpec
INVARIANTS
    TypeOK
    NoDoubleSubmit
    TxSuspendQuiesces
    NoBufferOverrun
PROPERTY
    WriterReleased
    WriteCountDelivered
