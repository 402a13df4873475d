CONSTANTS
    DATA = DATA
    CONFIG = CONFIG
    InCap <- MCInCap
    ErrCap <- MCErrCap
    MaxWrite <- MCMaxWrite
    HostSuspends = FALSE
    TransportFaults = FALSE
SPECIFICATION HostFairSpec
PROPERTY
    WriteTerminates
