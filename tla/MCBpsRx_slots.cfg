CONSTANTS
    c1 = c1
    c2 = c2
    Channels <- MCChannels
    MaxPacket <- MCMaxPacket
    OwedBound <- MCOwedBound
    HostSuspends = TRUE
    TransportFaults = TRUE
SYMMETRY ChannelSymmetry
SPECIFICATION Spec
INVARIANT TypeOK
INVARIANT QueuedIffOutstanding
INVARIANT SuspendQuiesces
PROPERTY ResumeRearms
