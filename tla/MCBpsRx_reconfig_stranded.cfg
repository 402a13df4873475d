CONSTANTS
    c1 = c1
    c2 = c2
    Channels <- MCChannels
    MaxPacket <- MCMaxPacket
    OwedBound <- MCOwedBound
    HostSuspends = FALSE
    TransportFaults = FALSE
SYMMETRY ChannelSymmetry
SPECIFICATION Spec
INVARIANT NeverStranded
