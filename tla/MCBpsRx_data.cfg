CONSTANTS
    c1 = c1
    c2 = c2
    Channels <- MCChannels
    MaxPacket <- MCLargeMaxPacket
    OwedBound <- MCLargeOwedBound
    HostSuspends = FALSE
    TransportFaults = TRUE
SPECIFICATION FairSpec
INVARIANT NoBugOn
PROPERTY ImplementsByteChannel
PROPERTY ReaderReleased
