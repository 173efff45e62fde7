SPECIFICATION FairSpec
CONSTANTS
    MaxPackets = 5
    PacketLimit = 1
    FrameLimit = 1
INVARIANTS
    ChannelInv
    DecodingOrder
PROPERTIES
    StopReturns
