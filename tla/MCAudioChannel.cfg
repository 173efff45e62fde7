SPECIFICATION FairSpec
CONSTANTS
    MaxPackets = 4
    PacketLimit = 1
    FrameLimit = 1
INVARIANTS
    ChannelInv
    CallbackChainAlive
    QuietWhenStopped
PROPERTIES
    StopReturns
