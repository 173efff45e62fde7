SPECIFICATION FairPlaybackSpec
CONSTANTS
    MaxPackets = 5
    PacketLimit = 1
    FrameLimit = 1
INVARIANTS
    PipelineInv
    EofCutsOffLittle
PROPERTIES
    PlaysToTheEnd
    StopEndsPlayback
CHECK_DEADLOCK FALSE
