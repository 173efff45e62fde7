SPECIFICATION Spec
CONSTANTS
    MaxStreams = 2
    Window = 4
    PeerWindow = 1
    Sizes = {1, 2}
    FirstSize = 1
    Body <- MCBody
    MaxReply <- MCMaxReply
    MaxFaults <- MCMaxFaults
INVARIANTS
    Http2Inv
    WindowsAgree
    WaitersAttended
    OnlyLiveStreams
CHECK_DEADLOCK FALSE
