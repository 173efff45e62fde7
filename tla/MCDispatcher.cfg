SPECIFICATION FairSpec
CONSTANTS
    other = other
    h1 = h1
    h2 = h2
    None = None
    Calls = {a, b, other, s}
    Sync = {s}
    WebSockets = {other}
    Hosts = {h1, h2}
    Host <- HostOf
    Limits = {1, 2}
    InitialRequests = 2
    InitialPerHost = 1
    MaxChanges = 1
INVARIANTS
    DispatcherInv
    NothingForgotten
PROPERTIES
    HostLimitKept
    CallsGetThrough
