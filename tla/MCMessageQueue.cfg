SPECIFICATION FairSpec
CONSTANTS
    Producers = {p1, p2}
    Consumers = {c1, c2}
    Controllers = {k1}
    Values = {v1, v2, v3, v4}
    NoValue = NoValue
    Nobody = Nobody
    MaxSize = 1
INVARIANTS
    OneOwner
    WakeupsCoverEntries
    BoundedOvershoot
PROPERTIES
    ImplementsQueueSpec
    StopReleasesPop
