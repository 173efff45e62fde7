SPECIFICATION LiveFairSpec
CONSTANT Media <- AnyMedia
INVARIANTS
    WindowInv
    NothingFreedInUse
    StopReleasesMedia
PROPERTIES
    StoppedBeforeDeleted
    StopAfterStartReturns
