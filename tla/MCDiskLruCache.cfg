SPECIFICATION CacheSpec
CONSTANTS
    Keys = {k1, k2}
    MaxSize = 2
    MaxEdits = 2
    MaxLines = 5
    MaxFaults = 2
    NoKey = NoKey
SYMMETRY KeySymmetry
INVARIANTS
    CacheInv
    WholeEntries
    CommittedSurvive
