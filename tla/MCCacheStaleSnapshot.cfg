SPECIFICATION CacheSpec
CONSTANTS
    Keys = {k1}
    MaxSize = 2
    MaxEdits = 3
    MaxLines = 8
    MaxFaults = 0
    NoKey = NoKey
PROPERTY StaleSnapshotRefused
