SPECIFICATION LiveFairSpec
CONSTANT Media <- BothStreams
PROPERTY StartThreadEnds
