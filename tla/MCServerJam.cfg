SPECIFICATION FairSpec
CONSTANTS
    j1 = j1  j2 = j2  j3 = j3  k1 = k1  k2 = k2  w1 = w1  w2 = w2
    Jobs = {j1, j2, j3}
    Workers = {w1}
    Keys = {k1}
    NoJob = NoJob
    NoKey = NoKey
    Rank <- Ranks
    MaxSize = 1
    Horizon = 1
    Candidates <- AnyKey
    Estimate <- Sizes
    TpmLimit <- Two
    RpmLimit <- Two
    TpmRate <- Two
    RpmRate <- One
    Strategy = "least_utilized"
    ErrorLimit = 2
    ErrorCap = 2
    Backoff <- Backoffs
    AgeCap = 2
PROPERTY EnqueuedIsProcessed
CHECK_DEADLOCK FALSE
