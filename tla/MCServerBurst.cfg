SPECIFICATION Spec
CONSTANTS
    j1 = j1  j2 = j2  j3 = j3  k1 = k1  k2 = k2  w1 = w1  w2 = w2
    Jobs = {j1, j2, j3}
    Workers = {w1, w2}
    Keys = {k1}
    NoJob = NoJob
    NoKey = NoKey
    Rank <- Ranks
    MaxSize = 1
    Horizon = 2
    Candidates <- AnyKey
    Estimate <- Sizes
    TpmLimit <- Two
    RpmLimit <- Two
    TpmRate <- One
    RpmRate <- One
    Strategy = "least_utilized"
    ErrorLimit = 2
    ErrorCap = 2
    Backoff <- Backoffs
    AgeCap = 2
INVARIANT NeverOverLimit
SYMMETRY WorkerSymmetry
CHECK_DEADLOCK FALSE
