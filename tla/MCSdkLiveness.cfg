SPECIFICATION FairSpec
CONSTANTS
    c1 = c1  c2 = c2  s1 = s1  k1 = k1  k2 = k2
    Requests = {c1, c2, s1}
    Streams = {s1}
    Keys = {k1}
    NoKey = NoKey
    Candidates <- AnyKey
    Estimate <- OneOrTwo
    Overruns = {}
    ErrorKinds = {"timeout"}
    TpmLimit <- Two
    RpmLimit <- Two
    TpmRate <- One
    RpmRate <- One
    MaxConcurrent = 1
    MaxRetries = 1
    MaxWait = 1
    Threshold = 2
    CircuitTimeout = 1
    Strategy = "least_utilized"
    DefaultThreshold = 2
    DefaultTimeout = 1
    AgeCap = 2
    ErrorCap = 2
PROPERTIES
    AdmittedChatSettles
    QueuedMovesOn
