SPECIFICATION Spec
CONSTANTS
    c1 = c1  c2 = c2  s1 = s1  k1 = k1  k2 = k2
    Requests = {c1, c2, s1}
    Streams = {s1}
    Keys = {k1, k2}
    NoKey = NoKey
    Candidates <- AnyKey
    Estimate <- OneOrTwo
    Overruns = {1}
    ErrorKinds = {"transient", "timeout"}
    TpmLimit <- Two
    RpmLimit <- One
    TpmRate <- One
    RpmRate <- One
    MaxConcurrent = 2
    MaxRetries = 1
    MaxWait = 1
    Threshold = 2
    CircuitTimeout = 1
    Strategy = "least_utilized"
    DefaultThreshold = 1
    DefaultTimeout = 1
    AgeCap = 2
    ErrorCap = 2
INVARIANTS
    TypeOK
    PermitAccounting
    TotalsAddUp
    FallbackBookkeeping
PROPERTIES
    AdmissionSpec
    ImmediateCallIsPaid
SYMMETRY KeySymmetry
