SPECIFICATION FairSpec
CONSTANTS
    t1 = t1  t2 = t2  t3 = t3  k1 = k1  k2 = k2
    Threads = {t1, t2}
    Kinds <- Split
    Configured <- OneKey
    Added = {k2}
    MaxConcurrent = 1
    RpmLimit = 1
    TpmLimit = 1
    Estimate = 1
    MaxOps = 3
    MaxChunks = 1
    Refilled = {}
    NoOne = NoOne
INVARIANTS
    ClientTypeOK
    PermitsConserved
    KeysAreUsable
    StreamIsFaithful
PROPERTY CallersHearBack
CHECK_DEADLOCK FALSE
