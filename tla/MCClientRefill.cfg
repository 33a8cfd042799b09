SPECIFICATION Spec
CONSTANTS
    t1 = t1  t2 = t2  t3 = t3  k1 = k1  k2 = k2
    Threads = {t1, t2}
    Kinds <- Chats
    Configured <- OneKey
    Added = {k2}
    MaxConcurrent = 1
    RpmLimit = 1
    TpmLimit = 1
    Estimate = 1
    MaxOps = 4
    MaxChunks = 0
    Refilled = {k1, k2}
    NoOne = NoOne
INVARIANT OverrunBounded
CHECK_DEADLOCK FALSE
