SPECIFICATION Spec
CONSTANTS
    t1 = t1  t2 = t2  t3 = t3  k1 = k1  k2 = k2
    Threads = {t1, t2, t3}
    Kinds <- Chats
    Configured <- OneKey
    Added = {}
    MaxConcurrent = 1
    RpmLimit = 3
    TpmLimit = 3
    Estimate = 1
    MaxOps = 3
    MaxChunks = 1
    Refilled = {}
    NoOne = NoOne
INVARIANT FullIsNoRuntimeError
CHECK_DEADLOCK FALSE
