SPECIFICATION Spec
CONSTANTS
    p1 = p1  p2 = p2
    Procs = {p1, p2}
    Redis = Redis
    Window = 2
    StateTtl = 2
    LockTimeout = 2
    ErrorTtl = 2
    TpmLimit = 3
    RpmLimit = 2
    MaxTokens = 2
    MaxExcess = 1
    MaxLag = 1
    ErrorBound = 1
    Horizon = 6
INVARIANTS
    TypeOK
    UsageIsCounted
    OvershootBounded
    LockExcludes
    ExactUnderLock
    ErrorsLapse
SYMMETRY ProcSymmetry
