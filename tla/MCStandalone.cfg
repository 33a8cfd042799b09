SPECIFICATION StandaloneSpec
CONSTANTS
    k1 = k1  k2 = k2  k3 = k3  u1 = u1  u2 = u2
    fast = fast  slow = slow  other = other
    r1 = r1  r2 = r2  r3 = r3  r4 = r4
    Capacity = 3
    Rate = 2
    Amounts = {1, 3}
    Horizon = 4
    WindowSize = 2
    WindowLimit = 3
    WindowCallers = {u1, u2}
    MaxCount = 2
    WindowHorizon = 5
    MaxAttempts = 4
    BaseDelay = 8
    MaxDelay = 20
    DispatchAttempts = 3
    Second = 8
    Latencies = {0, 100, 5000}
    RecentSize = 3
    MaxSamples = 4
    AvgScale = 1000
    Candidates <- TheKeys
    Room = 4
    ErrorBound = 2
    ClockStep = 15
    ClockBound = 6
    KeyOrder <- ThreeKeys
    ProviderOf <- KeyProviders
    ProviderOrder <- FastFirst
    KeyTpm <- TpmLimits
    KeyRpm <- RpmLimits
    KeyRate <- Rates
    Estimates = {1, 2}
    HealthLimit = 1
    SelectionBound = 1
    NoKey = NoKey
    Texts <- SomeTexts
    Roles <- SomeRoles
    ReprChars = 40
    MaxMessages = 2
    MaxTokens <- SomeLimits
    Requests = {r1, r2, r3, r4}
    MaxConcurrent = 2
INVARIANTS
    TypeOK
    Budget
    StartsWithinRate
    WaitIsExact
    WindowHolds
    RetriesAreSpaced
    PercentilesAgree
    NoWorseKeyChosen
    RoundRobinFair
    SelectionsAgree
    NoPermitStranded
PROPERTIES
    EagerSpec
    EstimatesOrdered
CHECK_DEADLOCK FALSE
