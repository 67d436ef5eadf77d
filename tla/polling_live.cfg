CONSTANTS
    a = a
    b = b
    a1 = a1
    a2 = a2
    b1 = b1
    None = None
    Instances <- TwoInstances
    Tokens <- AllTokens
    TokensOf <- DistinctTokens
    Environments <- WithRedis
    Stallable <- OneStalls
    LockTtl = 3
    RefreshEvery = 1
    MaxWait = 4
    MaxFaults = 0
    MaxCrashes = 2
SPECIFICATION FairSpec
INVARIANTS
    LatePollerStops
PROPERTIES
    LeaseNotStolen
    PollingResumes
