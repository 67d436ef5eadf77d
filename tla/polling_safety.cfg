CONSTANTS
    a = a
    b = b
    a1 = a1
    a2 = a2
    b1 = b1
    None = None
    Instances <- TwoInstances
    Tokens <- AllTokens
    TokensOf <- DistinctTokens
    Environments <- AnyDeployment
    Stallable <- NobodyStalls
    LockTtl = 5
    RefreshEvery = 1
    MaxWait = 7
    MaxFaults = 1
    MaxCrashes = 2
SPECIFICATION Spec
INVARIANTS
    TypeOK
    DuplicateOnlyByOverride
PROPERTIES
    SinglePollerSpec
