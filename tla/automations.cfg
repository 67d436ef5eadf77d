CONSTANTS
    None = None
    Ttl = 2
    Kept <- EveryRoute
    MaxSims = 2
    MaxApprovals = 2
SPECIFICATION Spec
INVARIANTS
    TypeOK
    ActiveWasApproved
