CONSTANTS
    None = None
    Ttl = 2
    Kept <- RunnerRoutes
    MaxSims = 2
    MaxApprovals = 2
SPECIFICATION Spec
INVARIANTS
    SimulationsWritten
