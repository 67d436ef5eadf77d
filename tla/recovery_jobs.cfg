CONSTANTS
    None = None
    Timeout = 1
    MaxRuns = 2
    MaxFaults = 1
    MaxCrashes = 1
SPECIFICATION FairSpec
INVARIANTS
    TypeOK
    RunsAreSingle
    EvidenceBehindStatus
PROPERTIES
    EveryRunCloses
