CONSTANTS
    w1 = w1
    w2 = w2
    h1 = h1
    h2 = h2
    h3 = h3
    None = None
    Procs <- TwoProcs
    Handlers <- ThreePresses
    ProcOf <- Received
    Deployments = {TRUE, FALSE}
    LeaseTtl = 3
    SeenTtl = 2
    MaxFaults = 2
    MaxCrashes = 1
SPECIFICATION Spec
INVARIANTS
    TypeOK
    OneLeasePerSpace
PROPERTIES
    LeaseIsOwn
    AcceptedOncePerWindow
