CONSTANTS
    a = a
    b = b
    None = None
    Users <- TwoUsers
    Owner <- a
    MaxMessages = 3
    MaxFailures = 1
SPECIFICATION Spec
INVARIANTS
    TypeOK
    OneMenuActs
    RecordedDeletionIsReal

    
