CONSTANTS
    None = None
    Timeout = 1
    MaxRuns = 1
    MaxFaults = 0
    MaxCrashes = 0
SPECIFICATION Spec
PROPERTIES
    TerminalNotOverwritten
