SPECIFICATION Spec
CONSTANTS
    Kinds = {"model_edit", "code"}
    MaxPrompts = 2
    NoEntry = none
PROPERTIES
    CodesReachTheirSession
