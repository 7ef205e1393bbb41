CONSTANTS
    Threshold = 2
    ResetTimeout = 2
    CountWindow = 1
    MaxProbes = 1
    None = None
    Missing = Missing
    Torn = Torn
    NoHolder = NoHolder
    Requests = {r1}
    Cancellable = TRUE
    WriteCanFail = FALSE
    Sweeps = FALSE
    StaleAge = 3
SPECIFICATION Spec
PROPERTY Refines
