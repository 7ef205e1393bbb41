CONSTANTS
    Threshold = 2
    ResetTimeout = 2
    CountWindow = 1
    MaxProbes = 1
    None = None
    Missing = Missing
    Torn = Torn
    NoHolder = NoHolder
    Requests = {r1, r2}
    Cancellable = FALSE
    WriteCanFail = TRUE
    Sweeps = TRUE
    StaleAge = 3
SPECIFICATION FairSpec
INVARIANT TypeOK
PROPERTY BreakerRecovers
