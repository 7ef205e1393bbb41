CONSTANTS
    Nonces = {n1, n2}
    Paths = {"/invoke"}
    Skew = 1
    Capacity = 3
    SecretConfigured = TRUE
    PrevConfigured = FALSE
    MaxTime = 4
    MaxStepBack = 2
SPECIFICATION Spec
SYMMETRY NonceSymmetry
INVARIANT ReplayOnlyAfterCapacityEviction
