CONSTANTS
    Nonces = {n1, n2}
    Paths = {"/invoke", "/invoke/stream"}
    Skew = 1
    Capacity = 1
    SecretConfigured = TRUE
    PrevConfigured = FALSE
    MaxTime = 4
    Providers <- UnnamedProviders
    BodyKinds = {"ok"}
    None = None
SPECIFICATION Spec
SYMMETRY NonceSymmetry
CHECK_DEADLOCK FALSE
INVARIANT ProviderCallsAuthorized
