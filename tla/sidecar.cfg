CONSTANTS
    Nonces = {n1, n2}
    Paths = {"/invoke", "/invoke/stream"}
    Skew = 1
    Capacity = 1
    SecretConfigured = TRUE
    PrevConfigured = TRUE
    MaxTime = 3
    Providers <- ConsistentProviders
    BodyKinds = {"ok", "incomplete", "not_json", "not_object"}
    None = None
SPECIFICATION Spec
SYMMETRY NonceSymmetry
CHECK_DEADLOCK FALSE
INVARIANT TypeOK
INVARIANT ReplayOnlyAfterEvictionOrRestart
INVARIANT CacheHoldsOnlyGenuineNonces
INVARIANT ProviderCallsAuthorized
