CONSTANTS
    MaxRetriesValues <- MCMaxRetries
    RetryableConfigs <- MCRetryableConfigs
    Statuses <- MCStatuses
    SchemaArgs <- WellTypedSchemas
    Files <- WellTypedFiles
    HmacKinds <- MCHmacKinds
    ProviderKinds <- WellTypedProviders
    Bodies <- MCBodies
    ProviderTypes <- MCProviderTypes
    NotJson = NotJson
    NotObject = NotObject
    Absent = Absent
    None = None
    Timeout = Timeout
    ConnectError = ConnectError
    ReadError = ReadError
    OtherError = OtherError
SPECIFICATION Spec
\* The process exits.
CHECK_DEADLOCK FALSE
INVARIANT TypeOK
INVARIANT ExitMatchesTaxonomy
INVARIANT SurfacedErrorIsLast
INVARIANT RetriesOnlyRetryable
INVARIANT NormalizeMatchesSpec
