CONSTANTS
    MaxRetriesValues <- MCMaxRetries
    RetryableConfigs <- MCRetryableConfigs
    Statuses <- MCStatuses
    None = None
    Timeout = Timeout
    ConnectError = ConnectError
    ReadError = ReadError
    OtherError = OtherError
SPECIFICATION Spec
\* A call ends: the model stops once the loop has returned or raised.
CHECK_DEADLOCK FALSE
INVARIANT NetworkErrorsRetried
