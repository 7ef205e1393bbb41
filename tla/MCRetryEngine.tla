---------------------------- MODULE MCRetryEngine ----------------------------
(* RetryEngine with max_retries from -1 (no attempt at all) to 2, a        *)
(* retryable list that does and one that does not name a status of        *)
(* NON_RETRYABLE_STATUS, and one status of each class.                     *)
EXTENDS RetryEngine

MCMaxRetries == {-1, 0, 1, 2}
MCRetryableConfigs == {{429, 503}, {400, 429}}
MCStatuses == {200, 400, 418, 429, 503}
=============================================================================
