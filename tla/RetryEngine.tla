---------------------------- MODULE RetryEngine ----------------------------
(***************************************************************************)
(* invoke_with_retry (src/adapters/cheval.py) for one provider call: the  *)
(* loop over max_retries + 1 attempts, the classification of each         *)
(* exchange, and the error that surfaces.  invoke_with_retry_async of      *)
(* cheval_server.py has the same control flow and the same classification.*)
(* The backoff sleep before attempt k > 0 changes no state and is part of  *)
(* the attempt step.  Each attempt's exchange is chosen from a small set:  *)
(* HTTP statuses (200, one of NON_RETRYABLE_STATUS, statuses in and out of *)
(* the configured retryable list) and the exceptions httpx raises.         *)
(***************************************************************************)
EXTENDS Integers, Sequences

CONSTANTS
    MaxRetriesValues,   \* values of retry.max_retries the request may carry
    RetryableConfigs,   \* values of retry.retryable_status_codes
    Statuses,           \* HTTP statuses a provider may answer with
    Timeout,            \* client.post raises httpx.TimeoutException
    ConnectError,       \* ... httpx.ConnectError
    ReadError,          \* ... httpx.ReadError (a network error that is neither)
    OtherError,         \* ... any other exception
    None                \* no error recorded yet

ASSUME MaxRetriesValues \subseteq Int /\ Statuses \subseteq Nat

\* NON_RETRYABLE_STATUS
NonRetryableStatus == {400, 401, 403, 404}

Exceptions == {Timeout, ConnectError, ReadError, OtherError}
Exchanges == Statuses \cup Exceptions

Error(code, status, retryable) == [code |-> code, status |-> status, retryable |-> retryable]
Success == [code |-> "ok", status |-> 200, retryable |-> FALSE]

VARIABLES
    maxRetries,     \* retry_config.get("max_retries", 3)
    retryable,      \* set(retry_config.get("retryable_status_codes", ...))
    attempt,        \* the loop variable of range(max_retries + 1)
    lastError,      \* last_error
    result,         \* what the call returned or raised, once it has
    history         \* the exchanges of the attempts made so far

vars == <<maxRetries, retryable, attempt, lastError, result, history>>

\* A variant that consults the configured retryable list before
\* NON_RETRYABLE_STATUS.
Classify_retryableFirst(x) ==
    CASE x \in {Timeout, ConnectError} -> Error("network_error", 0, TRUE)
      [] x \in Exceptions -> Error("network_error", 0, FALSE)
      [] x \in retryable -> Error("provider_error", x, TRUE)
      [] x \in NonRetryableStatus -> Error("provider_error", x, FALSE)
      [] OTHER -> Error("provider_error", x, FALSE)

\* The error an exchange raises, and whether the loop may go on after it.
Classify(x) ==
    CASE x \in {Timeout, ConnectError} -> Error("network_error", 0, TRUE)
      [] x \in Exceptions -> Error("network_error", 0, FALSE)
      [] x \in NonRetryableStatus -> Error("provider_error", x, FALSE)
      [] x \in retryable -> Error("provider_error", x, TRUE)
      [] OTHER -> Error("provider_error", x, FALSE)

\* A variant that remembers the first retryable error instead of the latest.
Remember_keepFirst(last, e) == IF last = None THEN e ELSE last

\* last_error = ChevalError(...) on a retryable error.
Remember(last, e) == e

\* A variant of the continue test with an off-by-one.
MoreAttempts_offByOne(a) == a <= maxRetries

\* "if attempt < max_retries: continue"
MoreAttempts(a) == a < maxRetries


Init ==
    /\ maxRetries \in MaxRetriesValues
    /\ retryable \in RetryableConfigs
    /\ attempt = 0
    /\ lastError = None
    /\ result = None
    /\ history = << >>

\* One attempt (after its backoff sleep when attempt > 0): a 200 returns the
\* response; a retryable error is kept as last_error and, while attempts
\* remain, the loop continues, otherwise it is raised; any other error is
\* raised at once.
Attempt(x) ==
    /\ result = None
    /\ attempt <= maxRetries
    /\ history' = Append(history, x)
    /\ LET e == Classify(x) IN
         CASE x = 200 ->
                /\ result' = Success
                /\ UNCHANGED <<attempt, lastError>>
           [] e.retryable /\ MoreAttempts(attempt) ->
                /\ lastError' = Remember(lastError, e)
                /\ attempt' = attempt + 1
                /\ UNCHANGED result
           [] e.retryable ->
                \* raise last_error
                /\ lastError' = Remember(lastError, e)
                /\ result' = lastError'
                /\ UNCHANGED attempt
           [] OTHER ->
                /\ result' = e
                /\ UNCHANGED <<attempt, lastError>>
    /\ UNCHANGED <<maxRetries, retryable>>

\* The loop ran no attempt (max_retries < 0): last_error if set, otherwise
\* "All retries exhausted".
Exhausted ==
    /\ result = None
    /\ attempt > maxRetries
    /\ result' = IF lastError # None THEN lastError ELSE Error("network_error", 0, FALSE)
    /\ UNCHANGED <<maxRetries, retryable, attempt, lastError, history>>

Next ==
    \/ \E x \in Exchanges : Attempt(x)
    \/ Exhausted

Spec == Init /\ [][Next]_vars

\* Properties

TypeOK ==
    /\ maxRetries \in MaxRetriesValues
    /\ retryable \in RetryableConfigs
    /\ attempt \in 0..(IF maxRetries > 0 THEN maxRetries ELSE 0)
    /\ history \in Seq(Exchanges)
    /\ lastError \in {None} \cup [code : {"network_error", "provider_error"},
                                  status : {0} \cup Statuses, retryable : BOOLEAN]
    /\ result \in {None, Success} \cup [code : {"network_error", "provider_error"},
                                        status : {0} \cup Statuses, retryable : BOOLEAN]

Last(s) == s[Len(s)]

\* When the call fails after at least one attempt, the error raised is the
\* one of the last exchange: its code (network_error or provider_error),
\* its status and its retryable flag (spec.md 4.8: the last observed
\* retryable error surfaces on exhaustion).
SurfacedErrorIsLast ==
    result \notin {None, Success} /\ history # << >> => result = Classify(Last(history))

\* spec.md 4.8: the exchanges that may be retried.  A status of
\* NON_RETRYABLE_STATUS is never retried, whatever the request configures.
\* A network exception other than a timeout or a connect error (ReadError)
\* is left out here: the code does not retry it, and NetworkErrorsRetried
\* states what spec.md 4.8 asks of it.
RetryableExchange(x) ==
    \/ x \in {Timeout, ConnectError}
    \/ x \in Statuses /\ x \in retryable /\ x \notin NonRetryableStatus /\ x # 200

\* The loop makes another attempt after an exchange only when that
\* exchange was retryable in the sense of spec.md 4.8 (never after a 200, a
\* 400/401/403/404 or an unknown status), and a call that fails with a
\* retryable error has made all max_retries + 1 attempts.
RetriesOnlyRetryable ==
    /\ \A i \in 1..(Len(history) - 1) : RetryableExchange(history[i])
    /\ result \notin {None, Success} /\ result.retryable => Len(history) = maxRetries + 1

\* spec.md 4.8: a connect, timeout or other network exception is a
\* retryable network error, so a call never ends on one while attempts
\* remain.
NetworkErrorsRetried ==
    result # None /\ history # << >> /\ Last(history) \in {Timeout, ConnectError, ReadError}
        => Len(history) = maxRetries + 1

=============================================================================
