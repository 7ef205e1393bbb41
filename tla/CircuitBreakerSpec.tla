------------------------- MODULE CircuitBreakerSpec -------------------------
(***************************************************************************)
(* What the circuit breaker of one provider promises (spec.md section 4.4):*)
(* the state-machine table, with every transition atomic.  Time is kept as *)
(* ages: a timestamp is represented by how many ticks ago it was taken,    *)
(* saturated at MaxAge, which preserves every comparison the table makes   *)
(* ("older than window", "now - opened_at >= reset_timeout").             *)
(*                                                                         *)
(* A check that finds HALF_OPEN with its probes used up reports OPEN and   *)
(* changes nothing, so it is a stuttering step of this specification.      *)
(***************************************************************************)
EXTENDS Naturals

CONSTANTS
    Threshold,      \* failure_threshold
    ResetTimeout,   \* reset_timeout_seconds, in ticks
    CountWindow,    \* count_window_seconds, in ticks
    MaxProbes,      \* half_open_max_probes
    None            \* a timestamp that was never set

VARIABLE breaker    \* the persisted record of the provider

MaxAge == IF ResetTimeout > CountWindow + 1 THEN ResetTimeout ELSE CountWindow + 1
Age == 0..MaxAge

Closed == [state |-> "CLOSED", failure_count |-> 0, last_failure_ts |-> None,
           opened_at |-> None, half_open_probes |-> 0]

Older(ts) == IF ts = None THEN None ELSE IF ts < MaxAge THEN ts + 1 ELSE MaxAge

Init == breaker = Closed

\* Time passes: every recorded timestamp gets one tick older.
Tick ==
    breaker' = [breaker EXCEPT !.last_failure_ts = Older(@), !.opened_at = Older(@)]

\* CLOSED, failure: restart the count when the last failure is out of the
\* window, count this one, and open once the count reaches the threshold.
FailClosed ==
    /\ breaker.state = "CLOSED"
    /\ LET n == (IF breaker.last_failure_ts # None /\ breaker.last_failure_ts > CountWindow
                 THEN 0 ELSE breaker.failure_count) + 1
       IN breaker' = [breaker EXCEPT !.failure_count = n, !.last_failure_ts = 0,
                         !.state = IF n >= Threshold THEN "OPEN" ELSE "CLOSED",
                         !.opened_at = IF n >= Threshold THEN 0 ELSE @]

\* CLOSED, success: the count goes back to zero.
SucceedClosed ==
    /\ breaker.state = "CLOSED"
    /\ breaker' = [breaker EXCEPT !.failure_count = 0]

\* OPEN, check, reset timeout elapsed: half-open with no probe yet.
CheckOpen ==
    /\ breaker.state = "OPEN"
    /\ breaker.opened_at # None /\ breaker.opened_at >= ResetTimeout
    /\ breaker' = [breaker EXCEPT !.state = "HALF_OPEN", !.half_open_probes = 0]

\* OPEN, failure: the breaker stays open; the failure time is recorded.
FailOpen ==
    /\ breaker.state = "OPEN"
    /\ breaker' = [breaker EXCEPT !.last_failure_ts = 0]

\* HALF_OPEN, probe start: one more probe.
ProbeStart ==
    /\ breaker.state = "HALF_OPEN"
    /\ breaker' = [breaker EXCEPT !.half_open_probes = @ + 1]

\* HALF_OPEN, success: back to the initial CLOSED record.
SucceedHalfOpen ==
    /\ breaker.state = "HALF_OPEN"
    /\ breaker' = Closed

\* HALF_OPEN, failure: open again with a fresh opened_at.
FailHalfOpen ==
    /\ breaker.state = "HALF_OPEN"
    /\ breaker' = [breaker EXCEPT !.state = "OPEN", !.opened_at = 0, !.half_open_probes = 0]

Next ==
    \/ Tick
    \/ FailClosed \/ SucceedClosed
    \/ CheckOpen \/ FailOpen
    \/ ProbeStart \/ SucceedHalfOpen \/ FailHalfOpen

Spec == Init /\ [][Next]_breaker

=============================================================================
