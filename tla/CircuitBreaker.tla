--------------------------- MODULE CircuitBreaker ---------------------------
(***************************************************************************)
(* src/adapters/circuit_breaker.py for one provider, as the code runs it:  *)
(* several requests (threads or processes) share one state file.  Every    *)
(* operation reads the file without a lock (_read_state), computes the new *)
(* record, and rewrites the file under an exclusive flock (_write_state):  *)
(* lock, truncate, write, unlock.  A read that lands between the truncate  *)
(* and the write sees an empty file, fails to parse, and falls back to the *)
(* default CLOSED record.                                                  *)
(*                                                                         *)
(* The caller of the breaker is not in src/: its protocol (check_state,    *)
(* then increment_probe when the answer is HALF_OPEN, then the provider    *)
(* call, then record_success or record_failure) is taken from spec.md      *)
(* section 2 and the docstring of increment_probe.                         *)
(*                                                                         *)
(* Time is abstracted to ages (see CircuitBreakerSpec).  A tick is not     *)
(* taken while a request is between its read and its write: those are     *)
(* microseconds apart, the thresholds are seconds.                         *)
(*                                                                         *)
(* cleanup_stale_files is a further actor: it reads the file's mtime and   *)
(* then removes the file, taking no lock.  A writer that opened the file   *)
(* before the removal keeps its descriptor to the unlinked inode (it is an *)
(* orphan): it locks that inode, writes to it and reaches nobody, and the  *)
(* next writer's os.open creates a new file.                               *)
(***************************************************************************)
EXTENDS Naturals, FiniteSets

CONSTANTS
    Requests,       \* concurrent requests (model values)
    Threshold,      \* failure_threshold
    ResetTimeout,   \* reset_timeout_seconds, in ticks
    CountWindow,    \* count_window_seconds, in ticks
    MaxProbes,      \* half_open_max_probes
    Cancellable,    \* whether a request may be abandoned while the provider call is in flight
    WriteCanFail,   \* whether os.write may raise (ENOSPC, EIO) after the truncate
    Sweeps,         \* whether cleanup_stale_files runs
    StaleAge,       \* max_age_hours * 3600, in ticks
    None,           \* a timestamp that was never set
    Missing,        \* no state file
    Torn,           \* the state file between ftruncate and write
    NoHolder        \* nobody holds the flock

ASSUME Threshold \in Nat \ {0} /\ MaxProbes \in Nat \ {0}
ASSUME ResetTimeout \in Nat \ {0} /\ CountWindow \in Nat
ASSUME Cancellable \in BOOLEAN /\ WriteCanFail \in BOOLEAN
ASSUME Sweeps \in BOOLEAN /\ StaleAge \in Nat

VARIABLES
    file,       \* content of .run/circuit-breaker-<provider>.json
    lock,       \* holder of the exclusive flock taken by _write_state
    pc,         \* pc[r]: where request r is in the caller protocol
    buf,        \* buf[r]: the record r is about to write
    cont,       \* cont[r]: where r continues once its write is done
    healthy,    \* the provider has recovered: from now on every call succeeds
    age,        \* ticks since the file's mtime, capped at StaleAge + 1; None when Missing
    sweep,      \* "idle", or "remove" once cleanup_stale_files found the file stale
    orphans,    \* writers whose descriptor refers to a file that was removed
    olock       \* holder of the flock on the removed inode

vars == <<file, lock, pc, buf, cont, healthy, age, sweep, orphans, olock>>
sweepVars == <<age, sweep, orphans, olock>>

\* _default_state
default_state == [state |-> "CLOSED", failure_count |-> 0, last_failure_ts |-> None,
                  opened_at |-> None, half_open_probes |-> 0]

\* _read_state: a missing or unparsable file reads as the default record.
read_state == IF file \in {Missing, Torn} THEN default_state ELSE file

\* What the other requests would read if the writer finished: the record
\* being written while the file is torn by a lock holder.  A file a failed
\* write left empty reads as the default record.
View == IF file = Torn /\ lock # NoHolder THEN buf[lock] ELSE read_state

\* The breaker of the abstract specification is the file as seen by readers.
Abs == INSTANCE CircuitBreakerSpec WITH breaker <- View
Older(ts) == Abs!Older(ts)

States == {"CLOSED", "OPEN", "HALF_OPEN"}
Record == [state : States, failure_count : 0..Threshold,
           last_failure_ts : Abs!Age \cup {None}, opened_at : Abs!Age \cup {None},
           half_open_probes : 0..(MaxProbes + Cardinality(Requests) - 1)]
Phase == {"idle", "check", "probe", "call", "success", "failure", "open", "lock", "write"}

\* check_state: the OPEN -> HALF_OPEN condition, and the answer otherwise.
ResetExpired(st) ==
    st.state = "OPEN" /\ st.opened_at # None /\ st.opened_at >= ResetTimeout
HalfOpened(st) == [st EXCEPT !.state = "HALF_OPEN", !.half_open_probes = 0]
CheckAnswer(st) ==
    CASE st.state = "OPEN" -> "OPEN"
      [] st.state = "HALF_OPEN" -> IF st.half_open_probes >= MaxProbes THEN "OPEN" ELSE "HALF_OPEN"
      [] OTHER -> "CLOSED"

\* record_failure: the count that opens the breaker.
Trips_offByOne(n) == n > Threshold
Trips(n) == n >= Threshold

\* record_failure: the record it writes.
FailureUpdate(st) ==
    CASE st.state = "HALF_OPEN" ->
            [st EXCEPT !.state = "OPEN", !.opened_at = 0, !.half_open_probes = 0]
      [] st.state = "CLOSED" ->
            LET n == (IF st.last_failure_ts # None /\ st.last_failure_ts > CountWindow
                      THEN 0 ELSE st.failure_count) + 1
            IN [st EXCEPT !.failure_count = n, !.last_failure_ts = 0,
                          !.state = IF Trips(n) THEN "OPEN" ELSE "CLOSED",
                          !.opened_at = IF Trips(n) THEN 0 ELSE @]
      [] OTHER -> [st EXCEPT !.last_failure_ts = 0]

\* Variants of record_success: one that only handles CLOSED, one that
\* closes a half-open breaker without resetting the record.
SuccessWrites_closedOnly(st) == st.state = "CLOSED" /\ st.failure_count > 0
SuccessUpdate_noReset(st) ==
    IF st.state = "HALF_OPEN" THEN [st EXCEPT !.state = "CLOSED"] ELSE [st EXCEPT !.failure_count = 0]

\* record_success: whether it writes, and what.
SuccessWrites(st) ==
    st.state = "HALF_OPEN" \/ (st.state = "CLOSED" /\ st.failure_count > 0)
SuccessUpdate(st) ==
    IF st.state = "HALF_OPEN" THEN default_state ELSE [st EXCEPT !.failure_count = 0]

\* The caller's next step after each answer of check_state.
AfterCheck == [CLOSED |-> "call", HALF_OPEN |-> "probe", OPEN |-> "idle"]

\* The operation of r ends by calling _write_state(rec), then goes on at k.
WriteThen(r, rec, k) ==
    /\ pc' = [pc EXCEPT ![r] = "open"]
    /\ buf' = [buf EXCEPT ![r] = rec]
    /\ cont' = [cont EXCEPT ![r] = k]

\* The operation of r ends without writing and goes on at k.
ReturnTo(r, k) ==
    /\ pc' = [pc EXCEPT ![r] = k]
    /\ UNCHANGED <<buf, cont>>


Init ==
    /\ file = Missing
    /\ lock = NoHolder
    /\ pc = [r \in Requests |-> "idle"]
    /\ buf = [r \in Requests |-> default_state]
    /\ cont = [r \in Requests |-> "idle"]
    /\ healthy = FALSE
    /\ age = None
    /\ sweep = "idle"
    /\ orphans = {}
    /\ olock = NoHolder

\* A new request for the provider arrives.
Start(r) ==
    /\ pc[r] = "idle"
    /\ pc' = [pc EXCEPT ![r] = "check"]
    /\ UNCHANGED <<file, lock, buf, cont, healthy, sweepVars>>

check_state(r) ==
    /\ pc[r] = "check"
    /\ LET st == read_state IN
         IF ResetExpired(st)
         THEN WriteThen(r, HalfOpened(st), AfterCheck["HALF_OPEN"])
         ELSE ReturnTo(r, AfterCheck[CheckAnswer(st)])
    /\ UNCHANGED <<file, lock, healthy, sweepVars>>

increment_probe(r) ==
    /\ pc[r] = "probe"
    /\ LET st == read_state IN
         IF st.state = "HALF_OPEN"
         THEN WriteThen(r, [st EXCEPT !.half_open_probes = @ + 1], "call")
         ELSE ReturnTo(r, "call")
    /\ UNCHANGED <<file, lock, healthy, sweepVars>>

\* The provider call (with its retries) returns success or failure.
CallProvider(r) ==
    /\ pc[r] = "call"
    /\ \E ok \in IF healthy THEN {TRUE} ELSE BOOLEAN :
         pc' = [pc EXCEPT ![r] = IF ok THEN "success" ELSE "failure"]
    /\ UNCHANGED <<file, lock, buf, cont, healthy, sweepVars>>

\* The caller disconnects while the provider call is in flight: the request
\* is cancelled and records nothing.
Abandon(r) ==
    /\ Cancellable
    /\ pc[r] = "call"
    /\ pc' = [pc EXCEPT ![r] = "idle"]
    /\ UNCHANGED <<file, lock, buf, cont, healthy, sweepVars>>

record_success(r) ==
    /\ pc[r] = "success"
    /\ LET st == read_state IN
         IF SuccessWrites(st) THEN WriteThen(r, SuccessUpdate(st), "idle")
         ELSE ReturnTo(r, "idle")
    /\ UNCHANGED <<file, lock, healthy, sweepVars>>

record_failure(r) ==
    /\ pc[r] = "failure"
    /\ WriteThen(r, FailureUpdate(read_state), "idle")
    /\ UNCHANGED <<file, lock, healthy, sweepVars>>

\* _write_state, os.open(path, O_RDWR | O_CREAT): a missing file is created
\* empty (with a fresh mtime); the descriptor refers to the file at the
\* path now.
Open(r) ==
    /\ pc[r] = "open"
    /\ file' = IF file = Missing THEN Torn ELSE file
    /\ age' = IF file = Missing THEN 0 ELSE age
    /\ pc' = [pc EXCEPT ![r] = "lock"]
    /\ UNCHANGED <<lock, buf, cont, healthy, sweep, orphans, olock>>

\* _write_state, flock(LOCK_EX) (blocks while held), lseek, ftruncate; the
\* ftruncate sets the mtime.  An orphan locks and truncates the removed
\* inode, which nobody reads.
LockAndTruncate(r) ==
    /\ pc[r] = "lock"
    /\ IF r \in orphans
       THEN /\ olock = NoHolder
            /\ olock' = r
            /\ UNCHANGED <<file, lock, age>>
       ELSE /\ lock = NoHolder
            /\ lock' = r
            /\ file' = Torn
            /\ age' = 0
            /\ UNCHANGED olock
    /\ pc' = [pc EXCEPT ![r] = "write"]
    /\ UNCHANGED <<buf, cont, healthy, sweep, orphans>>

\* _write_state, second half: write the JSON, flock(LOCK_UN), close.  An
\* orphan's record goes to the removed inode and its lock was not the one
\* on the current file.
WriteAndUnlock(r) ==
    /\ pc[r] = "write"
    /\ IF r \in orphans
       THEN /\ orphans' = orphans \ {r}
            /\ olock' = NoHolder
            /\ UNCHANGED <<file, lock, age>>
       ELSE /\ file' = buf[r]
            /\ lock' = NoHolder
            /\ age' = 0
            /\ UNCHANGED <<orphans, olock>>
    /\ pc' = [pc EXCEPT ![r] = cont[r]]
    /\ buf' = [buf EXCEPT ![r] = default_state]
    /\ UNCHANGED <<cont, healthy, sweep>>

\* _write_state when os.write raises after the ftruncate: the finally
\* clause unlocks and closes, the file stays empty, and the exception leaves
\* the breaker operation, ending the request.
WriteFails(r) ==
    /\ WriteCanFail
    /\ pc[r] = "write"
    /\ IF r \in orphans
       THEN orphans' = orphans \ {r} /\ olock' = NoHolder /\ UNCHANGED lock
       ELSE lock' = NoHolder /\ UNCHANGED <<orphans, olock>>
    /\ pc' = [pc EXCEPT ![r] = "idle"]
    /\ buf' = [buf EXCEPT ![r] = default_state]
    /\ UNCHANGED <<file, cont, healthy, age, sweep>>

\* One tick of time.time(): every stored timestamp gets older.
Tick ==
    /\ \A r \in Requests : pc[r] \notin {"open", "lock", "write"}
    /\ file' = IF file \in Record
               THEN [file EXCEPT !.last_failure_ts = Older(@), !.opened_at = Older(@)]
               ELSE file
    /\ age' = IF age = None \/ age > StaleAge THEN age ELSE age + 1
    /\ UNCHANGED <<lock, pc, buf, cont, healthy, sweep, orphans, olock>>

\* cleanup_stale_files, os.path.getmtime: the file exists and
\* now - mtime > max_age_seconds.  (A fresh or missing file is skipped.)
SweepCheck ==
    /\ Sweeps
    /\ sweep = "idle"
    /\ age # None /\ age > StaleAge
    /\ sweep' = "remove"
    /\ UNCHANGED <<file, lock, pc, buf, cont, healthy, age, orphans, olock>>

\* cleanup_stale_files, os.remove: unlinks whatever is at the path now,
\* without a lock.  Every writer that has opened the file keeps its
\* descriptor to the removed inode, and the flock held on it goes with it;
\* an OSError (the file is already gone) is passed over.
SweepRemove ==
    /\ sweep = "remove"
    /\ sweep' = "idle"
    /\ file' = Missing
    /\ age' = None
    /\ lock' = NoHolder
    /\ olock' = IF lock = NoHolder THEN olock ELSE lock
    /\ orphans' = orphans \cup {r \in Requests : pc[r] \in {"lock", "write"}}
    /\ UNCHANGED <<pc, buf, cont, healthy>>

\* The provider comes back and stays healthy.
Recover ==
    /\ ~healthy
    /\ healthy' = TRUE
    /\ UNCHANGED <<file, lock, pc, buf, cont, sweepVars>>

Next ==
    \/ Tick
    \/ Recover
    \/ SweepCheck \/ SweepRemove
    \/ \E r \in Requests :
         \/ Start(r) \/ check_state(r) \/ increment_probe(r)
         \/ CallProvider(r) \/ Abandon(r)
         \/ record_success(r) \/ record_failure(r)
         \/ Open(r) \/ LockAndTruncate(r) \/ WriteAndUnlock(r) \/ WriteFails(r)

\* Requests keep arriving and every started request runs to its end; a
\* blocked flock waiter gets the lock once it is free often enough; time
\* passes.  Abandon, WriteFails, Recover and the sweeper are never forced.
Fairness ==
    /\ \A r \in Requests :
         /\ WF_vars(Start(r)) /\ WF_vars(check_state(r)) /\ WF_vars(increment_probe(r))
         /\ WF_vars(CallProvider(r)) /\ WF_vars(record_success(r)) /\ WF_vars(record_failure(r))
         /\ WF_vars(Open(r)) /\ SF_vars(LockAndTruncate(r)) /\ WF_vars(WriteAndUnlock(r))
    /\ SF_vars(Tick)

Spec == Init /\ [][Next]_vars

\* The behaviours in which the requests and time make progress.
FairSpec == Fairness /\ Spec

\* Properties

\* Every variable keeps its type; in particular the failure count never
\* passes the threshold and racing increment_probe calls never push the
\* probe count past MaxProbes + (number of requests - 1).
TypeOK ==
    /\ file \in Record \cup {Missing, Torn}
    /\ lock \in Requests \cup {NoHolder}
    /\ pc \in [Requests -> Phase]
    /\ buf \in [Requests -> Record]
    /\ cont \in [Requests -> Phase]
    /\ healthy \in BOOLEAN
    /\ age \in 0..(StaleAge + 1) \cup {None}
    /\ sweep \in {"idle", "remove"}
    /\ orphans \subseteq Requests
    /\ olock \in orphans \cup {NoHolder}

\* Refinement: with the file as the requests see it, the code takes only
\* the transitions of the spec.md state-machine table.
Refines == Abs!Spec

\* A breaker that is OPEN leaves OPEN only through check_state's
\* OPEN -> HALF_OPEN transition, or when cleanup_stale_files removes a file
\* that was really stale (spec.md 3: files older than the configured age
\* are garbage-collected): no write from a request that read the file
\* earlier (or read it torn), and no removal of a file that was rewritten
\* after the sweeper read its mtime, turns an OPEN breaker back to CLOSED.
OpenLeavesOnlyToHalfOpen ==
    [][View.state = "OPEN" =>
         \/ View'.state \in {"OPEN", "HALF_OPEN"}
         \/ file' = Missing /\ age # None /\ age > StaleAge]_vars

\* Once the provider has recovered, the breaker is eventually CLOSED again,
\* whatever state the races between requests left it in.
BreakerRecovers == healthy ~> (View.state = "CLOSED")

=============================================================================
