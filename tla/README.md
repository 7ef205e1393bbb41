# TLA+ models of the cheval adapters

This directory holds TLA+ models of the Python adapters under `src/adapters/`,
together with the TLC configurations that check them. The adapters are a
provider-invocation core with several parts:

- a one-shot CLI (`cheval.py`);
- an HTTP sidecar (`cheval_server.py`);
- a file-persisted circuit breaker (`circuit_breaker.py`);
- an SSE decoder (`sse_decoder.py`);
- cost accounting (`usage_calculator.py`) and configuration loading
  (`config_loader.py`, `provider_registry.py`).

`spec.md` is the design these modules are checked against. `PROJECT.json`
holds the machine-readable inventory:

- the components;
- the runs;
- the mutants;
- the map from every modelled definition to the source lines it translates;
- the findings;
- the hazards.

## 1. The system and how its parts interact

| Part | Source | State | Operations | Interacts with |
|---|---|---|---|---|
| HMAC middleware and nonce cache | `cheval_server.py` 56-242 | process-wide `LRUNonceCache` (OrderedDict nonce → monotonic deadline); the secrets and skew from the environment | `dispatch`, `verify_hmac_phase3`, `check_and_add`, `_evict_expired` | sits in front of every POST route of the sidecar |
| Retry engine | `cheval.py` 268-362, `cheval_server.py` 297-395 | loop locals: `attempt`, `last_error` | `invoke_with_retry`, `invoke_with_retry_async` (same control flow) | called by `/invoke` and by `run_machine_mode`; talks to the provider through httpx |
| One-shot mode | `cheval.py` 381-496 | a single blocking run | `run_machine_mode`: read the file, `verify_hmac`, check the provider, retry loop, parse, normalise, exit | the retry engine; the caller reads the exit status |
| Circuit breaker | `circuit_breaker.py` | `.run/circuit-breaker-<provider>.json`, shared by every process and thread; written under `flock`, read without a lock | `check_state`, `increment_probe`, `record_success`, `record_failure`, `_write_state`, `cleanup_stale_files` | its caller is not in `src/`; spec.md 2 puts the check before the provider call |
| SSE decoder | `sse_decoder.py` | the buffer, the pending event and the persistent id/retry | `sse_decode` over a chunked byte stream | the streaming endpoint (still a 501 stub) |
| Sidecar endpoints, pool manager | `cheval_server.py` 245-292, 400-531 | the `_pools` map keyed by provider name | `/invoke`, `/invoke/stream`, `/healthz`, `/readyz`, shutdown | the middleware, the retry engine and normalisation |
| Translation, normalisation | `cheval.py` 106-266 | none (pure) | `build_openai_request`, `normalize_response`, ... | used by both entry points |
| Cost accounting | `usage_calculator.py` | ledger file (`cost_ledger`, not in `src/`) | `compute_cost_estimate`, `enrich_response_with_cost`, `record_usage` | after normalisation |
| Config loader, registry | `config_loader.py`, `provider_registry.py` | none | interpolation, `deep_merge`, `redact_config`, lookups | the human CLI; the redacted copy is what may be shown or logged |

The behaviours that make this code hard to test are these:

- Several processes share one breaker file. Readers take no lock, and a write
  truncates the file before it writes.
- The middleware checks the signature's timestamp on the wall clock but expires
  nonces on the monotonic clock.
- The nonce cache is bounded, and it evicts the oldest nonce at capacity.
- The retry loop's classification decides which errors are retried and which
  error surfaces.
- The SSE decoder sees chunks at arbitrary boundaries.
- The CLI promises an exit status for every kind of failure.

`PROJECT.json` lists each hazard at its source line.

## 2. Modules

| Module | Models | State (VARIABLES) | Actions |
|---|---|---|---|
| `CircuitBreakerSpec` | the state table of spec.md 4.4, with every transition atomic (the abstract specification) | `breaker` | `Tick`, `FailClosed`, `SucceedClosed`, `CheckOpen`, `FailOpen`, `ProbeStart`, `SucceedHalfOpen`, `FailHalfOpen` |
| `CircuitBreaker` | `circuit_breaker.py` as the code runs it, with several requests on one file | `file` (a record, `Missing`, or `Torn`: empty after the truncate), `lock` (the flock holder), `pc`/`buf`/`cont` per request, `healthy`, `age` (ticks since the file's mtime), `sweep` (the `cleanup_stale_files` step in progress), `orphans` (writers whose file was unlinked under them), `olock` (the flock on the unlinked inode) | `Start`, `check_state`, `increment_probe`, `CallProvider`, `Abandon`, `record_success`, `record_failure`, `Open`, `LockAndTruncate`, `WriteAndUnlock`, `WriteFails`, `Tick`, `Recover`, `SweepCheck`, `SweepRemove` |
| `HmacMiddleware` | `dispatch`, `verify_hmac_phase3` and `LRUNonceCache` | `cache` (a sequence in insertion order), `mono`, `back` (so wall = mono − back), `sent`, `accepted`, `capEvicted` | `Sign` (client), `Deliver` (calls `dispatch`), `Tick`, `StepBack` |
| `RetryEngine` | `invoke_with_retry` | `maxRetries`, `retryable`, `attempt`, `lastError`, `result`, `history` | `Attempt(x)` for each exchange x, `Exhausted` |
| `SseDecoder` | `sse_decode` | `input`, `rest`, `dec` (the decoder's locals and the events yielded), `done` | `Receive(k)` (the next chunk is k bytes), `End` |
| `Sidecar` | the sidecar app: the middleware in front of `/invoke` and `/invoke/stream`, `ProviderPoolManager`, shutdown; composes `HmacMiddleware` by `INSTANCE` over its own variables | the middleware's variables, `body` (what the client signs under each nonce), `pools` (the `_pools` map), `calls` (provider exchanges and the client used), `up`, `forgotten` (nonces whose live cache entry a restart dropped) | `Sign`, `Post` (the middleware's `dispatch`, then the route's handler), `Shutdown`, `Restart`, `Tick` |
| `OneShot` | `run_machine_mode`; composes `RetryEngine` by `INSTANCE` over its own variables and uses `Normalize` | the retry loop's variables, the kinds of inputs, `ptype` (provider.type), `body` (the 200 body), `stage`, `exit`, `out` (the printed result) | `ReadRequest`, `CheckHmac`, `CheckProvider`, `Invoke` (one step of the retry loop), `Conclude` |
| `ConfigLoader` | `redact_config` and the sensitive-key and token tests it uses | `config` (the merged configuration), `logged` (its redacted copy) | `Log` |
| `Normalize` | `normalize_response`, `extract_thinking`, `_extract_tool_calls`, `_extract_usage`, `_empty_result`, and a reference written from the rules of spec.md 4.7 | none (operators) | none |

Each `MC*` module fixes the constants for TLC, and a `.cfg` file selects the
properties to check.

### How the modules correspond to the code

**CircuitBreaker.** Each public function is one action. The action reads the
file (`read_state`, which maps `Missing` and `Torn` to `_default_state`),
computes the new record, and then either returns or enters `_write_state`
(`WriteThen`).

`_write_state` is split into three steps: `Open` (`os.open` with
`O_CREAT`), `LockAndTruncate` (`flock`, `lseek`, `ftruncate`) and
`WriteAndUnlock`. A lock-free reader can run between the truncate and the
write, and the sweeper can unlink the file between the open and the lock.

The caller's protocol is not under `src/`. It comes from spec.md 2 and from the
docstring of `increment_probe`: `check_state`, then `increment_probe` when the
answer is HALF_OPEN, then the call, then `record_*`. Those actions are marked
`spec_modelled` in the map.

Time is modelled as ages. A timestamp is replaced by how many ticks ago it was
taken, saturated at `MaxAge = max(ResetTimeout, CountWindow + 1)`. This keeps
every comparison the code makes (`now - ts > window`,
`now - opened_at >= reset_timeout`) and keeps the state space finite. `Tick` is
not taken while a request sits between its lock and its unlock: that window is
microseconds long, and the thresholds are seconds.

`WriteFails` is `_write_state` when `os.write` raises after the truncate (a
full disk, an I/O error): the `finally` clause unlocks, the file stays empty,
and the exception ends the request. It is enabled by the constant
`WriteCanFail`.

The refinement mapping is `View`, the record a reader would see. While the file
is torn by a lock holder, `View` is the record being written; an empty file
that nobody is writing reads as the default record.

`cleanup_stale_files` is two steps. `SweepCheck` is the `time.time() -
os.path.getmtime(f) > max_age` test on a file whose age is past `StaleAge`,
and `SweepRemove` is the `os.unlink` that follows it. The sweeper takes no
lock, so the unlink can fall after a writer's `os.open`, before or after
its lock. That writer keeps a descriptor to an inode no longer linked
(`orphans`): it locks that inode (`olock`, contended only by other
orphans), its write and unlock reach nobody, and the next reader sees the
file missing, which reads as CLOSED. The sweeper is enabled by the constant
`Sweeps`; `cb_refines` and `cb_abandoned_probe` run without it.

**HmacMiddleware.** A signature is abstracted to what it was computed over:
signer, path, issued_at and nonce. An HMAC matches exactly when all four agree,
which is what HMAC-SHA256 over the canonical string gives. The secrets are the
signers `current` and `previous`. Forgeries are signed by `attacker`.

The module's own `Spec` adds wall-clock steps (`StepBack`) and is used by
`hmac_clock_step`. Its other properties are checked through the whole app in
`Sidecar`, which instantiates it without clock steps.

`Verdict` is the ladder of checks in `dispatch` and names the error it
returns (or "pass"). `dispatch` is the state `check_and_add` leaves behind. The
composition in `Sidecar` needs both. `Arrivals` is what the network may
deliver: any request the client signed, or a forgery.

`dispatch` is one step. Between its `await request.body()` and the end, the
code does not await, so `verify_hmac_phase3` and `check_and_add` run
atomically in the event loop. The early returns (500/403) are the arms of its
CASE.

`_evict_expired` is a RECURSIVE operator that drops entries from the front
while they are expired. The capacity loop is `KeepNewest` (with `OverCapacity`
for the entries it drops).

**RetryEngine.** The backoff sleep before attempt k > 0 changes no state and
belongs to the attempt step. `Classify` holds the try/except ladder.
`Remember` is the `last_error` assignment, and `MoreAttempts` is the
`if attempt < max_retries: continue`.

Exchanges are:

- the statuses 200, 400, 418, 429 and 503, against retryable lists that do and
  do not name 400;
- the exceptions `Timeout`, `ConnectError`, `ReadError` (another httpx network
  error) and `OtherError`.

`invoke_with_retry_async` has the same control flow line for line, so the
module stands for both.

**SseDecoder.** Bytes are short strings. The field names `data`, `event`, `id`
and `retry` are abstracted to the letters `D`, `E`, `I` and `R`. `M1` and `M2`
are the two bytes of one UTF-8 character.

The conversions are modelled by what they do:

- `decode`: per-chunk UTF-8 decoding with `errors="replace"`;
- `Normalize`: `replace("\r\n", "\n").replace("\r", "\n")`;
- `FieldOf`: `partition(":")` and the strip of one space;
- `IntParses` and `IntValue`: `int()` over the digits in the alphabet.

`ProcessLines` is the `while "\n" in buffer` loop, and `Finish` is the code
after the loop.

**Sidecar.** One `Post` is the middleware and the handler of the route it
passes to. The event loop runs one coroutine at a time. From `check_and_add`
to `pool_manager.get_or_create`, nothing is awaited that lets another request
run. Everything after that (`invoke_with_retry_async`, `normalize_response`,
the response) reads only the request's locals and the client it got. So the
whole request is one step, and every exchange of its retry loop goes through
that client. The retry loop and the statuses are checked in `RetryEngine` and
`OneShot`.

A body is reduced to its kind (JSON object with a complete provider,
incomplete provider, not JSON, not an object) and its `provider` member
(name, base_url, timeouts). `get_or_create` is the name lookup, and
`ClientOf` is what an `httpx.AsyncClient` is bound to at creation. `Shutdown`
is `close_all`. uvicorn runs the shutdown event only after it stops accepting
requests and drains the ones in flight, so nothing is served after it.

Restart is the process starting again after it stopped: the nonce cache
is process memory and starts empty (spec.md 4.5 makes it in-process). The
nonces whose entries were still live at the restart are recorded in
`forgotten`, so that a replay of them can be told apart from one that
capacity made possible.

**ConfigLoader.** A configuration value is a dict (`[dict |-> f]`), a list
(`[list |-> s]`) or a scalar, and the wrappers keep an empty dict apart
from an empty list. Strings are reduced to what `redact_config` tests:
`Plain`, `Tokened` (holds an `{env:...}` or `{file:...}` token) and `Num`
(any other scalar). A key is sensitive when `_SENSITIVE_KEY_RE` matches
it. `redact_config` is a RECURSIVE operator with one CASE arm per branch
of the code, in the code's order: a dict is recursed into whatever its key,
a token becomes the annotated sentinel, a value under a sensitive key
becomes `REDACTED`, and everything else (lists included) is copied.
`Reveals` is the reference: a value reached through a sensitive key at any
depth of dicts and lists that is not a sentinel.

**OneShot.** The request file is reduced to the kinds the code tells apart:
missing, not UTF-8, not JSON, not an object, or an object whose `hmac` or
`provider` member is valid, invalid or not an object. An uncaught Python
exception ends the process with status 1 (`Crash`). `Invoke` runs
`RetryEngine!Next` while `stage = "invoke"`. When the loop returns a 200,
`Conclude` picks its body (not JSON, a JSON array, or a parsed answer as in
`Normalize`) and prints `normalize_response` of it under the request's
provider type.

**Normalize.** A parsed answer is a record holding every key the code asks
for. A key the answer lacks holds `Absent`, so `Get` is `dict.get` with its
default. JSON null is `None`, and list entries that are not objects are
`NotObject`. Strings are the tokens the code tells apart: `""`, the blank
`" "`, and text. The id that `hashlib.md5` synthesises is a function of the
call. `ExtractCalls` is the `for` loop of `_extract_tool_calls` with its two
`continue`s. The metadata block (model, id, latency, trace id) is copied
through and left out. The `Spec*` operators at the end of the module are the
reference: they are written from the rules of spec.md 4.7, not from the code.

## 3. Runs

| Run | Expect | Checks | Bounds | Shows |
|---|---|---|---|---|
| `cb_refines` | pass | `Refines` | 1 request, abandonment on, Threshold 2, ResetTimeout 2, CountWindow 1, MaxProbes 1 | Run by one request at a time, the code takes only transitions of the spec.md 4.4 table: `CircuitBreaker` implements `CircuitBreakerSpec` under `View`. |
| `cb_recovers` | pass | `TypeOK`, `BreakerRecovers` | 2 racing requests, no abandonment, writes that may fail after the truncate, the stale-file sweeper on (StaleAge 3), same thresholds, `FairSpec` | Whatever the races, failed writes and unlinked files leave behind, a recovered provider brings the breaker back to CLOSED. The failure count stays at or below the threshold, and probes stay at or below MaxProbes + requests − 1. |
| `cb_open_lost` | violation | `OpenLeavesOnlyToHalfOpen` | 2 requests, writes may fail, sweeper on | TLC reports a single request whose second failure trips the breaker: it truncates the file, `os.write` fails, and the empty file reads as CLOSED with count 0. With `WriteCanFail = FALSE` it reports the race: r1 writes OPEN, r2 read the file torn (so it saw CLOSED), failed, and writes CLOSED with count 1 over the OPEN record. With one request and writes that succeed, it reports the sweeper: it reads a stale mtime, the request truncates to write OPEN, the unlink removes the file, and the OPEN record goes to the orphaned inode. The property allows a stale file to be removed; only the removal of a fresh one counts. |
| `cb_abandoned_probe` | violation | `BreakerRecovers` | 1 request, abandonment on | `increment_probe` writes HALF_OPEN with probes = 1, and the caller disconnects. From then on `check_state` answers OPEN forever and never re-arms the breaker. |
| `hmac_clock_step` | violation | `ReplayOnlyAfterCapacityEviction` | Capacity 3 (never full), wall clock set back up to 2 | The nonce expires on the monotonic clock. The wall clock is then set back one tick, the replay falls inside the skew window again, and it is accepted. |
| `sidecar` | pass | `TypeOK`, `ReplayOnlyAfterEvictionOrRestart`, `CacheHoldsOnlyGenuineNonces`, `ProviderCallsAuthorized` | 2 nonces (symmetric), both paths, Skew 1, Capacity 1, both secrets, monotonic time 0..3, no wall-clock step, shutdowns and restarts; two providers with distinct names; every body kind; no deadlock check (after shutdown the app serves nothing) | Through the middleware and the handler, a signed request passes a second time only after capacity pushed its nonce out or a restart dropped its live entry: the 2 × skew deadline always outlives the skew window. Forgeries and wrong-endpoint replays never reach the cache. The provider is called only for a request signed with a configured secret for `/invoke` itself, whose body names a complete provider, and the call goes through a client bound to that provider's base_url and timeouts. |
| `sidecar_stale_pool` | violation | `ProviderCallsAuthorized` | as `sidecar`, with two providers sent without a name (pooled as `unknown`) | The first request creates the `unknown` client for u1. The second request, for u2, goes through that client: to u1, with its own api_key. |
| `retry_network` | violation | `NetworkErrorsRetried` | max_retries ∈ {−1, 0, 1, 2}, retryable lists {429, 503} and {400, 429}, every exchange | A `ReadError` on attempt 1 of 2 ends the call as non-retryable. |
| `sse_chunks` | pass | `TypeOK`, `ChunkInvariant` | every well-formed stream of ≤ 5 bytes over LF, `:`, space, `1`, D, I, R, NUL, and every chunking | For LF framing, every chunking yields the events of the whole stream: the pending event, id and retry carry over, and an id with NUL is never taken. |
| `sse_split` | violation | `ChunkInvariant` | streams of ≤ 4 bytes over CR, LF, `:`, D, M1, M2 | TLC reports `D:` + a two-byte character split between chunks, which gives data "??" instead of "U". With M1 and M2 removed, it reports `D CR \| LF D`, which gives two events instead of one. |
| `oneshot_exit` | pass | `TypeOK`, `ExitMatchesTaxonomy`, `SurfacedErrorIsLast`, `RetriesOnlyRetryable`, `NormalizeMatchesSpec` | well-typed inputs only: files missing / not JSON / object; hmac current / previous / bad; provider ok / incomplete; both secret settings; provider types openai and openai-compatible; 200 bodies: not JSON, an array, or any of 4315 parsed answers (`MCResponses`); max_retries ∈ {−1, 0, 1, 2}; retryable lists {429, 503} and {400, 429}; statuses 200, 400, 418, 429, 503 and all four exception classes | Every path of `run_machine_mode` exits with the status of the taxonomy for its first failure, and the retry loop is entered only after a valid signature. The retry loop inside it (`RetryEngine` by INSTANCE) retries only retryable exchanges (never 400–404, even when they are listed; ReadError is left to `retry_network`), gives up on a retryable error only after max_retries + 1 attempts, and raises the error of the last exchange. Every printed result is the one the spec.md 4.7 rules give for its body and provider type. |
| `config_redact` | violation | `RedactedConfigHidesSecrets` | keys `model` and `api_key` (sensitive); scalars plain, tokened and other; every config of dicts, and lists of at most two, two levels deep (160,801 configs) | TLC reports `{model: [{api_key: <plain string>}]}`: the list is copied whole, so the literal secret in the dict inside it is shown. Without lists it reports `{api_key: {model: <plain string>}}`: a dict under a sensitive key is recursed into, and its members are redacted only if their own names are sensitive. |

**Why these bounds are enough.**

- **Breaker:** two requests are the smallest number that can race. Threshold 2
  makes counting matter, and CountWindow 1 with ResetTimeout 2 gives ages that
  are both inside and outside each window.
- **Nonce cache:** two nonces against capacity 1 force capacity evictions. A
  monotonic clock running to 3 (4 in `hmac_clock_step` and
  `sidecar_stale_pool`) with TTL 2 makes nonces expire while their
  signatures are still within skew, and a restart can fall while an entry is
  live or after it expired. Three nonces against capacity 2 would
  also evict an entry that is not the newest. With the pool and the bodies
  added, that instance does not finish in TLC's time budget here.
- **Sidecar:** two nonces and two providers are the smallest numbers for
  which one request can find a client that another created. Both paths are
  needed for a request signed for one endpoint and delivered to the other.
- **Sweeper:** StaleAge 3 exceeds every threshold window, so a file goes
  stale only after a quiet spell, and the age reaches past it within the
  bound of ticks.
- **Config loader:** two keys, one sensitive, are the fewest that put a
  sensitive key under a non-sensitive one and the reverse; two levels of
  nesting reach a dict inside a list and a dict inside a dict.
- **Retry engine:** max_retries up to 2 gives first, middle and last attempts,
  and −1 gives the empty loop.
- **Normalisation:** `MCResponses` takes every choices shape (missing,
  empty, a message that is missing), every content token (missing, null,
  `""`, text), every reasoning token (missing, null, `""`, blank, text),
  tool_calls missing, null, empty, one entry of each of 15 shapes or two
  entries of the 5 main shapes (not an object, no function, empty name, a
  name alone, a name with id and arguments), and usage missing, not an
  object, or with each count once present, once null and once missing. The
  product is 4315 answers, each checked under both provider types. Values
  the spec's schema excludes (a null function, a non-string
  reasoning_content, token counts that are strings) are left out: the
  code raises or copies them unchanged, and spec.md 4.7 does not say what
  they should give.
- **SSE decoder:** the shortest counterexamples are 4 bytes long, so 5 bytes
  over the pass alphabet covers two-line events, comments, id persistence and
  unterminated last lines.

**Mutants.** Every property of a passing run has a mutant in `PROJECT.json`
that TLC kills under the run's own cfg. A mutant replaces a mapped definition
with a variant of the kind a plausible bug would produce: an off-by-one
threshold, a dropped capacity loop, a one-skew TTL, a missing digest check, a
path left out of the canonical string, a first-not-last `last_error`, the retryable list consulted before
`NON_RETRYABLE_STATUS`, a buffer that is not carried across chunks, a dropped
NUL check, swapped exit codes, or an empty tool_calls list where None is due.

## 4. Fairness

`FairSpec` of `CircuitBreaker` is used only by the liveness runs. It assumes
the following:

- Weak fairness on each request's own steps: a started request runs to its
  end. The code has no loop and no wait except the flock.
- Strong fairness on `LockAndTruncate`: `flock(LOCK_EX)` blocks until it gets
  the lock, and the kernel grants a waiter once the lock is released often
  enough.
- Strong fairness on `Tick`: time passes.

`Abandon`, `WriteFails`, `Recover`, `SweepCheck` and `SweepRemove` are never forced: the sweeper runs only when the caller invokes it. `cb_abandoned_probe` shows that a
single abandonment is enough to lose liveness.

The other modules check only safety properties. `Restart` of `Sidecar` is never forced either.

## 5. What is not modelled, and why

- **`/healthz`, `/readyz` and startup** change no state. `/invoke` never
  calls the circuit breaker (spec.md 2 places the check before translation).
  A composition would only show a breaker that nothing consults, so the gap is
  listed as a hazard.
- **Request translation.** `build_openai_request` and `_convert_messages`
  only copy fields into the wire body, which no modelled component reads.
  Reading them against spec.md 4.7 shows one departure: an assistant message
  with null content and no tool calls loses its `content` key, where the spec
  gives it `""`. That is a single branch that a unit test reaches, and a
  run to show it would be a thirteenth run.
- **Cost accounting.** `usage_calculator.py` imports `pricing` and
  `cost_ledger`, which are not under `src/`; its arithmetic cannot be
  translated from code that is not there.
- **Config loader, except redaction.** `interpolate_config` reads the
  environment and files, and the one gap found by reading it (a list inside
  a list is not interpolated) is listed as a hazard. `deep_merge` is a dict
  union of layers with no state. The file checks of `_resolve_file`
  (allowed directory, symlink, regular file, owner, mode; the caller opens it later) are a check-then-use on the filesystem
  that a model of a single process cannot race, and `redact_string` is a
  regular-expression scrub. No module under `src/` calls the loader, and
  the project's twelve runs leave no slot for these, so they are listed as
  hazards.
- **Malformed one-shot inputs.** `OneShot` models every kind of request file
  and the non-integer `--schema-version`. A non-integer schema argument or a
  file that is not UTF-8 escapes as an uncaught exception that exits 1 where
  the taxonomy says 4. `oneshot_exit` checks the well-typed inputs only, and
  the malformed ones are listed as a hazard, because the run budget went to
  `config_redact`.
- **Provider registry** is static lookups. **Human CLI mode**
  (`run_human_mode`) is a manual-testing path for which spec.md promises
  nothing: it loads `.loa.config.yaml`, makes one request without retry and
  pretty-prints the result.
- **Backoff delays and the total deadline.** The jittered sleep changes no
  state. The hazard that `total_timeout_ms` only bounds the pool wait needs
  elapsed time per attempt, which is planned.

## 6. Plan

The modules already on disk, in the order they were written:

1. `CircuitBreakerSpec` and `CircuitBreaker`;
2. `HmacMiddleware`;
3. `RetryEngine`;
4. `SseDecoder`;
5. `OneShot`;
6. `Sidecar`;
7. `Normalize`;
8. `ConfigLoader`.

Still to write:

- **`ConfigLoader` additions.** `interpolate_config` and `deep_merge` as
   RECURSIVE operators, once a run slot is free.
- **`CostMath`.** Micro-USD cost with carried remainders, as operators checked
   against exact rational totals over bounded token counts
   (`compute_cost_estimate`, spec_modelled pricing).
- **`Normalize`.** Done: `normalize_response` and its helpers, checked in
   `oneshot_exit` against a reference written from spec.md 4.7.
- **`CircuitBreaker` additions.** The write that fails after the truncate
    is done (`WriteFails`), and so is `cleanup_stale_files`.
- **`RetryEngine` additions.** Elapsed time, and a check that the total
    deadline holds.
