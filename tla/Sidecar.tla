------------------------------- MODULE Sidecar -------------------------------
(***************************************************************************)
(* The sidecar app of src/adapters/cheval_server.py: every POST passes     *)
(* HMACVerificationMiddleware (the HmacMiddleware module, instantiated     *)
(* over this module's variables) and, when it calls call_next, reaches the *)
(* handler of its path.  /invoke parses the body, looks up or creates the  *)
(* provider's client in the process-wide ProviderPoolManager, and sends    *)
(* the provider request through that client.                               *)
(*                                                                         *)
(* The event loop runs one coroutine at a time.  From the middleware's     *)
(* check_and_add to pool_manager.get_or_create nothing is awaited that can *)
(* let another request run (request.body() is already cached), so that    *)
(* prefix is one step.  What follows (invoke_with_retry_async,            *)
(* normalize_response and the response) touches only the request's own     *)
(* locals and the client it got, so it is folded into the same step: every *)
(* exchange of the retry loop goes through that client.                    *)
(*                                                                         *)
(* A body is the JSON the client signs under a nonce; only its kind and    *)
(* its provider member matter here.                                        *)
(*                                                                         *)
(* Shutdown stops the app; Restart starts a new process, whose nonce cache *)
(* is empty again.                                                         *)
(***************************************************************************)
EXTENDS Integers, Sequences, FiniteSets

CONSTANTS
    Nonces, Paths, Skew, Capacity, SecretConfigured, PrevConfigured,
    MaxTime,
    Providers,  \* provider members requests carry: [name, url, timeouts]
    BodyKinds,  \* "ok", "incomplete" (no base_url or api_key), "not_json", "not_object"
    None

ASSUME "ok" \in BodyKinds

VARIABLES
    cache, mono, back, sent, accepted, capEvicted,  \* HmacMiddleware
    body,       \* body[n]: the request body the client signs under nonce n
    pools,      \* ProviderPoolManager._pools: a client per provider name, or None
    calls,      \* the provider exchanges made: the nonce and the client used
    up,         \* the app serves requests (shutdown has not run)
    forgotten   \* nonces whose live cache entry a restart dropped

hmacVars == <<cache, mono, back, sent, accepted, capEvicted>>
vars == <<hmacVars, body, pools, calls, up, forgotten>>

\* The wall clock is not stepped here: HmacMiddleware alone checks that.
Hmac == INSTANCE HmacMiddleware WITH MaxStepBack <- 0

Names == {p.name : p \in Providers}

Bodies ==
    {[kind |-> "ok", provider |-> p] : p \in Providers}
        \cup {[kind |-> k, provider |-> None] : k \in BodyKinds \ {"ok"}}

\* httpx.AsyncClient(base_url=..., timeout=httpx.Timeout(...)): what a
\* client is bound to when it is created.
ClientOf(p) == [url |-> p.url, timeouts |-> p.timeouts]

\* ProviderPoolManager.get_or_create: the existing client of that name, or a
\* new one bound to this provider's base_url and timeouts.
get_or_create(p) ==
    IF pools[p.name] # None THEN pools
    ELSE [pools EXCEPT ![p.name] = ClientOf(p)]

\* The /invoke handler for the body signed under nonce n.
invoke(n) ==
    LET b == body[n]
        ps == get_or_create(b.provider)
    IN CASE b.kind = "not_json" -> UNCHANGED <<pools, calls>>      \* 400 INVALID_JSON
         [] b.kind = "not_object" -> UNCHANGED <<pools, calls>>    \* .get raises: 500
         [] b.kind = "incomplete" -> UNCHANGED <<pools, calls>>    \* 400 MISSING_PROVIDER
         [] OTHER -> /\ pools' = ps
                     /\ calls' = calls \cup {[nonce |-> n, client |-> ps[b.provider.name]]}

Init ==
    /\ Hmac!Init
    /\ body \in [Nonces -> Bodies]
    /\ pools = [m \in Names |-> None]
    /\ calls = {}
    /\ up = TRUE
    /\ forgotten = {}

\* A POST to target: the middleware, then /invoke or /invoke/stream (501).
Post ==
    /\ up
    /\ \E q \in Hmac!Arrivals, target \in Paths, complete \in BOOLEAN :
        /\ Hmac!dispatch(q, target, complete)
        /\ IF Hmac!Verdict(q, target, complete) = "pass" /\ target = "/invoke"
           THEN invoke(q.nonce)
           ELSE UNCHANGED <<pools, calls>>
    /\ UNCHANGED <<mono, back, sent, body, up, forgotten>>

\* The shutdown handler: pool_manager.close_all closes every client and
\* clears the map.  The server has stopped taking requests and drained the
\* ones in flight before it runs; nothing is served afterwards.
Shutdown ==
    /\ up
    /\ up' = FALSE
    /\ pools' = [m \in Names |-> None]
    /\ UNCHANGED <<hmacVars, body, calls, forgotten>>

\* The sidecar is started again after a shutdown or a crash: a new process
\* builds the module-level nonce_cache and pool_manager empty.  Requests the
\* client signed before are still deliverable, and time.monotonic() (a
\* system clock) goes on.
Restart ==
    /\ ~up
    /\ up' = TRUE
    /\ cache' = << >>
    /\ forgotten' = forgotten \cup Hmac!CachedNonces(Hmac!_evict_expired(cache, mono))
    /\ UNCHANGED <<mono, back, sent, accepted, capEvicted, body, pools, calls>>

Next ==
    \/ \E n \in Nonces, iss \in (Hmac!wall - Skew)..(Hmac!wall + Skew), p \in Paths,
          k \in {"current", "previous"} : Hmac!Sign(n, iss, p, k) /\ UNCHANGED <<body, pools, calls, up, forgotten>>
    \/ Post
    \/ Shutdown
    \/ Restart
    \/ Hmac!Tick /\ UNCHANGED <<body, pools, calls, up, forgotten>>

Spec == Init /\ [][Next]_vars

\* Properties

TypeOK ==
    /\ Hmac!TypeOK
    /\ body \in [Nonces -> Bodies]
    /\ pools \in [Names -> {ClientOf(p) : p \in Providers} \cup {None}]
    /\ calls \subseteq [nonce : Nonces, client : {ClientOf(p) : p \in Providers}]
    /\ up \in BOOLEAN
    /\ forgotten \subseteq Nonces

\* The nonce cache through the whole app and across restarts: a signed
\* request passes a second time only after capacity pushed its nonce out
\* or a restart dropped the cache while its entry was live (spec.md 4.5
\* keeps the cache in the process); expiry on the 2 * skew deadline never
\* lets a nonce go while its signature would still pass the skew check.
ReplayOnlyAfterEvictionOrRestart ==
    \A n \in Nonces : accepted[n] >= 2 => n \in capEvicted \cup forgotten

\* Forged requests never enter the cache (HmacMiddleware).
CacheHoldsOnlyGenuineNonces == Hmac!CacheHoldsOnlyGenuineNonces

\* spec.md 4.5, 4.9 and 4.11: the provider is called only for a request the
\* client signed with a configured secret for /invoke itself, whose body
\* names a complete provider, and the call goes through a client bound to
\* that provider's own base_url and timeouts (it carries that request's
\* api_key).  This relates the middleware's verdict, the handler's checks
\* and the pool map that earlier requests filled.
ProviderCallsAuthorized ==
    \A c \in calls :
        /\ \E q \in sent : q.nonce = c.nonce /\ Hmac!Genuine(q) /\ q.path = "/invoke"
        /\ body[c.nonce].kind = "ok"
        /\ c.client = ClientOf(body[c.nonce].provider)

=============================================================================
