--------------------------- MODULE HmacMiddleware ---------------------------
(***************************************************************************)
(* The authentication front of the sidecar, src/adapters/cheval_server.py:*)
(* HMACVerificationMiddleware.dispatch, verify_hmac_phase3 and the        *)
(* process-wide LRUNonceCache.  A client signs requests with the current  *)
(* or the previous secret; the network may deliver a signed request late, *)
(* more than once, or to another endpoint; an attacker without a secret   *)
(* sends forged requests.                                                  *)
(*                                                                         *)
(* A signature is abstracted to what it was computed over (signer, path,  *)
(* issued_at, nonce): HMAC-SHA256 over the newline-joined canonical string*)
(* matches exactly when all of these agree.  Two clocks are kept apart, as *)
(* in the code: the skew check reads the wall clock (datetime.now), the   *)
(* nonce deadlines read time.monotonic().  dispatch runs without awaiting *)
(* between the skew check and check_and_add, so it is one step.           *)
(***************************************************************************)
EXTENDS Integers, Sequences, FiniteSets

CONSTANTS
    Nonces,             \* nonces (model values)
    Paths,              \* endpoints that take POST
    Skew,               \* CHEVAL_HMAC_SKEW_SECONDS, in ticks
    Capacity,           \* CHEVAL_NONCE_CACHE_SIZE
    SecretConfigured,   \* CHEVAL_HMAC_SECRET is non-empty
    PrevConfigured,     \* CHEVAL_HMAC_SECRET_PREV is non-empty
    MaxTime,            \* bound on the monotonic clock
    MaxStepBack         \* bound on how far the wall clock may be set back (0: never)

ASSUME Skew \in Nat \ {0} /\ Capacity \in Nat /\ MaxTime \in Nat /\ MaxStepBack \in Nat
ASSUME SecretConfigured \in BOOLEAN /\ PrevConfigured \in BOOLEAN

VARIABLES
    cache,      \* LRUNonceCache._cache: <<[nonce, expiry]>> in insertion order
    mono,       \* time.monotonic()
    back,       \* how far the wall clock has been set back: wall = mono - back
    sent,       \* requests the client has signed (and the network may deliver again)
    accepted,   \* accepted[n]: how often a request with nonce n passed the middleware (capped at 2)
    capEvicted  \* nonces dropped from the cache because it was over capacity

vars == <<cache, mono, back, sent, accepted, capEvicted>>

wall == mono - back

Signers == {"current", "previous", "attacker"}
Request == [nonce : Nonces, issued : Int, path : Paths, signer : Signers]

\* A variant that keeps nonces for one skew only.
NonceTTL_oneSkew == Skew

\* nonce_ttl = CHEVAL_HMAC_SKEW_SECONDS * 2
NonceTTL == Skew * 2

\* The signature matches under the current secret, or under the previous
\* one when it is set (compare_digest against each expected digest).
Genuine(q) == q.signer = "current" \/ (PrevConfigured /\ q.signer = "previous")

\* A variant that checks the timestamp and the endpoint but not the digest.
verify_hmac_phase3_noDigest(q, target) ==
    /\ wall - q.issued <= Skew /\ q.issued - wall <= Skew
    /\ q.path = target

\* A variant whose canonical string leaves out the path.
verify_hmac_phase3_anyPath(q, target) ==
    /\ wall - q.issued <= Skew /\ q.issued - wall <= Skew
    /\ Genuine(q)

\* verify_hmac_phase3: clock-skew check on the wall clock, then the signature
\* under the current secret, then under the previous one if it is set.
verify_hmac_phase3(q, target) ==
    /\ wall - q.issued <= Skew /\ q.issued - wall <= Skew
    /\ q.path = target
    /\ Genuine(q)

\* _evict_expired: drop entries from the oldest end while they are expired,
\* stopping at the first one that is not.
RECURSIVE _evict_expired(_, _)
_evict_expired(c, now) ==
    IF c # << >> /\ now > Head(c).expiry THEN _evict_expired(Tail(c), now) ELSE c

\* The entries the capacity loop of check_and_add pops, oldest first.
\* A variant of check_and_add without the capacity loop.
KeepNewest_noEvict(c) == c

OverCapacity(c) == IF Len(c) > Capacity THEN SubSeq(c, 1, Len(c) - Capacity) ELSE << >>
KeepNewest(c) == IF Len(c) > Capacity THEN SubSeq(c, Len(c) - Capacity + 1, Len(c)) ELSE c

CachedNonces(c) == {c[i].nonce : i \in DOMAIN c}


Init ==
    /\ cache = << >>
    /\ mono = 0
    /\ back = 0
    /\ sent = {}
    /\ accepted = [n \in Nonces |-> 0]
    /\ capEvicted = {}

\* The client signs a request with a nonce it never used, an issued_at from
\* its own clock (within the skew of the server's), for one endpoint, with
\* the current secret or, during a rotation, the previous one.
Sign(n, iss, p, k) ==
    /\ n \notin {q.nonce : q \in sent}
    /\ sent' = sent \cup {[nonce |-> n, issued |-> iss, path |-> p, signer |-> k]}
    /\ UNCHANGED <<cache, mono, back, accepted, capEvicted>>

\* The checks of HMACVerificationMiddleware.dispatch, in order, for a POST
\* carrying request q, sent to endpoint target, with all four x-cheval-*
\* headers or not: the error it returns, or "pass" when it calls call_next.
\* The replay test sees the cache as _evict_expired leaves it.
Verdict(q, target, complete) ==
    CASE ~SecretConfigured -> "HMAC_NOT_CONFIGURED"     \* 500
      [] ~complete -> "HMAC_MISSING_HEADERS"            \* 403
      [] ~verify_hmac_phase3(q, target) -> "HMAC_INVALID"
      [] q.nonce \in CachedNonces(_evict_expired(cache, mono)) -> "REPLAY_DETECTED"
      [] OTHER -> "pass"

\* The state dispatch leaves: only check_and_add (called once the signature
\* is valid) evicts, and only a fresh nonce is added.
dispatch(q, target, complete) ==
    LET c == _evict_expired(cache, mono)
        added == Append(c, [nonce |-> q.nonce, expiry |-> mono + NonceTTL])
    IN
    CASE Verdict(q, target, complete) = "pass" ->
            /\ cache' = KeepNewest(added)
            /\ capEvicted' = capEvicted \cup CachedNonces(OverCapacity(added))
            /\ accepted' = [accepted EXCEPT ![q.nonce] = IF @ < 2 THEN @ + 1 ELSE 2]
      [] Verdict(q, target, complete) = "REPLAY_DETECTED" ->
            /\ cache' = c
            /\ UNCHANGED <<accepted, capEvicted>>
      [] OTHER ->
            /\ UNCHANGED <<cache, accepted, capEvicted>>

\* What may arrive in a POST: a request the client signed (first delivery,
\* duplicate or replay, to its own or another endpoint) or a forgery.
Arrivals == sent \cup [nonce : Nonces, issued : {wall}, path : Paths, signer : {"attacker"}]

Deliver ==
    \E q \in Arrivals, target \in Paths, complete \in BOOLEAN :
        /\ dispatch(q, target, complete)
        /\ UNCHANGED <<mono, back, sent>>

\* Time passes on both clocks.
Tick ==
    /\ mono < MaxTime
    /\ mono' = mono + 1
    /\ UNCHANGED <<cache, back, sent, accepted, capEvicted>>

\* The wall clock is stepped back one tick (an NTP correction); the
\* monotonic clock is not affected.
StepBack ==
    /\ back < MaxStepBack
    /\ back' = back + 1
    /\ UNCHANGED <<cache, mono, sent, accepted, capEvicted>>

Next ==
    \/ \E n \in Nonces, iss \in (wall - Skew)..(wall + Skew), p \in Paths,
          k \in {"current", "previous"} : Sign(n, iss, p, k)
    \/ Deliver
    \/ Tick
    \/ StepBack

Spec == Init /\ [][Next]_vars

\* Properties

TypeOK ==
    /\ cache \in Seq([nonce : Nonces, expiry : 0..(MaxTime + NonceTTL)])
    /\ Len(cache) <= Capacity
    /\ mono \in 0..MaxTime /\ back \in 0..MaxStepBack
    /\ sent \subseteq Request
    /\ accepted \in [Nonces -> 0..2]
    /\ capEvicted \subseteq Nonces

\* A signed request passes the middleware a second time only if its nonce
\* was pushed out of the full cache in between: the 2 * skew deadline of
\* check_and_add never lets a nonce go while its signature would still pass
\* the skew check of verify_hmac_phase3.
ReplayOnlyAfterCapacityEviction ==
    \A n \in Nonces : accepted[n] >= 2 => n \in capEvicted

\* Only requests signed with a configured secret reach check_and_add: a
\* forger cannot fill the nonce cache (to push genuine nonces out, or to
\* burn nonces the client has not used yet).
CacheHoldsOnlyGenuineNonces ==
    \A n \in CachedNonces(cache) :
        \E q \in sent : q.nonce = n /\ Genuine(q)

=============================================================================
