-------------------------- MODULE MCHmacMiddleware --------------------------
(***************************************************************************)
(* Model-checking instance of HmacMiddleware for hmac_clock_step: two     *)
(* nonces against a cache of three, so capacity never evicts and a replay  *)
(* can pass only by expiry; a skew of one tick, a clock long enough for a  *)
(* nonce deadline (2 ticks) to pass, and wall-clock steps back.            *)
(***************************************************************************)
EXTENDS HmacMiddleware, TLC

\* Nonces are interchangeable.
NonceSymmetry == Permutations(Nonces)

=============================================================================
