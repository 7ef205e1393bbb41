------------------------------ MODULE MCSidecar ------------------------------
(***************************************************************************)
(* Model-checking instance of Sidecar: two nonces, both endpoints, a cache *)
(* of one, wall-clock steps, and two providers.  ConsistentProviders give  *)
(* every name one base_url and timeouts; UnnamedProviders are two          *)
(* providers whose requests carry no name, so both are pooled as          *)
(* "unknown" (provider.get("name", "unknown")).                            *)
(***************************************************************************)
EXTENDS Sidecar, TLC

ConsistentProviders ==
    {[name |-> "a", url |-> "u1", timeouts |-> "t1"],
     [name |-> "b", url |-> "u2", timeouts |-> "t2"]}

UnnamedProviders ==
    {[name |-> "unknown", url |-> "u1", timeouts |-> "t1"],
     [name |-> "unknown", url |-> "u2", timeouts |-> "t1"]}

\* Nonces are interchangeable.
NonceSymmetry == Permutations(Nonces)

=============================================================================
