-------------------------- MODULE MCCircuitBreaker --------------------------
(***************************************************************************)
(* Model-checking instance of CircuitBreaker.  Bounds: a threshold of 2    *)
(* failures, a reset timeout of 2 ticks and a count window of 1 tick make  *)
(* every row of the state-machine table reachable within a few steps,      *)
(* including a count restarted because the last failure left the window.  *)
(***************************************************************************)
EXTENDS CircuitBreaker, TLC

\* Requests are interchangeable: safety runs may permute them.
RequestSymmetry == Permutations(Requests)

=============================================================================
