-------------------------- MODULE MCCircuitBreaker --------------------------
(* CircuitBreaker with three callers. *)
EXTENDS CircuitBreaker

CONSTANTS w1, w2, w3

MCCallers == {w1, w2, w3}
=============================================================================
