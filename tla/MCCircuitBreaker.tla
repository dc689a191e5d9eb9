-------------------------- MODULE MCCircuitBreaker --------------------------
(* Instance of CircuitBreaker for TLC: the threads are interchangeable.     *)
EXTENDS CircuitBreaker, TLC

Symmetry == Permutations(Calls)
=============================================================================
