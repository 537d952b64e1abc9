-------------------------- MODULE MCCircuitBreaker --------------------------
(***************************************************************************)
(* CircuitBreaker on two methods of one class and group: two calls in      *)
(* flight and a reset timeout shorter than the timeout of a call, so that  *)
(* a call from before the breaker opened ends after it was half opened.    *)
(***************************************************************************)
EXTENDS CircuitBreaker

CONSTANTS s1, s2, m1, m2, k1
MCKeyOf == [m \in Method |-> k1]
=============================================================================
