-------------------------- MODULE MCPasswordReset --------------------------
(***************************************************************************)
(* PasswordReset on one user, two values of its columns, two requests in   *)
(* flight and time enough for a row to go stale and another to be made.    *)
(***************************************************************************)
EXTENDS PasswordReset, TLC

CONSTANTS u1, u2, c1, c2
Callers == Permutations(Caller)
=============================================================================
