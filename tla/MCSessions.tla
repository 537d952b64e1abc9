----------------------------- MODULE MCSessions -----------------------------
(***************************************************************************)
(* Sessions with one user who holds a refresh token at start, and tokens   *)
(* that live for one second and a half: long enough to renew the token,    *)
(* log it out, and bring it once more about when its entry expires.        *)
(***************************************************************************)
EXTENDS Sessions

CONSTANTS u1, c1, c2
MCFirstTokens ==
  {[claim |-> "userId", user |-> u1, exp |-> 1]}
=============================================================================
