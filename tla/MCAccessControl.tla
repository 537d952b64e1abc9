-------------------------- MODULE MCAccessControl --------------------------
(***************************************************************************)
(* AccessControl on two roles, three permission rows and two requests in   *)
(* flight.  Role r1 is the administrator's and holds p1 ("manage"), role   *)
(* r2 is a user's and holds p1's sibling p2 ("use"); p3 is a row some      *)
(* request may insert.  "Use" is "use" spelled with a capital.             *)
(***************************************************************************)
EXTENDS AccessControl, TLC

CONSTANTS r1, r2, r3, p1, p2, p3, a1, a2, c1, c2

MCNormalise == [s \in Spelling |-> IF s = "Use" THEN "use" ELSE s]
MCAccountRoles == (a1 :> {r1}) @@ (a2 :> {r2})
MCRequiredPermission == [op \in Op |-> "manage"]
MCSeedRoles ==
  (r1 :> [row |-> "live", name |-> "BACKOFFICE"]) @@ (r2 :> [row |-> "live", name |-> "USER"])
  @@ (r3 :> [row |-> "absent", name |-> NoName])
MCSeedPermissions ==
  (p1 :> [row |-> "live", name |-> "manage"]) @@ (p2 :> [row |-> "live", name |-> "use"])
  @@ (p3 :> [row |-> "absent", name |-> NoName])
MCSeedHeld == {<<r1, p1>>, <<r2, p2>>}
CallerSymmetry == Permutations(Caller)
=============================================================================
