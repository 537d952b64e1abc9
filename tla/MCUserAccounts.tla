--------------------------- MODULE MCUserAccounts ---------------------------
(***************************************************************************)
(* UserAccounts on one seeded user and room for two more, one e-mail and   *)
(* two usernames left to compete for, and two requests in flight.          *)
(***************************************************************************)
EXTENDS UserAccounts, TLC

CONSTANTS a1, a2, a3, u1, u2, u3, c1, c2, n1, n2

MCRoleList == {<<"USER">>, <<"USER", "BACKOFFICE">>, <<"USER", "USER">>}
MCSeedAccounts ==
  (a1 :> [email |-> "admin@", username |-> "admin", roles |-> {"BACKOFFICE"}])
  @@ (a2 :> NoAccount) @@ (a3 :> NoAccount)
MCSeedUsers ==
  (u1 :> [row |-> "live", account |-> a1,
          profile |-> [k \in Column |-> IF k = "fullName" THEN "old" ELSE Null]])
  @@ (u2 :> NoUser) @@ (u3 :> NoUser)
FreshSymmetry ==
  {p @@ q @@ r @@ s : p \in Permutations(Caller), q \in Permutations({a2, a3}),
                      r \in Permutations({u2, u3}), s \in Permutations({n1, n2})}
=============================================================================
