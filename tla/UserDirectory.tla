--------------------------- MODULE UserDirectory ---------------------------
(***************************************************************************)
(* What the user endpoints promise an administrator: a directory of users, *)
(* each entered under an e-mail nobody else can have, ever; only a listed  *)
(* user changes, and a removed user does not come back.  Registering is    *)
(* not atomic: an e-mail is reserved first, and may stay reserved for      *)
(* nobody.  UserAccounts implements it when no two requests in flight work *)
(* on one user.                                                            *)
(***************************************************************************)
CONSTANTS User, Email, Column, Value, Nobody, Reserved

VARIABLES
  owner,    \* Nobody, Reserved, or the user entered under each e-mail
  listed,   \* the users in the directory
  profile   \* the columns of each user

vars == <<owner, listed, profile>>

Entered(u) == \E e \in Email : owner[e] = u

Init ==
  /\ owner \in [Email -> User \cup {Nobody, Reserved}]
  /\ \A d, e \in Email : owner[d] = owner[e] /\ owner[d] \in User => d = e
  /\ listed \subseteq {u \in User : Entered(u)}
  /\ profile \in [User -> [Column -> Value]]

Reserve(e) ==
  /\ owner[e] = Nobody
  /\ owner' = [owner EXCEPT ![e] = Reserved]
  /\ UNCHANGED <<listed, profile>>

Enter(u, e, columns) ==
  /\ owner[e] = Reserved /\ ~Entered(u)
  /\ owner' = [owner EXCEPT ![e] = u]
  /\ listed' = listed \cup {u}
  /\ profile' = [profile EXCEPT ![u] = columns]

Change(u, columns) ==
  /\ u \in listed
  /\ profile' = [profile EXCEPT ![u] = columns]
  /\ UNCHANGED <<owner, listed>>

Remove(u) ==
  /\ u \in listed
  /\ listed' = listed \ {u}
  /\ UNCHANGED <<owner, profile>>

Next ==
  \/ \E e \in Email : Reserve(e)
  \/ \E u \in User :
       \/ Remove(u)
       \/ \E columns \in [Column -> Value] :
            \/ Change(u, columns)
            \/ \E e \in Email : Enter(u, e, columns)

Spec == Init /\ [][Next]_vars
=============================================================================
