---------------------------- MODULE MCMigrations ----------------------------
(***************************************************************************)
(* Migrations with one permission of each kind and two processes, each cut *)
(* off, begun again or undone anywhere.                                    *)
(***************************************************************************)
EXTENDS Migrations
CONSTANTS r1, r2
MCUserPermission == <<"cat:list">>
MCBackofficePermission == <<"role:list">>
Symmetry == Permutations(Runner)
=============================================================================
