----------------------------- MODULE Migrations -----------------------------
(***************************************************************************)
(* The PostgreSQL migrations, statement by statement, as migration:run and *)
(* migration:undo execute them: without a transaction (package.json), each *)
(* statement by itself, and a migration is recorded in the migrations      *)
(* table when its last statement has ended.  Every start of the service    *)
(* begins with migration:run, so two of them may run at the same time, and *)
(* one may be cut off anywhere.                                            *)
(*                                                                         *)
(* The database is the set of its tables, columns, indexes, constraints    *)
(* and the rows inserted; those that no later statement touches are left   *)
(* out with the table they come with.  Of the rows that come from use the  *)
(* resets are kept: the other constraints are added to tables that are new *)
(* or empty, to columns that are new and null, or to rows that had the     *)
(* same one before.                                                        *)
(***************************************************************************)
EXTENDS Naturals, Sequences, FiniteSets, SequencesExt

CONSTANTS
  Runner,           \* processes that run the migrations at the same time
  UserPermission, BackofficePermission,   \* sequences of names
  MaxRuns           \* bound: runs and undos begun

VARIABLES
  db,               \* what exists
  recorded,         \* migrations in the migrations table
  runner,           \* [Runner -> what each is doing]
  runs,
  undone            \* history: migrations whose undo began

vars == <<db, recorded, runner, runs, undone>>

(* No permission is listed twice.                                          *)
ASSUME NamesAssumption ==
  LET names == UserPermission \o BackofficePermission IN
  /\ UserPermission \in Seq(Range(UserPermission))
  /\ BackofficePermission \in Seq(Range(BackofficePermission))
  /\ \A i, j \in DOMAIN names : names[i] = names[j] => i = j
  /\ MaxRuns \in Nat

----------------------------------------------------------------------------
(* What exists in a database, each thing of its kind; rows are pairs too.  *)
Table(t) == <<"table", t>>
Column(c) == <<"column", c>>
Index(i) == <<"index", i>>
Key(k) == <<"key", k>>
ResetRow == <<"row", "reset_password">>

(* A statement needs what it names and makes and drops things.  When what  *)
(* it makes exists it fails, unless it says IF NOT EXISTS or would make    *)
(* another row; and it fails when one of its blockers exists.  together:   *)
(* one of a Promise.all, the others go on.                                 *)
Statement(needs, makes, drops) ==
  [needs |-> needs, makes |-> makes, drops |-> drops, tolerant |-> FALSE, together |-> FALSE,
   blockers |-> {}]

CreateTable(t, columns) == [Statement({}, {Table(t)} \cup columns, {}) EXCEPT !.tolerant = TRUE]
CreateIndex(i, t) == Statement({Table(t)}, {Index(i)}, {})
AddColumn(c, t) == Statement({Table(t)}, {Column(c)}, {})
AddConstraint(k, needs) == Statement(needs, {Key(k)}, {})
Drop(x, others) == Statement({x}, {}, {x} \cup others)
(* dropTable(t, true): nothing when there is none; its own indexes and     *)
(* constraints go with it, those of other tables prevent it.               *)
DropTable(t, own, blockers) ==
  [Statement({}, {}, {Table(t)} \cup own) EXCEPT !.blockers = blockers]
Insert(row, needs) == Statement(needs, {row}, {})
InsertAnother(row, needs) == [Insert(row, needs) EXCEPT !.tolerant = TRUE]
Throws == Statement({<<"nothing", "nothing">>}, {}, {})

Fails(s) ==
  \/ ~(s.needs \subseteq db) \/ s.blockers \cap db # {}
  \/ s.makes \cap db # {} /\ ~s.tolerant

(* IF NOT EXISTS looks at the table only, and leaves it as it is.          *)
Effect(s) == IF s.makes \cap db # {} THEN db ELSE (db \ s.drops) \cup s.makes

All(kind, names, needs) ==
  [i \in DOMAIN names |-> [Insert(<<kind, names[i]>>, needs) EXCEPT !.together = TRUE]]

----------------------------------------------------------------------------
(* The migrations, in the order of their timestamps.                       *)

CreatePermissionTable ==
  [up |-> <<CreateTable("permissions", {})>>,
   down |-> <<DropTable("permissions", {}, {Key("permissions_roles.permissions")})>>]

CreateRoleTable ==
  [up |-> <<CreateTable("roles", {})>>,
   down |-> <<DropTable("roles", {}, {Key("permissions_roles.roles"), Key("users_roles.roles")})>>]

CreateUserPasswordTable ==
  [up |-> <<CreateTable("users_password", {})>>,
   down |-> <<DropTable("users_password", {}, {Key("users.password")})>>]

(* down drops another table than up creates.                               *)
UserColumns == {Column("users.name"), Column("users.email"), Column("users.password_id")}
CreateUserTable ==
  [up |-> <<CreateTable("users", UserColumns)>>,
   down |-> <<DropTable("users_password", {}, {Key("users.password")})>>]

CreateResetPassword ==
  [up |-> <<CreateTable("reset_password", {})>>,
   down |-> <<DropTable("reset_password", {Key("reset_password.users"), ResetRow}, {})>>]

CreatePermissionRoleTable ==
  [up |-> <<CreateTable("permissions_roles", {}),
            CreateIndex("permissions_roles.roles", "permissions_roles"),
            CreateIndex("permissions_roles.permissions", "permissions_roles")>>,
   down |-> <<Drop(Index("permissions_roles.roles"), {}), Drop(Index("permissions_roles.permissions"), {}),
              DropTable("permissions_roles",
                        {Key("permissions_roles.roles"), Key("permissions_roles.permissions")}, {})>>]

CreateUserRoleTable ==
  [up |-> <<CreateTable("users_roles", {}),
            CreateIndex("users_roles.users", "users_roles"),
            CreateIndex("users_roles.roles", "users_roles")>>,
   down |-> <<Drop(Index("users_roles.users"), {}), Drop(Index("users_roles.roles"), {}),
              DropTable("users_roles", {Key("users_roles.users"), Key("users_roles.roles")}, {})>>]

(* Fault: a constraint refers to a table that a later migration creates.   *)
RelationshipBeforeItsTable ==
  [up |-> <<AddConstraint("users.password", {Column("users.password_id"), Table("users_password")}),
            AddConstraint("reset_password.users", {Table("reset_password"), Table("accounts")})>>,
   down |-> <<Throws>>]

(* down looks for check constraints by these names: there are none.        *)
CreateTableRelationship ==
  [up |-> <<AddConstraint("users.password", {Column("users.password_id"), Table("users_password")}),
            AddConstraint("reset_password.users", {Table("reset_password"), Table("users")}),
            AddConstraint("permissions_roles.roles", {Table("permissions_roles"), Table("roles")}),
            AddConstraint("permissions_roles.permissions", {Table("permissions_roles"), Table("permissions")}),
            AddConstraint("users_roles.users", {Table("users_roles"), Table("users")}),
            AddConstraint("users_roles.roles", {Table("users_roles"), Table("roles")})>>,
   down |-> <<Throws>>]

(* down removes the class, which is no entity.                             *)
InsertPermissions ==
  [up |-> All("permission", UserPermission \o BackofficePermission, {Table("permissions")}),
   down |-> <<Throws>>]

(* down deletes by identifiers made anew in its own process.               *)
InsertRoles ==
  [up |-> <<Insert(<<"role", "BACKOFFICE">>, {Table("roles")}), Insert(<<"role", "USER">>, {Table("roles")})>>,
   down |-> <<Statement({Table("roles")}, {}, {}), Statement({Table("roles")}, {}, {})>>]

(* A reset refers to its user; the new key, to accounts, is checked against*)
(* the rows there are.                                                     *)
RefactorUserToAccount ==
  [up |->
     <<CreateTable("accounts", {}), CreateTable("accounts_roles", {}),
       CreateIndex("accounts_roles.accounts", "accounts_roles"),
       CreateIndex("accounts_roles.roles", "accounts_roles"),
       AddColumn("users.account_id", "users"), AddColumn("users.full_name", "users"),
       AddColumn("users.date_of_birth", "users"), AddColumn("users.gender", "users"),
       AddColumn("users.avatar", "users"), AddColumn("users.phone", "users"),
       Drop(Column("users.name"), {}), Drop(Column("users.email"), {}),
       Drop(Column("users.password_id"), {Key("users.password")}),
       AddConstraint("users.accounts", {Column("users.account_id"), Table("accounts")}),
       AddConstraint("accounts.password", {Table("accounts"), Table("users_password")}),
       AddConstraint("accounts_roles.accounts", {Table("accounts_roles"), Table("accounts")}),
       AddConstraint("accounts_roles.roles", {Table("accounts_roles"), Table("roles")}),
       Drop(Key("reset_password.users"), {}),
       [AddConstraint("reset_password.accounts", {Table("reset_password"), Table("accounts")})
          EXCEPT !.blockers = {ResetRow}],
       Drop(Key("users_roles.users"), {}),
       AddConstraint("users_roles.users_again", {Table("users_roles"), Table("users")})>>,
   down |->
     <<Drop(Key("users_roles.users_again"), {}),
       AddConstraint("users_roles.users", {Table("users_roles"), Table("users")}),
       Drop(Key("reset_password.accounts"), {}),
       AddConstraint("reset_password.users", {Table("reset_password"), Table("users")}),
       Drop(Key("accounts_roles.roles"), {}), Drop(Key("accounts_roles.accounts"), {}),
       Drop(Key("accounts.password"), {}), Drop(Key("users.accounts"), {}),
       AddColumn("users.password_id", "users"), AddColumn("users.email", "users"),
       AddColumn("users.name", "users"),
       Drop(Column("users.phone"), {}), Drop(Column("users.avatar"), {}), Drop(Column("users.gender"), {}),
       Drop(Column("users.date_of_birth"), {}), Drop(Column("users.full_name"), {}), Drop(Column("users.account_id"), {}),
       Drop(Index("accounts_roles.roles"), {}), Drop(Index("accounts_roles.accounts"), {}),
       Drop(Table("accounts_roles"), {<<"account_role", "BACKOFFICE">>, <<"account_role", "USER">>}),
       Drop(Table("accounts"), {<<"admin", "account">>})>>]

(* The account is looked up first; password and user are inserted anew.    *)
(* down begins with the password, which the account refers to.             *)
AdminRows ==
  <<InsertAnother(<<"admin", "password">>, {Table("users_password")}),
    InsertAnother(<<"admin", "account">>, {Table("accounts"), <<"admin", "password">>}),
    InsertAnother(<<"admin", "user">>, {Column("users.account_id"), <<"admin", "account">>}),
    Insert(<<"account_role", "BACKOFFICE">>, {Table("accounts_roles"), <<"role", "BACKOFFICE">>}),
    Insert(<<"account_role", "USER">>, {Table("accounts_roles"), <<"role", "USER">>})>>
UserGrants == All("USER_grant", UserPermission, {Table("permissions_roles"), <<"role", "USER">>})
BackofficeGrants ==
  All("BACKOFFICE_grant", UserPermission \o BackofficePermission,
      {Table("permissions_roles"), <<"role", "BACKOFFICE">>})
InsertUser ==
  [up |-> AdminRows \o UserGrants \o BackofficeGrants,
   down |-> <<[Statement({}, {}, {<<"admin", "password">>}) EXCEPT !.blockers = {<<"admin", "account">>}],
              Statement({}, {}, {<<"admin", "account">>, <<"admin", "user">>,
                                 <<"account_role", "BACKOFFICE">>, <<"account_role", "USER">>}),
              Statement({Table("permissions_roles")}, {},
                ({"USER_grant"} \X Range(UserPermission))
                  \cup ({"BACKOFFICE_grant"} \X Range(UserPermission \o BackofficePermission)))>>]

AddUnaccentExtension ==
  [up |-> <<CreateTable("unaccent", {})>>, down |-> <<DropTable("unaccent", {}, {})>>]

Migration ==
  <<CreatePermissionTable, CreateRoleTable, CreateUserPasswordTable, CreateUserTable,
    CreateResetPassword, CreatePermissionRoleTable, CreateUserRoleTable, CreateTableRelationship,
    InsertPermissions, InsertRoles, RefactorUserToAccount, InsertUser, AddUnaccentExtension>>

Made(m) == UNION {s.makes : s \in Range(Migration[m].up)}

----------------------------------------------------------------------------
(* A process: what it does, the migrations it found to do, its place in the*)
(* first of them, whether one of the statements failed, and how it ended.  *)
(* clean: history, it began on whole migrations, without resets stored, and*)
(* nobody came between.                                                    *)
Idle == [does |-> "none", todo |-> {}, at |-> 1, failed |-> FALSE, clean |-> FALSE, end |-> "none"]

Running(r) == runner[r].does # "none"
Least(set) == CHOOSE i \in set : \A j \in set : i <= j
Greatest(set) == CHOOSE i \in set : \A j \in set : j <= i
Statements(r) ==
  IF runner[r].does = "up" THEN Migration[Least(runner[r].todo)].up
  ELSE Migration[Least(runner[r].todo)].down

(* An unrecorded migration has a statement done that cannot be repeated.   *)
Torn == \E m \in DOMAIN Migration \ recorded :
          \E s \in Range(Migration[m].up) : ~s.tolerant /\ s.makes \cap db # {}

Begin(r, does, todo) ==
  /\ ~Running(r) /\ runs < MaxRuns /\ runs' = runs + 1
  /\ runner' = [q \in Runner |->
       IF q = r THEN [Idle EXCEPT !.does = does, !.todo = todo,
                        !.clean = does = "up" /\ ~Torn /\ undone = {} /\ ResetRow \notin db
                                    /\ \A p \in Runner : ~Running(p)]
       ELSE [runner[q] EXCEPT !.clean = FALSE]]
  /\ UNCHANGED <<db, recorded>>

(* What is pending is found out once, at the beginning.  The runs of two   *)
(* starts may overlap; whoever undoes does it when nothing else runs.      *)
Run(r) ==
  /\ \A q \in Runner : runner[q].does # "down"
  /\ Begin(r, "up", DOMAIN Migration \ recorded)
  /\ UNCHANGED undone

Undo(r) ==
  /\ recorded # {} /\ \A q \in Runner : ~Running(q)
  /\ Begin(r, "down", {Greatest(recorded)})
  /\ undone' = undone \cup {Greatest(recorded)}

(* A statement; when it fails, the process ends, after those of the same   *)
(* Promise.all.                                                            *)
Execute(r) ==
  /\ Running(r) /\ runner[r].todo # {} /\ runner[r].at <= Len(Statements(r))
  /\ LET s == Statements(r)[runner[r].at]
         failed == runner[r].failed \/ Fails(s)
         goesOn == runner[r].at < Len(Statements(r)) /\ s.together
                     /\ Statements(r)[runner[r].at + 1].together
     IN  /\ db' = IF Fails(s) THEN db ELSE Effect(s)
         /\ runner' = [runner EXCEPT ![r] =
              IF failed /\ ~goesOn THEN [@ EXCEPT !.does = "none", !.end = "failed"]
              ELSE [@ EXCEPT !.at = runner[r].at + 1, !.failed = failed]]
  /\ UNCHANGED <<recorded, runs, undone>>

(* Fault: a migration is recorded before its last statement.               *)
RecordEarly(r) ==
  /\ Running(r) /\ runner[r].todo # {} /\ runner[r].at >= Len(Statements(r))
  /\ recorded' = recorded \cup {Least(runner[r].todo)}
  /\ runner' = [runner EXCEPT ![r].todo = @ \ {Least(@)}, ![r].at = 1]
  /\ UNCHANGED <<db, runs, undone>>

(* The record of a migration that was run, or of one that was undone.      *)
Record(r) ==
  /\ Running(r) /\ runner[r].todo # {} /\ runner[r].at > Len(Statements(r))
  /\ recorded' = IF runner[r].does = "up" THEN recorded \cup {Least(runner[r].todo)}
                 ELSE recorded \ runner[r].todo
  /\ runner' = [runner EXCEPT ![r].todo = @ \ {Least(@)}, ![r].at = 1]
  /\ UNCHANGED <<db, runs, undone>>

Finish(r) ==
  /\ Running(r) /\ runner[r].todo = {}
  /\ runner' = [runner EXCEPT ![r].does = "none", ![r].end = "done"]
  /\ UNCHANGED <<db, recorded, runs, undone>>

CutOff(r) ==
  /\ Running(r)
  /\ runner' = [runner EXCEPT ![r] = Idle]
  /\ UNCHANGED <<db, recorded, runs, undone>>

(* A release from before refactorUserToAccount, whose users have an email, *)
(* is in use and saves a reset.                                            *)
Use ==
  /\ {Table("reset_password")} \cup UserColumns \subseteq db
  /\ {Key("reset_password.accounts"), ResetRow} \cap db = {}
  /\ db' = db \cup {ResetRow}
  /\ runner' = [r \in Runner |-> [runner[r] EXCEPT !.clean = FALSE]]
  /\ UNCHANGED <<recorded, runs, undone>>

Init ==
  /\ db = {} /\ recorded = {} /\ runs = 0 /\ undone = {}
  /\ runner = [r \in Runner |-> Idle]

Next ==
  \/ Use
  \/ \E r \in Runner :
       Run(r) \/ Undo(r) \/ Execute(r) \/ Record(r) \/ Finish(r) \/ CutOff(r)

Spec == Init /\ [][Next]_vars

----------------------------------------------------------------------------
(* Properties.                                                             *)

(* What refactorUserToAccount takes away for good.                         *)
Dropped == UNION {s.drops : s \in Range(RefactorUserToAccount.up)}

(* RecordedIsApplied: whatever was cut off or overlapped, a migration that *)
(* is recorded has made all it makes, but for what refactorUserToAccount   *)
(* drops; only an undo of createUserTable takes away what another one made.*)
RecordedIsApplied ==
  \A m \in recorded \ undone :
    \A x \in Made(m) \ Dropped :
      x \in db \/ (x = Table("users_password") /\ 4 \in undone)

(* CleanRunsDoNotFail: a run fails only when it began on a migration that  *)
(* an earlier one had left half done, after an undo, overlapped another, or*)
(* found resets of a database in use (refactorUserToAccount.ts:72).        *)
CleanRunsDoNotFail ==
  \A r \in Runner : runner[r].end = "failed" => ~runner[r].clean

(* IInv: the inductive invariant behind both.  Standing: what was made is  *)
(* there, but for what is dropped once refactorUserToAccount has made its  *)
(* first index, or after an undo.  So is what an up has done so far        *)
(* (DoneSoFar), unless a statement of the same Promise.all failed.         *)
TypeOK ==
  /\ recorded \subseteq DOMAIN Migration /\ undone \subseteq DOMAIN Migration /\ runs \in Nat
  /\ runner \in [Runner -> [does : {"none", "up", "down"}, todo : SUBSET DOMAIN Migration,
                            at : Nat \ {0}, failed : BOOLEAN, clean : BOOLEAN,
                            end : {"none", "failed", "done"}]]

Refactoring == Index("accounts_roles.accounts") \in db
Standing(x) ==
  \/ x \in db
  \/ x = Table("users_password") /\ 4 \in undone
  \/ x \in Dropped /\ (undone # {} \/ Refactoring)
InOrder == \A m \in recorded : \A j \in DOMAIN Migration : j < m => j \in recorded
RecordedStands == \A m \in recorded \ undone : \A x \in Made(m) : Standing(x)
UsersWhole ==
  /\ UserColumns \cap db # {} => Table("users") \in db
  /\ Table("users") \in db => \A c \in UserColumns : Standing(c)

Working(r) == Running(r) /\ runner[r].todo # {}
Alone(r) == \A q \in Runner \ {r} : ~Running(q)
DoneSoFar(r) ==
  \A i \in 1..runner[r].at - 1 : \A x \in Statements(r)[i].makes : Standing(x)
Going(r) ==
  /\ runner[r].at <= Len(Statements(r)) + 1
  /\ runner[r].failed => runner[r].at <= Len(Statements(r)) /\ Statements(r)[runner[r].at].together
  /\ runner[r].does = "up" /\ ~runner[r].failed => DoneSoFar(r)
  /\ runner[r].does = "down" => runner[r].todo = {Greatest(recorded)} /\ recorded # {} /\ runner[r].todo \subseteq undone
Process(r) ==
  /\ Working(r) => Going(r)
  /\ Running(r) /\ runner[r].todo = {} => ~runner[r].failed
  /\ runner[r].does = "down" => Alone(r) /\ undone # {}
  /\ runner[r].does = "up" => DOMAIN Migration \ runner[r].todo \subseteq recorded

(* A clean run finds none of what it is going to make, but for what may be *)
(* there, and what refactorUserToAccount is going to drop.                 *)
Ahead(r, m) ==
  {i \in DOMAIN Migration[m].up : m = Least(runner[r].todo) => i >= runner[r].at}
CleanRun(r) ==
  /\ runner[r].does = "up" /\ ~runner[r].failed /\ undone = {} /\ Alone(r)
  /\ ResetRow \notin db
  /\ runner[r].todo \cap recorded = {}
  /\ \A m \in runner[r].todo : \A i \in Ahead(r, m) :
       ~Migration[m].up[i].tolerant => Migration[m].up[i].makes \cap db = {}
  /\ runner[r].todo # {} /\ Least(runner[r].todo) = 11 =>
       \A i \in Ahead(r, 11) : RefactorUserToAccount.up[i].needs \cap Dropped \subseteq db

IInv ==
  /\ TypeOK
  /\ InOrder /\ RecordedStands /\ UsersWhole
  /\ \A r \in Runner : Process(r)
  /\ \A r \in Runner : Running(r) /\ runner[r].clean => CleanRun(r)
  /\ CleanRunsDoNotFail
=============================================================================
