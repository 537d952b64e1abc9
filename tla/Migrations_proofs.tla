------------------------- MODULE Migrations_proofs -------------------------
(***************************************************************************)
(* Whatever processes run and undo the migrations, overlap and are cut off,*)
(* what is recorded is there, and a run that begins cleanly does not fail: *)
(* for any number of processes and any lists of permissions.               *)
(*                                                                         *)
(* The first half is about the thirteen migrations themselves: which one   *)
(* makes a thing (Home), that no two statements make the same one, what an *)
(* up and a down may drop (Fits, DownFits), and that everything a statement*)
(* needs is made before it and not dropped by then (NeedsMet).  The second *)
(* half shows IInv inductive from these facts alone.  Stays is its core: a *)
(* step of a run takes nothing away that was promised to stand.            *)
(***************************************************************************)
EXTENDS Migrations, SequenceTheorems, TLAPS

-----------------------------------------------------------------------------
(* The statements of the migrations.                                       *)

(* There are thirteen migrations. *)
LEMMA ThirteenMigrations == DOMAIN Migration = 1..13
BY DEF Migration

(* What each of them runs, and what it runs to be undone. *)
Up(m) == Migration[m].up
Down(m) == Migration[m].down
LEMMA UpIs ==
  /\ Up(1) = CreatePermissionTable.up /\ Up(2) = CreateRoleTable.up
  /\ Up(3) = CreateUserPasswordTable.up /\ Up(4) = CreateUserTable.up
  /\ Up(5) = CreateResetPassword.up /\ Up(6) = CreatePermissionRoleTable.up
  /\ Up(7) = CreateUserRoleTable.up /\ Up(8) = CreateTableRelationship.up
  /\ Up(9) = InsertPermissions.up /\ Up(10) = InsertRoles.up
  /\ Up(11) = RefactorUserToAccount.up /\ Up(12) = InsertUser.up
  /\ Up(13) = AddUnaccentExtension.up
BY DEF Up, Migration

LEMMA DownIs ==
  /\ Down(1) = CreatePermissionTable.down
  /\ Down(2) = CreateRoleTable.down
  /\ Down(3) = CreateUserPasswordTable.down
  /\ Down(4) = CreateUserTable.down
  /\ Down(5) = CreateResetPassword.down
  /\ Down(6) = CreatePermissionRoleTable.down
  /\ Down(7) = CreateUserRoleTable.down
  /\ Down(8) = CreateTableRelationship.down
  /\ Down(9) = InsertPermissions.down
  /\ Down(10) = InsertRoles.down
  /\ Down(11) = RefactorUserToAccount.down
  /\ Down(12) = InsertUser.down
  /\ Down(13) = AddUnaccentExtension.down
BY DEF Down, Migration

(* The permissions, as migration 9 inserts them. *)
Names == UserPermission \o BackofficePermission
LEMMA NamesAre == Names \in Seq(Range(Names)) /\ UserPermission \in Seq(Range(UserPermission))
                   /\ Len(Names) \in Nat /\ Len(UserPermission) \in Nat
<1> DEFINE R == Range(UserPermission) \cup Range(BackofficePermission)
<1>1. UserPermission \in Seq(R) /\ BackofficePermission \in Seq(R)
  BY NamesAssumption
<1>2. Names \in Seq(R)
  BY <1>1 DEF Names
<1>3. \A s \in Seq(R) : s \in Seq(Range(s))
  BY DEF Range
<1> QED BY <1>1, <1>2, <1>3

(* s inserts the row x, together with others; such as a grant to a role. *)
Row(s, x, needs) ==
  /\ s.needs = needs /\ s.makes = {x} /\ s.drops = {} /\ s.blockers = {}
  /\ s.tolerant = FALSE /\ s.together = TRUE

UserGrant(s, name) ==
  Row(s, <<"USER_grant", name>>, {Table("permissions_roles"), <<"role", "USER">>})
BackofficeGrant(s, name) ==
  Row(s, <<"BACKOFFICE_grant", name>>, {Table("permissions_roles"), <<"role", "BACKOFFICE">>})

(* s is a sequence of n elements. *)
IsList(s, n) == n \in Nat /\ s \in Seq(Range(s)) /\ Len(s) = n
LEMMA Listed == ASSUME NEW s, NEW n \in Nat, IsList(s, n) PROVE n \in Nat /\ DOMAIN s = 1..n /\ Len(s) = n
BY DEF IsList

(* So is a function on 1..n. *)
LEMMA Listing == ASSUME NEW s, NEW n \in Nat, s = [i \in 1..n |-> s[i]] PROVE IsList(s, n)
<1>1. \A i \in 1..n : s[i] \in Range(s)
  BY DEF Range
<1>2. s \in [1..n -> Range(s)]
  BY <1>1
<1> QED BY <1>2 DEF IsList

(* The concatenation of two sequences, element by element. *)
IsConcat(j, s, t) == j = s \o t
LEMMA Joined ==
  ASSUME NEW s, NEW m \in Nat, NEW t, NEW n \in Nat, NEW j, IsList(s, m), IsList(t, n), IsConcat(j, s, t)
  PROVE  /\ IsList(j, m + n)
         /\ \A i \in 1..m : j[i] = s[i]
         /\ \A i \in 1..n : j[m + i] = t[i]
<1> DEFINE R == Range(s) \cup Range(t)
<1>1. s \in Seq(R) /\ t \in Seq(R) /\ Len(s) = m /\ Len(t) = n /\ m \in Nat /\ n \in Nat
  BY DEF IsList
<1> HIDE DEF R
<1>2. j \in Seq(R) /\ Len(j) = m + n
      /\ \A i \in 1..m + n : j[i] = IF i <= m THEN s[i] ELSE t[i - m]
  BY <1>1, ConcatProperties DEF IsConcat
<1>3. IsList(j, m + n)
  <2>1. DOMAIN j = 1..m + n /\ j = [i \in 1..m+n |-> j[i]] /\ m + n \in Nat
    BY <1>1, <1>2
  <2> QED BY <2>1, Listing
<1>4. \A i \in 1..m : j[i] = s[i]
  BY <1>1, <1>2
<1>5. \A i \in 1..n : m + i \in 1..m + n /\ ~(m + i <= m) /\ m + i - m = i
  BY <1>1
<1>6. \A i \in 1..n : j[m + i] = t[i]
  BY <1>1, <1>2, <1>5
<1> QED BY <1>3, <1>4, <1>6

(* All inserts one row for each name. *)
LEMMA AllIs ==
  ASSUME NEW kind, NEW names, NEW n \in Nat, IsList(names, n), NEW needs
  PROVE  /\ IsList(All(kind, names, needs), n)
         /\ \A i \in 1..n : Row(All(kind, names, needs)[i], <<kind, names[i]>>, needs)
<1> DEFINE u == All(kind, names, needs)
<1>1. DOMAIN names = 1..n /\ n \in Nat
  BY Listed
<1>2. u = [i \in 1..n |-> [Insert(<<kind, names[i]>>, needs) EXCEPT !.together = TRUE]]
  BY <1>1 DEF All
<1>3. \A i \in 1..n : u[i] = [Insert(<<kind, names[i]>>, needs) EXCEPT !.together = TRUE]
  BY <1>2
<1>4. \A x : Row([Insert(x, needs) EXCEPT !.together = TRUE], x, needs)
  BY DEF Row, Insert, Statement
<1>5. IsList(u, n)
  <2>1. DOMAIN u = 1..n /\ u = [i \in 1..n |-> u[i]]
    BY <1>2
  <2> HIDE DEF u
  <2>2. \A i \in 1..n : u[i] \in Range(u)
    BY <2>1 DEF Range
  <2>3. u \in [1..n -> Range(u)]
    BY <2>1, <2>2
  <2> QED BY <1>1, <2>3 DEF IsList
<1>6. \A i \in 1..n : Row(u[i], <<kind, names[i]>>, needs)
  BY <1>3, <1>4
<1> QED BY <1>5, <1>6

(* The two lists of names are sequences. *)
LEMMA NamesListed == IsList(UserPermission, Len(UserPermission)) /\ IsList(Names, Len(Names))
BY NamesAre DEF IsList

(* insertUser: five rows of the administrator, the grants of each role. *)
LEMMA InsertUserRows ==
  LET a == Len(UserPermission)  b == Len(Names)  u == InsertUser.up IN
  /\ IsList(u, 5 + a + b)
  /\ \A i \in 1..5 : u[i] = AdminRows[i]
  /\ \A i \in 1..a : UserGrant(u[5+i], UserPermission[i])
  /\ \A i \in 1..b : BackofficeGrant(u[5+a+i], Names[i])
<1> DEFINE a == Len(UserPermission)  b == Len(Names)  f == AdminRows \o UserGrants  u == InsertUser.up
<1>1. IsList(AdminRows, 5)
  <2>1. AdminRows = [i \in 1..5 |-> AdminRows[i]]
    BY DEF AdminRows
  <2> QED BY <2>1, Listing
<1>2. IsList(UserGrants, a) /\ \A i \in 1..a : UserGrant(UserGrants[i], UserPermission[i])
  BY AllIs, NamesListed, NamesAre DEF UserGrants, UserGrant
<1>3. IsList(BackofficeGrants, b) /\ \A i \in 1..b : BackofficeGrant(BackofficeGrants[i], Names[i])
  BY AllIs, NamesListed, NamesAre DEF BackofficeGrants, BackofficeGrant, Names
<1>4. IsConcat(u, f, BackofficeGrants)
  BY DEF InsertUser, IsConcat
<1>f. IsConcat(f, AdminRows, UserGrants)
  BY DEF IsConcat
<1> HIDE DEF u, a, b, f
<1>7. a \in Nat /\ b \in Nat /\ 5 + a \in Nat /\ 5 + a + b \in Nat
  BY NamesAre DEF a, b
<1>5. IsList(f, 5 + a) /\ (\A i \in 1..5 : f[i] = AdminRows[i]) /\ (\A i \in 1..a : f[5+i] = UserGrants[i])
  <2>1. IsList(UserGrants, a)
    BY <1>2
  <2>2. IsList(f, 5 + a)
    BY <1>f, <1>7, <1>1, <2>1, Joined
  <2>3. \A i \in 1..5 : f[i] = AdminRows[i]
    BY <1>f, <1>7, <1>1, <2>1, Joined
  <2>4. \A i \in 1..a : f[5+i] = UserGrants[i]
    BY <1>f, <1>7, <1>1, <2>1, Joined
  <2> QED BY <2>2, <2>3, <2>4
<1>6. IsList(u, 5 + a + b) /\ (\A i \in 1..5 + a : u[i] = f[i]) /\ (\A i \in 1..b : u[5+a+i] = BackofficeGrants[i])
  <2>1. IsList(BackofficeGrants, b) /\ IsList(f, 5 + a)
    BY <1>3, <1>5
  <2>2. IsList(u, (5 + a) + b)
    BY <1>4, <1>7, <2>1, Joined
  <2>3. \A i \in 1..5 + a : u[i] = f[i]
    BY <1>4, <1>7, <2>1, Joined
  <2>4. \A i \in 1..b : u[(5 + a) + i] = BackofficeGrants[i]
    BY <1>4, <1>7, <2>1, Joined
  <2> QED BY <2>2, <2>3, <2>4
<1>8. (\A i \in 1..5 : i \in 1..5+a) /\ (\A i \in 1..a : 5+i \in 1..5+a)
  BY <1>7
<1>9. /\ \A i \in 1..5 : u[i] = AdminRows[i]
      /\ \A i \in 1..a : UserGrant(u[5+i], UserPermission[i])
  BY <1>2, <1>5, <1>6, <1>8
<1>10. \A i \in 1..b : BackofficeGrant(u[5+a+i], Names[i])
  BY <1>3, <1>6
<1> QED BY <1>6, <1>9, <1>10 DEF u, a, b

(* insertPermissions: one row for each name. *)
LEMMA PermissionRows ==
  /\ IsList(Up(9), Len(Names))
  /\ \A i \in 1..Len(Names) : Row(Up(9)[i], <<"permission", Names[i]>>, {Table("permissions")})
BY AllIs, NamesListed, NamesAre, UpIs DEF InsertPermissions, Names

(* Every migration is a sequence of statements; none is undone by nothing. *)
Sized(u) == Len(u) \in Nat /\ DOMAIN u = 1..Len(u)
LEMMA UpSizes == \A m \in 1..13 : Sized(Up(m))
<1>1. Sized(CreatePermissionTable.up)
  BY DEF Sized, CreatePermissionTable
<1>2. Sized(CreateRoleTable.up)
  BY DEF Sized, CreateRoleTable
<1>3. Sized(CreateUserPasswordTable.up)
  BY DEF Sized, CreateUserPasswordTable
<1>4. Sized(CreateUserTable.up)
  BY DEF Sized, CreateUserTable
<1>5. Sized(CreateResetPassword.up)
  BY DEF Sized, CreateResetPassword
<1>6. Sized(CreatePermissionRoleTable.up)
  BY DEF Sized, CreatePermissionRoleTable
<1>7. Sized(CreateUserRoleTable.up)
  BY DEF Sized, CreateUserRoleTable
<1>8. Sized(CreateTableRelationship.up)
  BY DEF Sized, CreateTableRelationship
<1>10. Sized(InsertRoles.up)
  BY DEF Sized, InsertRoles
<1>11. Sized(RefactorUserToAccount.up)
  BY DEF Sized, RefactorUserToAccount
<1>13. Sized(AddUnaccentExtension.up)
  BY DEF Sized, AddUnaccentExtension
<1>9. Sized(Up(9))
  BY PermissionRows, NamesAre, Listed DEF Sized
<1>12. Sized(Up(12))
  BY InsertUserRows, NamesAre, Listed, UpIs DEF Sized
<1> QED BY <1>1, <1>2, <1>3, <1>4, <1>5, <1>6, <1>7, <1>8, <1>9, <1>10, <1>11, <1>12, <1>13, UpIs
Undoes(u) == Sized(u) /\ Len(u) > 0
LEMMA DownSizes == \A m \in 1..13 : Undoes(Down(m))
<1>1. Undoes(CreatePermissionTable.down)
  BY DEF Undoes, Sized, CreatePermissionTable
<1>2. Undoes(CreateRoleTable.down)
  BY DEF Undoes, Sized, CreateRoleTable
<1>3. Undoes(CreateUserPasswordTable.down)
  BY DEF Undoes, Sized, CreateUserPasswordTable
<1>4. Undoes(CreateUserTable.down)
  BY DEF Undoes, Sized, CreateUserTable
<1>5. Undoes(CreateResetPassword.down)
  BY DEF Undoes, Sized, CreateResetPassword
<1>6. Undoes(CreatePermissionRoleTable.down)
  BY DEF Undoes, Sized, CreatePermissionRoleTable
<1>7. Undoes(CreateUserRoleTable.down)
  BY DEF Undoes, Sized, CreateUserRoleTable
<1>8. Undoes(CreateTableRelationship.down)
  BY DEF Undoes, Sized, CreateTableRelationship
<1>9. Undoes(InsertPermissions.down)
  BY DEF Undoes, Sized, InsertPermissions
<1>10. Undoes(InsertRoles.down)
  BY DEF Undoes, Sized, InsertRoles
<1>11. Undoes(RefactorUserToAccount.down)
  BY DEF Undoes, Sized, RefactorUserToAccount
<1>12. Undoes(InsertUser.down)
  BY DEF Undoes, Sized, InsertUser
<1>13. Undoes(AddUnaccentExtension.down)
  BY DEF Undoes, Sized, AddUnaccentExtension
<1> QED BY <1>1, <1>2, <1>3, <1>4, <1>5, <1>6, <1>7, <1>8, <1>9, <1>10, <1>11, <1>12, <1>13, DownIs

(* Where a statement of insertUser stands. *)
LEMMA Places == \A i \in DOMAIN Up(12) :
  \/ i \in 1..5
  \/ \E k \in 1..Len(UserPermission) : i = 5 + k
  \/ \E k \in 1..Len(Names) : i = 5 + Len(UserPermission) + k
<1> DEFINE a == Len(UserPermission)  b == Len(Names)
<1>1. a \in Nat /\ b \in Nat
  BY NamesAre
<1>0. IsList(Up(12), 5 + a + b)
  BY InsertUserRows, UpIs
<1>2. DOMAIN Up(12) = 1..5 + a + b
  BY <1>0, <1>1, Listed
<1> HIDE DEF a, b
<1>3. \A i \in 1..5 + a + b :
        i \in 1..5 \/ (i - 5 \in 1..a /\ i = 5 + (i - 5)) \/ (i - 5 - a \in 1..b /\ i = 5 + a + (i - 5 - a))
  BY <1>1
<1>4. \A i \in 1..5 + a + b : i \in 1..5 \/ (\E k \in 1..a : i = 5 + k) \/ \E k \in 1..b : i = 5 + a + k
  BY <1>3
<1> QED BY <1>2, <1>4 DEF a, b

(* No name is there twice. *)
LEMMA NamesDiffer ==
  /\ \A i, j \in 1..Len(Names) : Names[i] = Names[j] => i = j
  /\ \A i, j \in 1..Len(UserPermission) : UserPermission[i] = UserPermission[j] => i = j
<1> DEFINE R == Range(UserPermission) \cup Range(BackofficePermission)
<1>1. UserPermission \in Seq(R) /\ BackofficePermission \in Seq(R)
  BY NamesAssumption
<1> HIDE DEF R
<1>2. DOMAIN Names = 1..Len(Names) /\ Len(Names) = Len(UserPermission) + Len(BackofficePermission)
      /\ Len(UserPermission) \in Nat /\ Len(BackofficePermission) \in Nat
      /\ \A i \in 1..Len(UserPermission) : Names[i] = UserPermission[i]
  BY <1>1, ConcatProperties, NamesAre DEF Names
<1>3. \A i, j \in DOMAIN Names : Names[i] = Names[j] => i = j
  BY NamesAssumption DEF Names
<1>4. \A i \in 1..Len(UserPermission) : i \in 1..Len(Names)
  BY <1>2
<1> QED BY <1>2, <1>3, <1>4

-----------------------------------------------------------------------------
(* What they make and drop.                                                *)

(* The migration that makes x. *)
Home(x) ==
  CASE x[1] = "permission" -> 9
    [] x[1] = "role" -> 10
    [] x[1] \in {"admin", "account_role", "USER_grant", "BACKOFFICE_grant"} -> 12
    [] x = Table("permissions") -> 1
    [] x = Table("roles") -> 2
    [] x = Table("users_password") -> 3
    [] x \in {Table("users")} \cup UserColumns -> 4
    [] x = Table("reset_password") -> 5
    [] x \in {Table("permissions_roles"), Index("permissions_roles.roles"), Index("permissions_roles.permissions")} -> 6
    [] x \in {Table("users_roles"), Index("users_roles.users"), Index("users_roles.roles")} -> 7
    [] x \in {Key("users.password"), Key("reset_password.users"), Key("users_roles.users"), Key("users_roles.roles"),
              Key("permissions_roles.roles"), Key("permissions_roles.permissions")} -> 8
    [] x = Table("unaccent") -> 13
    [] OTHER -> 11

(* What createUserTable makes, and how a statement of m, the i-th, fits with the
   others: only refactorUserToAccount drops, and only when it has made its first
   index; nobody drops users; IF NOT EXISTS is said of one thing or of users with
   its columns; only resets hinder one, and none makes a reset. *)
UsersTable == {Table("users")} \cup UserColumns
Fits(s, m, i) ==
  /\ s.blockers \subseteq {ResetRow} /\ ResetRow \notin s.makes
  /\ s.drops # {} => m = 11 /\ i > 3 /\ ~s.tolerant /\ ~s.together
  /\ Table("users") \notin s.drops
  /\ s.tolerant => s.makes = UsersTable \/ \A x, y \in s.makes : x = y
  /\ UsersTable \cap s.makes # {} => s.makes = UsersTable
  /\ Index("accounts_roles.accounts") \in s.makes <=> m = 11 /\ i = 3
  /\ m = 11 /\ i = 3 => ~s.tolerant
  /\ \A x \in s.makes : Home(x) = m

(* An inserted permission or grant fits. *)
LEMMA RowFits ==
  ASSUME NEW s, NEW kind, NEW n, NEW needs, NEW m, NEW i, Row(s, <<kind, n>>, needs),
         \/ kind = "permission" /\ m = 9
         \/ kind \in {"USER_grant", "BACKOFFICE_grant"} /\ m = 12
  PROVE  Fits(s, m, i)
BY DEF Row, Fits, Home, ResetRow, CreateTable, CreateIndex, AddColumn, AddConstraint, Drop, DropTable,
     Insert, InsertAnother, Throws, Statement, Table, Column, Index, Key, UserColumns, UsersTable

LEMMA PermissionsFit == \A i \in DOMAIN Up(9) : Fits(Up(9)[i], 9, i)
<1>1. DOMAIN Up(9) = 1..Len(Names)
  BY PermissionRows, Listed, NamesAre
<1>2. \A i \in 1..Len(Names) : Row(Up(9)[i], <<"permission", Names[i]>>, {Table("permissions")})
  BY PermissionRows
<1>3. \A i \in 1..Len(Names) : Fits(Up(9)[i], 9, i)
  BY <1>2, RowFits
<1> QED BY <1>1, <1>3

LEMMA InsertUserFits == \A i \in DOMAIN Up(12) : Fits(Up(12)[i], 12, i)
<1> DEFINE a == Len(UserPermission)  b == Len(Names)
<1>1. \A i \in 1..5 : Fits(Up(12)[i], 12, i)
  <2>0. \A i \in 1..5 : Up(12)[i] = AdminRows[i]
    BY InsertUserRows, UpIs
  <2>1. Fits(AdminRows[1], 12, 1)
    BY DEF AdminRows, Fits, Home, ResetRow, Insert, InsertAnother, Statement, Table, Column,
         Index, Key, UserColumns, UsersTable
  <2>2. Fits(AdminRows[2], 12, 2)
    BY DEF AdminRows, Fits, Home, ResetRow, Insert, InsertAnother, Statement, Table, Column,
         Index, Key, UserColumns, UsersTable
  <2>3. Fits(AdminRows[3], 12, 3)
    BY DEF AdminRows, Fits, Home, ResetRow, Insert, InsertAnother, Statement, Table, Column,
         Index, Key, UserColumns, UsersTable
  <2>4. Fits(AdminRows[4], 12, 4)
    BY DEF AdminRows, Fits, Home, ResetRow, Insert, InsertAnother, Statement, Table, Column,
         Index, Key, UserColumns, UsersTable
  <2>5. Fits(AdminRows[5], 12, 5)
    BY DEF AdminRows, Fits, Home, ResetRow, Insert, InsertAnother, Statement, Table, Column,
         Index, Key, UserColumns, UsersTable
  <2>6. \A i \in 1..5 : Fits(AdminRows[i], 12, i)
    BY <2>1, <2>2, <2>3, <2>4, <2>5
  <2> QED BY <2>0, <2>6
<1>2. \A i \in 1..a : UserGrant(Up(12)[5+i], UserPermission[i])
  BY InsertUserRows, UpIs
<1>3. \A i \in 1..b : BackofficeGrant(Up(12)[5+a+i], Names[i])
  BY InsertUserRows, UpIs
<1>4. \A i \in 1..a : Fits(Up(12)[5+i], 12, 5+i)
  BY <1>2, RowFits DEF UserGrant
<1>5. \A i \in 1..b : Fits(Up(12)[5+a+i], 12, 5+a+i)
  BY <1>3, RowFits DEF BackofficeGrant
<1> QED BY <1>1, <1>4, <1>5, Places

(* All statements fit. *)
LEMMA UpFits == \A m \in 1..13 : \A i \in DOMAIN Up(m) : Fits(Up(m)[i], m, i)
<1> USE DEF Fits, Home, ResetRow, CreateTable, CreateIndex, AddColumn, AddConstraint, Drop, DropTable,
     Insert, InsertAnother, Throws, Statement, Table, Column, Index, Key, UserColumns, UsersTable
<1>1. \A i \in DOMAIN Up(1) : Fits(Up(1)[i], 1, i)
  BY UpIs DEF CreatePermissionTable
<1>2. \A i \in DOMAIN Up(2) : Fits(Up(2)[i], 2, i)
  BY UpIs DEF CreateRoleTable
<1>3. \A i \in DOMAIN Up(3) : Fits(Up(3)[i], 3, i)
  BY UpIs DEF CreateUserPasswordTable
<1>4. \A i \in DOMAIN Up(4) : Fits(Up(4)[i], 4, i)
  BY UpIs DEF CreateUserTable
<1>5. \A i \in DOMAIN Up(5) : Fits(Up(5)[i], 5, i)
  BY UpIs DEF CreateResetPassword
<1>6. \A i \in DOMAIN Up(6) : Fits(Up(6)[i], 6, i)
  BY UpIs DEF CreatePermissionRoleTable
<1>7. \A i \in DOMAIN Up(7) : Fits(Up(7)[i], 7, i)
  BY UpIs DEF CreateUserRoleTable
<1>8. \A i \in DOMAIN Up(8) : Fits(Up(8)[i], 8, i)
  BY UpIs DEF CreateTableRelationship
<1>10. \A i \in DOMAIN Up(10) : Fits(Up(10)[i], 10, i)
  BY UpIs DEF InsertRoles
<1>11. \A i \in DOMAIN Up(11) : Fits(Up(11)[i], 11, i)
  BY SMTT(30), UpIs DEF RefactorUserToAccount
<1>13. \A i \in DOMAIN Up(13) : Fits(Up(13)[i], 13, i)
  BY UpIs DEF AddUnaccentExtension
<1> DEFINE AllFit(m) == \A i \in DOMAIN Up(m) : Fits(Up(m)[i], m, i)
<1>14. AllFit(9) /\ AllFit(12)
  BY PermissionsFit, InsertUserFits
<1>15. AllFit(1) /\ AllFit(2) /\ AllFit(3) /\ AllFit(4) /\ AllFit(5) /\ AllFit(6) /\ AllFit(7)
  BY <1>1, <1>2, <1>3, <1>4, <1>5, <1>6, <1>7
<1>16. AllFit(8) /\ AllFit(10) /\ AllFit(11) /\ AllFit(13)
  BY <1>8, <1>10, <1>11, <1>13
<1> HIDE DEF AllFit, Fits
<1>17. \A m \in 1..13 : AllFit(m)
  BY <1>14, <1>15, <1>16
<1> QED BY <1>17 DEF AllFit

(* No two statements of a migration make the same thing. *)
LEMMA Distinct ==
  \A m \in 1..13 : \A i, j \in DOMAIN Up(m) : i # j => Up(m)[i].makes \cap Up(m)[j].makes = {}
<1> USE DEF CreateTable, CreateIndex, AddColumn, AddConstraint, Drop, DropTable, Insert,
     InsertAnother, Throws, Statement, Table, Column, Index, Key, UserColumns, UsersTable
<1>1. \A i, j \in DOMAIN Up(1) : i # j => Up(1)[i].makes \cap Up(1)[j].makes = {}
  BY UpIs DEF CreatePermissionTable
<1>2. \A i, j \in DOMAIN Up(2) : i # j => Up(2)[i].makes \cap Up(2)[j].makes = {}
  BY UpIs DEF CreateRoleTable
<1>3. \A i, j \in DOMAIN Up(3) : i # j => Up(3)[i].makes \cap Up(3)[j].makes = {}
  BY UpIs DEF CreateUserPasswordTable
<1>4. \A i, j \in DOMAIN Up(4) : i # j => Up(4)[i].makes \cap Up(4)[j].makes = {}
  BY UpIs DEF CreateUserTable
<1>5. \A i, j \in DOMAIN Up(5) : i # j => Up(5)[i].makes \cap Up(5)[j].makes = {}
  BY UpIs DEF CreateResetPassword
<1>6. \A i, j \in DOMAIN Up(6) : i # j => Up(6)[i].makes \cap Up(6)[j].makes = {}
  BY UpIs DEF CreatePermissionRoleTable
<1>7. \A i, j \in DOMAIN Up(7) : i # j => Up(7)[i].makes \cap Up(7)[j].makes = {}
  BY UpIs DEF CreateUserRoleTable
<1>8. \A i, j \in DOMAIN Up(8) : i # j => Up(8)[i].makes \cap Up(8)[j].makes = {}
  BY UpIs DEF CreateTableRelationship
<1>10. \A i, j \in DOMAIN Up(10) : i # j => Up(10)[i].makes \cap Up(10)[j].makes = {}
  BY UpIs DEF InsertRoles
<1>11. \A i, j \in DOMAIN Up(11) : i # j => Up(11)[i].makes \cap Up(11)[j].makes = {}
  BY UpIs DEF RefactorUserToAccount
<1>13. \A i, j \in DOMAIN Up(13) : i # j => Up(13)[i].makes \cap Up(13)[j].makes = {}
  BY UpIs DEF AddUnaccentExtension
<1>9. \A i, j \in DOMAIN Up(9) : i # j => Up(9)[i].makes \cap Up(9)[j].makes = {}
  <2>1. DOMAIN Up(9) = 1..Len(Names)
    BY PermissionRows, Listed, NamesAre
  <2>2. \A i \in 1..Len(Names) : Up(9)[i].makes = {<<"permission", Names[i]>>}
    BY PermissionRows DEF Row
  <2> QED BY <2>1, <2>2, NamesDiffer
<1>12. \A i, j \in DOMAIN Up(12) : i # j => Up(12)[i].makes \cap Up(12)[j].makes = {}
  <2> DEFINE a == Len(UserPermission)  b == Len(Names)  u == Up(12)
  <2>1. \A i, j \in 1..5 : i # j => u[i].makes \cap u[j].makes = {}
    BY InsertUserRows, UpIs DEF AdminRows
  <2>2. \A i \in 1..5 : \A x \in u[i].makes : x[1] \in {"admin", "account_role"}
    BY InsertUserRows, UpIs DEF AdminRows
  <2>3. \A i \in 1..a : u[5+i].makes = {<<"USER_grant", UserPermission[i]>>}
    BY InsertUserRows, UpIs DEF Row, UserGrant, BackofficeGrant
  <2>4. \A i \in 1..b : u[5+a+i].makes = {<<"BACKOFFICE_grant", Names[i]>>}
    BY InsertUserRows, UpIs DEF Row, UserGrant, BackofficeGrant
  <2> HIDE DEF a, b, u
  <2>5. ASSUME NEW i \in DOMAIN u, NEW x \in u[i].makes
        PROVE  \/ i \in 1..5 /\ x[1] \in {"admin", "account_role"}
               \/ \E k \in 1..a : i = 5 + k /\ x = <<"USER_grant", UserPermission[k]>>
               \/ \E k \in 1..b : i = 5 + a + k /\ x = <<"BACKOFFICE_grant", Names[k]>>
    <3>1. CASE i \in 1..5
      BY <3>1, <2>2
    <3>2. ASSUME NEW k \in 1..a, i = 5 + k PROVE x = <<"USER_grant", UserPermission[k]>>
      BY <3>2, <2>3
    <3>3. ASSUME NEW k \in 1..b, i = 5 + a + k PROVE x = <<"BACKOFFICE_grant", Names[k]>>
      BY <3>3, <2>4
    <3>4. i \in 1..5 \/ (\E k \in 1..a : i = 5 + k) \/ \E k \in 1..b : i = 5 + a + k
      BY Places DEF u, a, b
    <3> QED BY <3>1, <3>2, <3>3, <3>4
  <2> SUFFICES ASSUME NEW i \in DOMAIN u, NEW j \in DOMAIN u, NEW x \in u[i].makes, x \in u[j].makes
               PROVE  i = j
    BY DEF u
  <2>6. CASE i \in 1..5 /\ x[1] \in {"admin", "account_role"}
    BY <2>6, <2>5, <2>1
  <2>7. CASE \E k \in 1..a : i = 5 + k /\ x = <<"USER_grant", UserPermission[k]>>
    BY <2>7, <2>5, NamesDiffer DEF a, b
  <2>8. CASE \E k \in 1..b : i = 5 + a + k /\ x = <<"BACKOFFICE_grant", Names[k]>>
    BY <2>8, <2>5, NamesDiffer DEF a, b
  <2> QED BY <2>5, <2>6, <2>7, <2>8
<1> QED BY <1>1, <1>2, <1>3, <1>4, <1>5, <1>6, <1>7, <1>8, <1>9, <1>10, <1>11, <1>12, <1>13

(* What refactorUserToAccount drops, one by one. *)
DroppedThings == UserColumns \cup {Key("users.password"), Key("reset_password.users"), Key("users_roles.users")}
LEMMA DroppedIs ==
  /\ Dropped = DroppedThings
  /\ \A i \in DOMAIN Up(11) : Up(11)[i].drops \subseteq Dropped
<1> USE DEF CreateTable, CreateIndex, AddColumn, AddConstraint, Drop, DropTable, Insert,
     InsertAnother,
            Throws, Statement, Table, Column, Index, Key, UserColumns
<1>1. \A i \in DOMAIN Up(11) : Up(11)[i].drops \subseteq DroppedThings
  BY UpIs DEF RefactorUserToAccount, DroppedThings
<1>2. \A x \in DroppedThings : x \in Up(11)[11].drops \/ x \in Up(11)[12].drops \/ x \in Up(11)[13].drops
                               \/ x \in Up(11)[18].drops \/ x \in Up(11)[20].drops
  BY UpIs DEF RefactorUserToAccount, DroppedThings
<1>3. /\ 11 \in DOMAIN Up(11)
      /\ 12 \in DOMAIN Up(11)
      /\ 13 \in DOMAIN Up(11)
      /\ 18 \in DOMAIN Up(11)
      /\ 20 \in DOMAIN Up(11)
  BY UpIs DEF RefactorUserToAccount
<1>4. \A x : x \in Dropped <=> \E i \in DOMAIN Up(11) : x \in Up(11)[i].drops
  BY UpIs DEF Dropped, Range
<1> QED BY <1>1, <1>2, <1>3, <1>4

(* What a migration makes, some statement of it makes. *)
LEMMA MadeIs == \A m, x : x \in Made(m) <=> \E i \in DOMAIN Up(m) : x \in Up(m)[i].makes
BY DEF Made, Up, Range

(* A statement that undoes g takes away what g or a later migration made, what
   refactorUserToAccount drops anyway, or, undoing createUserTable, the passwords. *)
DownFits(s, g) ==
  /\ \A x \in s.drops : Home(x) >= g \/ x \in DroppedThings \/ (g = 4 /\ x = Table("users_password"))
  /\ Table("users") \notin s.drops /\ Table("users") \notin s.makes
  /\ UserColumns \cap s.makes # {} => Table("users") \in s.needs
LEMMA DownsFit == \A g \in 1..13 : \A i \in DOMAIN Down(g) : DownFits(Down(g)[i], g)
<1> USE DEF DownFits, DroppedThings, Home, ResetRow, CreateTable, CreateIndex, AddColumn, AddConstraint,
     Drop, DropTable, Insert, InsertAnother, Throws, Statement, Table, Column, Index, Key,
     UserColumns
<1>1. \A i \in DOMAIN Down(1) : DownFits(Down(1)[i], 1)
  BY DownIs DEF CreatePermissionTable
<1>2. \A i \in DOMAIN Down(2) : DownFits(Down(2)[i], 2)
  BY DownIs DEF CreateRoleTable
<1>3. \A i \in DOMAIN Down(3) : DownFits(Down(3)[i], 3)
  BY DownIs DEF CreateUserPasswordTable
<1>4. \A i \in DOMAIN Down(4) : DownFits(Down(4)[i], 4)
  BY DownIs DEF CreateUserTable
<1>5. \A i \in DOMAIN Down(5) : DownFits(Down(5)[i], 5)
  BY DownIs DEF CreateResetPassword
<1>6. \A i \in DOMAIN Down(6) : DownFits(Down(6)[i], 6)
  BY DownIs DEF CreatePermissionRoleTable
<1>7. \A i \in DOMAIN Down(7) : DownFits(Down(7)[i], 7)
  BY DownIs DEF CreateUserRoleTable
<1>8. \A i \in DOMAIN Down(8) : DownFits(Down(8)[i], 8)
  BY DownIs DEF CreateTableRelationship
<1>9. \A i \in DOMAIN Down(9) : DownFits(Down(9)[i], 9)
  BY DownIs DEF InsertPermissions
<1>10. \A i \in DOMAIN Down(10) : DownFits(Down(10)[i], 10)
  BY DownIs DEF InsertRoles
<1>11. \A i \in DOMAIN Down(11) : DownFits(Down(11)[i], 11)
  BY SMTT(30), DownIs DEF RefactorUserToAccount
<1>13. \A i \in DOMAIN Down(13) : DownFits(Down(13)[i], 13)
  BY DownIs DEF AddUnaccentExtension
<1>12. \A i \in DOMAIN Down(12) : DownFits(Down(12)[i], 12)
  <2> DEFINE grants == ({"USER_grant"} \X Range(UserPermission))
                         \cup ({"BACKOFFICE_grant"} \X Range(UserPermission \o BackofficePermission))
  <2>1. \A p \in grants : Home(p) = 12 /\ p[1] # "table"
    OBVIOUS
  <2>2. Down(12)[3].drops = grants /\ Down(12)[3].makes = {}
    BY DownIs DEF InsertUser
  <2> HIDE DEF grants
  <2>3. DownFits(Down(12)[3], 12)
    BY <2>1, <2>2 DEF grants
  <2>4. DownFits(Down(12)[1], 12)
    BY DownIs DEF InsertUser
  <2>6. DownFits(Down(12)[2], 12)
    BY DownIs DEF InsertUser
  <2>5. DOMAIN Down(12) = 1..3
    BY DownIs DEF InsertUser
  <2> HIDE DEF DownFits
  <2> QED BY <2>3, <2>4, <2>5, <2>6
<1> DEFINE AllFit(g) == \A i \in DOMAIN Down(g) : DownFits(Down(g)[i], g)
<1>14. AllFit(1) /\ AllFit(2) /\ AllFit(3) /\ AllFit(4) /\ AllFit(5) /\ AllFit(6) /\ AllFit(7)
  BY <1>1, <1>2, <1>3, <1>4, <1>5, <1>6, <1>7
<1>15. AllFit(8) /\ AllFit(9) /\ AllFit(10) /\ AllFit(11) /\ AllFit(12) /\ AllFit(13)
  BY <1>8, <1>9, <1>10, <1>11, <1>12, <1>13
<1> HIDE DEF AllFit, DownFits
<1>16. \A g \in 1..13 : AllFit(g)
  BY <1>14, <1>15
<1> QED BY <1>16 DEF AllFit

(* refactorUserToAccount drops nothing it still needs. *)
LEMMA DropsUnneeded ==
  \A i, j \in DOMAIN Up(11) : i < j => Up(11)[i].drops \cap Up(11)[j].needs = {}
BY UpIs DEF RefactorUserToAccount, CreateTable, CreateIndex, AddColumn, AddConstraint, Drop,
     DropTable, Insert, InsertAnother, Throws, Statement, Table, Column, Index, Key, UserColumns

-----------------------------------------------------------------------------
(* What they need.                                                         *)

(* x is made by an earlier migration, or earlier in this one. *)
MadeBefore(x, m, i) ==
  \/ \E j \in 1..13 : j < m /\ x \in Made(j)
  \/ \E k \in DOMAIN Up(m) : k < i /\ x \in Up(m)[k].makes

(* The statement that makes what others need. *)
Place(x, m, i) == m \in 1..13 /\ i \in DOMAIN Up(m) /\ x \in Up(m)[i].makes
LEMMA MakingPlaces ==
  /\ Place(Table("permissions"), 1, 1)
  /\ Place(Table("roles"), 2, 1)
  /\ Place(Table("users_password"), 3, 1)
  /\ Place(Table("users"), 4, 1)
  /\ Place(Column("users.name"), 4, 1)
  /\ Place(Column("users.email"), 4, 1)
  /\ Place(Column("users.password_id"), 4, 1)
  /\ Place(Table("reset_password"), 5, 1)
  /\ Place(Table("permissions_roles"), 6, 1)
  /\ Place(Table("users_roles"), 7, 1)
  /\ Place(Key("users.password"), 8, 1)
  /\ Place(Key("reset_password.users"), 8, 2)
  /\ Place(Key("users_roles.users"), 8, 5)
  /\ Place(<<"role", "BACKOFFICE">>, 10, 1)
  /\ Place(<<"role", "USER">>, 10, 2)
  /\ Place(Table("accounts"), 11, 1)
  /\ Place(Table("accounts_roles"), 11, 2)
  /\ Place(Column("users.account_id"), 11, 5)
  /\ Place(<<"admin", "password">>, 12, 1)
  /\ Place(<<"admin", "account">>, 12, 2)
<1> USE DEF CreateTable, CreateIndex, AddColumn, AddConstraint, Drop, DropTable, Insert,
     InsertAnother,
            Throws, Statement, Table, Column, Index, Key, UserColumns
<1>1. Place(Table("permissions"), 1, 1)
  BY UpIs DEF Place, CreatePermissionTable
<1>2. Place(Table("roles"), 2, 1)
  BY UpIs DEF Place, CreateRoleTable
<1>3. Place(Table("users_password"), 3, 1)
  BY UpIs DEF Place, CreateUserPasswordTable
<1>4. /\ Place(Table("users"), 4, 1)
      /\ Place(Column("users.name"), 4, 1)
      /\ Place(Column("users.email"), 4, 1)
      /\ Place(Column("users.password_id"), 4, 1)
  BY UpIs DEF Place, CreateUserTable
<1>5. Place(Table("reset_password"), 5, 1)
  BY UpIs DEF Place, CreateResetPassword
<1>6. Place(Table("permissions_roles"), 6, 1)
  BY UpIs DEF Place, CreatePermissionRoleTable
<1>7. Place(Table("users_roles"), 7, 1)
  BY UpIs DEF Place, CreateUserRoleTable
<1>8. /\ Place(Key("users.password"), 8, 1)
      /\ Place(Key("reset_password.users"), 8, 2)
      /\ Place(Key("users_roles.users"), 8, 5)
  BY UpIs DEF Place, CreateTableRelationship
<1>9. Place(<<"role", "BACKOFFICE">>, 10, 1) /\ Place(<<"role", "USER">>, 10, 2)
  BY UpIs DEF Place, InsertRoles
<1>10. /\ Place(Table("accounts"), 11, 1)
       /\ Place(Table("accounts_roles"), 11, 2)
       /\ Place(Column("users.account_id"), 11, 5)
  BY UpIs DEF Place, RefactorUserToAccount
<1>11. Place(<<"admin", "password">>, 12, 1) /\ Place(<<"admin", "account">>, 12, 2)
  <2>1. DOMAIN Up(12) = 1..5 + Len(UserPermission) + Len(Names)
    BY InsertUserRows, UpIs, Listed, NamesAre
  <2>2. 1 \in DOMAIN Up(12) /\ 2 \in DOMAIN Up(12)
    BY <2>1, NamesAre
  <2>3. <<"admin", "password">> \in AdminRows[1].makes /\ <<"admin", "account">> \in AdminRows[2].makes
    BY DEF AdminRows
  <2> QED BY <2>2, <2>3, InsertUserRows, UpIs DEF Place
<1> QED BY <1>1, <1>2, <1>3, <1>4, <1>5, <1>6, <1>7, <1>8, <1>9, <1>10, <1>11

(* What the k-th statement of j makes is made before every later one. *)
Later(x, j, k) ==
  /\ \A m \in 1..13 : \A i \in Nat : j < m => MadeBefore(x, m, i)
  /\ \A i \in Nat : k < i => MadeBefore(x, j, i)
LEMMA Earlier ==
  ASSUME NEW x, NEW j, NEW k, Place(x, j, k) PROVE Later(x, j, k)
BY MadeIs DEF Place, MadeBefore, Later

(* What a statement needs is made before it, and is not dropped by then: only
   refactorUserToAccount itself needs what it drops, and createTableRelationship. *)
Met(s, m, i) ==
  \A x \in s.needs :
    /\ MadeBefore(x, m, i)
    /\ (x \in DroppedThings => m = 11 \/ (m = 8 /\ x = Column("users.password_id")))
LEMMA NeedsMet == \A m \in 1..13 : \A i \in DOMAIN Up(m) : Met(Up(m)[i], m, i)
<1> USE DEF CreateTable, CreateIndex, AddColumn, AddConstraint, Drop, DropTable, Insert,
     InsertAnother,
            Throws, Statement, Table, Column, Index, Key, UserColumns
<1>1. \A i \in DOMAIN Up(1) : Met(Up(1)[i], 1, i)
  BY UpIs DEF Met, CreatePermissionTable
<1>2. \A i \in DOMAIN Up(2) : Met(Up(2)[i], 2, i)
  BY UpIs DEF Met, CreateRoleTable
<1>3. \A i \in DOMAIN Up(3) : Met(Up(3)[i], 3, i)
  BY UpIs DEF Met, CreateUserPasswordTable
<1>4. \A i \in DOMAIN Up(4) : Met(Up(4)[i], 4, i)
  BY UpIs DEF Met, CreateUserTable
<1>5. \A i \in DOMAIN Up(5) : Met(Up(5)[i], 5, i)
  BY UpIs DEF Met, CreateResetPassword
<1>6. \A i \in DOMAIN Up(6) : Met(Up(6)[i], 6, i)
  <2>1. \A i \in Nat :
        /\ i > 1 => MadeBefore(Table("permissions_roles"), 6, i)
    BY MakingPlaces, Earlier DEF Later
  <2> QED BY <2>1, UpIs DEF Met, CreatePermissionRoleTable, DroppedThings
<1>7. \A i \in DOMAIN Up(7) : Met(Up(7)[i], 7, i)
  <2>1. \A i \in Nat :
        /\ i > 1 => MadeBefore(Table("users_roles"), 7, i)
    BY MakingPlaces, Earlier DEF Later
  <2> QED BY <2>1, UpIs DEF Met, CreateUserRoleTable, DroppedThings
<1>8. \A i \in DOMAIN Up(8) : Met(Up(8)[i], 8, i)
  <2>1. \A i \in Nat :
        /\ MadeBefore(Table("permissions"), 8, i)
        /\ MadeBefore(Table("roles"), 8, i)
        /\ MadeBefore(Table("users_password"), 8, i)
        /\ MadeBefore(Table("users"), 8, i)
        /\ MadeBefore(Column("users.password_id"), 8, i)
        /\ MadeBefore(Table("reset_password"), 8, i)
        /\ MadeBefore(Table("permissions_roles"), 8, i)
        /\ MadeBefore(Table("users_roles"), 8, i)
    BY MakingPlaces, Earlier DEF Later
  <2> QED BY <2>1, UpIs DEF Met, CreateTableRelationship, DroppedThings
<1>9. \A i \in DOMAIN Up(9) : Met(Up(9)[i], 9, i)
  <2>1. \A i \in Nat :
        /\ MadeBefore(Table("permissions"), 9, i)
    BY MakingPlaces, Earlier DEF Later
  <2>2. DOMAIN Up(9) = 1..Len(Names)
    BY PermissionRows, Listed, NamesAre
  <2>3. \A i \in 1..Len(Names) : Up(9)[i].needs = {Table("permissions")}
    BY PermissionRows DEF Row
  <2>4. Table("permissions") \notin DroppedThings
    BY DEF DroppedThings
  <2> QED BY <2>1, <2>2, <2>3, <2>4 DEF Met
<1>10. \A i \in DOMAIN Up(10) : Met(Up(10)[i], 10, i)
  <2>1. \A i \in Nat :
        /\ MadeBefore(Table("roles"), 10, i)
    BY MakingPlaces, Earlier DEF Later
  <2> QED BY <2>1, UpIs DEF Met, InsertRoles, DroppedThings
<1>11. \A i \in DOMAIN Up(11) : Met(Up(11)[i], 11, i)
  <2>1. \A i \in Nat :
        /\ MadeBefore(Table("roles"), 11, i)
        /\ MadeBefore(Table("users_password"), 11, i)
        /\ MadeBefore(Table("users"), 11, i)
        /\ MadeBefore(Column("users.name"), 11, i)
        /\ MadeBefore(Column("users.email"), 11, i)
        /\ MadeBefore(Column("users.password_id"), 11, i)
        /\ MadeBefore(Table("reset_password"), 11, i)
        /\ MadeBefore(Table("users_roles"), 11, i)
        /\ MadeBefore(Key("reset_password.users"), 11, i)
        /\ MadeBefore(Key("users_roles.users"), 11, i)
        /\ i > 1 => MadeBefore(Table("accounts"), 11, i)
        /\ i > 2 => MadeBefore(Table("accounts_roles"), 11, i)
        /\ i > 5 => MadeBefore(Column("users.account_id"), 11, i)
    BY MakingPlaces, Earlier DEF Later
  <2>2. \A i \in DOMAIN Up(11) :
        /\ i \in Nat
        /\ Up(11)[i].needs \subseteq {Table("roles"), Table("users_password"), Table("users"), Column("users.name"), Column("users.email"),
             Column("users.password_id"), Table("reset_password"), Table("users_roles"), Key("reset_password.users"), Key("users_roles.users"),
             Table("accounts"), Table("accounts_roles"), Column("users.account_id")}
        /\ Table("accounts") \in Up(11)[i].needs => i > 1
        /\ Table("accounts_roles") \in Up(11)[i].needs => i > 2
        /\ Column("users.account_id") \in Up(11)[i].needs => i > 5
    BY UpIs DEF RefactorUserToAccount
  <2>3. \A i \in DOMAIN Up(11) : \A x \in Up(11)[i].needs : MadeBefore(x, 11, i)
    BY <2>1, <2>2
  <2> QED BY <2>3 DEF Met
<1>12. \A i \in DOMAIN Up(12) : Met(Up(12)[i], 12, i)
  <2>1. \A i \in Nat :
        /\ MadeBefore(Table("users_password"), 12, i)
        /\ MadeBefore(Table("permissions_roles"), 12, i)
        /\ MadeBefore(<<"role", "BACKOFFICE">>, 12, i)
        /\ MadeBefore(<<"role", "USER">>, 12, i)
        /\ MadeBefore(Table("accounts"), 12, i)
        /\ MadeBefore(Table("accounts_roles"), 12, i)
        /\ MadeBefore(Column("users.account_id"), 12, i)
        /\ i > 1 => MadeBefore(<<"admin", "password">>, 12, i)
        /\ i > 2 => MadeBefore(<<"admin", "account">>, 12, i)
    BY MakingPlaces, Earlier DEF Later
  <2> DEFINE a == Len(UserPermission)  b == Len(Names)
  <2>2. {Table("permissions_roles"), <<"role", "USER">>, <<"role", "BACKOFFICE">>} \cap DroppedThings = {}
    BY DEF DroppedThings
  <2>3. a \in Nat /\ b \in Nat
    BY NamesAre
  <2>4. ASSUME NEW i \in 1..a PROVE Met(Up(12)[5+i], 12, 5+i)
    <3>1. Up(12)[5+i].needs = {Table("permissions_roles"), <<"role", "USER">>}
      BY InsertUserRows, UpIs DEF Row, UserGrant, BackofficeGrant
    <3>2. 5 + i \in Nat
      BY <2>3
    <3> QED BY <2>1, <2>2, <3>1, <3>2 DEF Met
  <2>5. ASSUME NEW i \in 1..b PROVE Met(Up(12)[5+a+i], 12, 5+a+i)
    <3>1. Up(12)[5+a+i].needs = {Table("permissions_roles"), <<"role", "BACKOFFICE">>}
      BY InsertUserRows, UpIs DEF Row, UserGrant, BackofficeGrant
    <3>2. 5 + a + i \in Nat
      BY <2>3
    <3> QED BY <2>1, <2>2, <3>1, <3>2 DEF Met
  <2>6. \A i \in 1..5 : Met(Up(12)[i], 12, i)
    <3>1. \A i \in 1..5 :
        /\ Up(12)[i].needs \subseteq {Table("users_password"), Table("accounts"), <<"admin", "password">>, Column("users.account_id"),
             <<"admin", "account">>, Table("accounts_roles"), <<"role", "BACKOFFICE">>, <<"role", "USER">>} \ DroppedThings
        /\ <<"admin", "password">> \in Up(12)[i].needs => i > 1
        /\ <<"admin", "account">> \in Up(12)[i].needs => i > 2
      BY InsertUserRows, UpIs DEF AdminRows, DroppedThings
    <3>2. ASSUME NEW i \in 1..5, NEW x \in Up(12)[i].needs PROVE MadeBefore(x, 12, i)
      BY <2>1, <3>1
    <3> QED BY <3>1, <3>2 DEF Met
  <2> QED BY <2>4, <2>5, <2>6, Places
<1>13. \A i \in DOMAIN Up(13) : Met(Up(13)[i], 13, i)
  BY UpIs DEF Met, AddUnaccentExtension
<1> QED BY <1>1, <1>2, <1>3, <1>4, <1>5, <1>6, <1>7, <1>8, <1>9, <1>10, <1>11, <1>12, <1>13

-----------------------------------------------------------------------------
(* Processes.                                                              *)

(* The least of a set of migrations, and the greatest. *)
LEMMA LeastIs ==
  ASSUME NEW set \in SUBSET (1..13), set # {}
  PROVE  Least(set) \in set /\ \A j \in set : Least(set) <= j
<1>1. \E i \in set : \A j \in set : i <= j
  <2>1. \A k \in 1..13 : (\E i \in set : i <= k) => \E i \in set : \A j \in set : i <= j
    <3> DEFINE has(k) == (\E i \in set : i <= k) => \E i \in set : \A j \in set : i <= j
    <3>1. has(1)
      OBVIOUS
    <3>2. has(2)
      BY <3>1
    <3>3. has(3)
      BY <3>2
    <3>4. has(4)
      BY <3>3
    <3>5. has(5)
      BY <3>4
    <3>6. has(6)
      BY <3>5
    <3>7. has(7)
      BY <3>6
    <3>8. has(8)
      BY <3>7
    <3>9. has(9)
      BY <3>8
    <3>10. has(10)
      BY <3>9
    <3>11. has(11)
      BY <3>10
    <3>12. has(12)
      BY <3>11
    <3>13. has(13)
      BY <3>12
    <3> HIDE DEF has
    <3>14. \A k \in 1..13 : has(k)
      BY <3>1, <3>2, <3>3, <3>4, <3>5, <3>6, <3>7, <3>8, <3>9, <3>10, <3>11, <3>12, <3>13
    <3> QED BY <3>14 DEF has
  <2>2. PICK e : e \in set
    OBVIOUS
  <2>3. e \in 1..13 /\ e <= 13
    BY <2>2
  <2>4. 13 \in 1..13 /\ \E i \in set : i <= 13
    BY <2>2, <2>3
  <2> QED BY <2>1, <2>4
<1> QED BY <1>1 DEF Least

LEMMA GreatestIs ==
  ASSUME NEW set \in SUBSET (1..13), set # {}
  PROVE  Greatest(set) \in set /\ \A j \in set : j <= Greatest(set)
<1> DEFINE back == {14 - i : i \in set}
<1>1. back \in SUBSET (1..13) /\ back # {}
  <2>1. \A i \in set : 14 - i \in 1..13
    OBVIOUS
  <2>2. back \subseteq 1..13
    BY <2>1
  <2>3. PICK i \in set : TRUE
    OBVIOUS
  <2>4. 14 - i \in back
    OBVIOUS
  <2> QED BY <2>2, <2>4
<1> HIDE DEF back
<1>2. PICK k \in back : \A j \in back : k <= j
  BY <1>1, LeastIs
<1>3. 14 - k \in set /\ \A j \in set : j <= 14 - k
  <2>1. PICK i \in set : k = 14 - i
    BY <1>2 DEF back
  <2>2. 14 - k = i
    BY <2>1
  <2>3. \A j \in set : 14 - j \in back
    BY DEF back
  <2> QED BY <1>2, <2>1, <2>2, <2>3
<1> QED BY <1>3 DEF Greatest

(* An undo is about one migration. *)
LEMMA Singleton == \A m \in 1..13 : Least({m}) = m
BY DEF Least

USE ThirteenMigrations

(* The migration that a process is at, and its statements. *)
LEMMA Current ==
  ASSUME TypeOK, NEW r \in Runner, runner[r].todo # {}, Running(r)
  PROVE  LET m == Least(runner[r].todo) IN
         /\ m \in 1..13 /\ m \in runner[r].todo /\ \A j \in runner[r].todo : m <= j
         /\ runner[r].does = "up" => Statements(r) = Up(m)
         /\ runner[r].does # "up" => Statements(r) = Down(m)
         /\ Len(Statements(r)) \in Nat /\ DOMAIN Statements(r) = 1..Len(Statements(r))
         /\ runner[r].does = "down" => Len(Statements(r)) > 0
         /\ runner[r].does \in {"up", "down"}
<1> DEFINE m == Least(runner[r].todo)
<1>1. runner[r].todo \in SUBSET (1..13) /\ runner[r].does \in {"up", "down"}
  BY DEF TypeOK, Running
<1>2. m \in 1..13 /\ m \in runner[r].todo /\ \A j \in runner[r].todo : m <= j
  BY <1>1, LeastIs
<1>3. Statements(r) = IF runner[r].does = "up" THEN Up(m) ELSE Down(m)
  BY DEF Statements, Up, Down
<1> HIDE DEF m
<1>4. Sized(Up(m)) /\ Undoes(Down(m))
  BY <1>2, UpSizes, DownSizes
<1>5. Sized(Statements(r))
  BY <1>3, <1>4 DEF Undoes
<1>6. runner[r].does = "down" => Len(Statements(r)) > 0
  BY <1>3, <1>4 DEF Undoes
<1> QED BY <1>1, <1>2, <1>3, <1>5, <1>6 DEF Sized, m

(* The initial states. *)
LEMMA Initially == Init => IInv
<1> SUFFICES ASSUME Init PROVE IInv
  OBVIOUS
<1>1. TypeOK
  BY DEF Init, TypeOK, Idle
<1>2. \A r \in Runner : ~Running(r) /\ runner[r].does = "none" /\ runner[r].end = "none"
  BY DEF Init, Idle, Running
<1>3. \A r \in Runner : Process(r)
  BY <1>2 DEF Process, Working
<1>4. InOrder /\ RecordedStands /\ UsersWhole
  BY DEF Init, InOrder, RecordedStands, UsersWhole
<1> QED BY <1>1, <1>2, <1>3, <1>4 DEF IInv, CleanRunsDoNotFail

(* What stands stays, in a step that executes no statement. *)
Stays == \A x : Standing(x) => Standing(x)'
LEMMA StaysWithoutStatement == db' = db /\ undone \subseteq undone' => Stays
BY DEF Stays, Standing, Refactoring

LEMMA UsersStayWhole == db' = db /\ undone \subseteq undone' /\ UsersWhole => UsersWhole'
BY StaysWithoutStatement DEF Stays, UsersWhole

LEMMA RecordedStay ==
  recorded' \subseteq recorded /\ undone \subseteq undone' /\ Stays /\ RecordedStands => RecordedStands'
BY DEF Stays, RecordedStands, Made

(* A process that stays where it is remains right when what stands stays. *)
Same(q) ==
  /\ runner'[q].does = runner[q].does /\ runner'[q].todo = runner[q].todo
  /\ runner'[q].at = runner[q].at /\ runner'[q].failed = runner[q].failed
LEMMA OtherProcess ==
  ASSUME TypeOK, NEW q \in Runner, Same(q), Process(q), Stays,
         recorded \subseteq recorded', runner[q].does # "down"
  PROVE  Process(q)'
<1>1. Running(q)' = Running(q) /\ Working(q)' = Working(q) /\ Statements(q)' = Statements(q)
  BY DEF Same, Running, Working, Statements
<1>2. DoneSoFar(q) => DoneSoFar(q)'
  BY <1>1 DEF Same, Stays, DoneSoFar
<1>3. Going(q) => Going(q)'
  BY <1>1, <1>2 DEF Same, Going
<1> QED BY <1>1, <1>3 DEF Process, Same

(* What refactorUserToAccount needs and drops is made by an earlier migration. *)
LEMMA DroppedMade ==
  ASSUME NEW i \in DOMAIN Up(11), NEW x \in Up(11)[i].needs, x \in Dropped
  PROVE  \E j \in 1..13 : j < 11 /\ x \in Made(j)
<1>1. x \in DroppedThings /\ MadeBefore(x, 11, i)
  BY NeedsMet, DroppedIs DEF Met
<1>2. Home(x) # 11
  BY <1>1 DEF DroppedThings, UserColumns, Home, Key, Column, Table, Index
<1>3. \A k \in DOMAIN Up(11) : x \notin Up(11)[k].makes
  BY <1>2, UpFits DEF Fits
<1> QED BY <1>1, <1>3 DEF MadeBefore

(* Before refactorUserToAccount has begun, and without an undo, it finds that. *)
Complete == undone = {} /\ ~Refactoring
LEMMA RefactoringNeeds ==
  ASSUME RecordedStands, Complete, \A j \in 1..13 : j < 11 => j \in recorded,
         NEW i \in DOMAIN Up(11)
  PROVE  Up(11)[i].needs \cap Dropped \subseteq db
<1> SUFFICES ASSUME NEW x \in Up(11)[i].needs, x \in Dropped PROVE x \in db
  OBVIOUS
<1>1. PICK j \in 1..13 : j < 11 /\ x \in Made(j)
  BY DroppedMade
<1>2. Standing(x)
  BY <1>1 DEF RecordedStands, Complete
<1> QED BY <1>2 DEF Standing, Complete

(* The third statement of refactorUserToAccount makes its first index. *)
LEMMA IndexIsThird ==
  3 \in DOMAIN Up(11) /\ Index("accounts_roles.accounts") \in Up(11)[3].makes /\ ~Up(11)[3].tolerant
<1>1. 3 \in DOMAIN Up(11)
  BY UpIs DEF RefactorUserToAccount
<1> QED BY <1>1, UpFits DEF Fits

(* The types of a process. *)
Types == [does : {"none", "up", "down"}, todo : SUBSET (1..13), at : Nat \ {0}, failed : BOOLEAN,
          clean : BOOLEAN, end : {"none", "failed", "done"}]
LEMMA TypeIs ==
  TypeOK <=> recorded \subseteq 1..13 /\ undone \subseteq 1..13 /\ runs \in Nat /\ runner \in [Runner -> Types]
BY DEF TypeOK, Types

-----------------------------------------------------------------------------
(* The steps.                                                              *)

(* A run begins.  It is clean when what is pending has not begun, and everything
   else is recorded. *)
LEMMA RunStep == ASSUME IInv, NEW r \in Runner, Run(r) PROVE IInv'
<1> DEFINE todo == DOMAIN Migration \ recorded
<1>0. /\ TypeOK /\ InOrder /\ RecordedStands /\ UsersWhole /\ CleanRunsDoNotFail
      /\ \A q \in Runner : Process(q)
      /\ \A q \in Runner : Running(q) /\ runner[q].clean => CleanRun(q)
  BY DEF IInv
<1>1. /\ ~Running(r) /\ runs' = runs + 1 /\ db' = db /\ recorded' = recorded /\ undone' = undone
      /\ \A q \in Runner : runner[q].does # "down"
  BY DEF Run, Begin
<1>c. PICK clean \in BOOLEAN :
        clean = (~Torn /\ undone = {} /\ ResetRow \notin db /\ \A p \in Runner : ~Running(p))
  OBVIOUS
<1>2. runner' = [q \in Runner |->
        IF q = r THEN [Idle EXCEPT !.does = "up", !.todo = todo, !.clean = clean]
        ELSE [runner[q] EXCEPT !.clean = FALSE]]
  BY <1>c, <1>1 DEF Run, Begin
<1>3. /\ runner'[r] = [does |-> "up", todo |-> todo, at |-> 1, failed |-> FALSE, clean |-> clean, end |-> "none"]
      /\ todo \subseteq 1..13
  BY <1>2 DEF Idle
<1>4. \A q \in Runner \ {r} : Same(q) /\ runner'[q].clean = FALSE /\ runner'[q] \in Types
  <2> SUFFICES ASSUME NEW q \in Runner \ {r}
               PROVE Same(q) /\ runner'[q].clean = FALSE /\ runner'[q] \in Types
    OBVIOUS
  <2>1. runner'[q] = [runner[q] EXCEPT !.clean = FALSE]
    BY <1>2
  <2>2. runner[q] \in Types
    BY <1>0, TypeIs
  <2> QED BY <2>1, <2>2 DEF Same, Types
<1>5. TypeOK'
  <2>1. runner'[r] \in Types
    BY <1>3 DEF Types
  <2>2. runner' \in [Runner -> Types]
    BY <1>2, <1>4, <2>1
  <2> QED BY <1>0, <1>1, <2>2 DEF TypeOK, Types
<1>6. Stays /\ InOrder' /\ RecordedStands' /\ UsersWhole'
  BY <1>0, <1>1, StaysWithoutStatement, UsersStayWhole, RecordedStay DEF InOrder
<1>7. \A q \in Runner \ {r} : Process(q)'
  BY <1>0, <1>1, <1>4, <1>6, OtherProcess
<1>8. Process(r)'
  <2>1. /\ Running(r)'
        /\ runner'[r].does = "up"
        /\ runner'[r].failed = FALSE
        /\ runner'[r].at = 1
        /\ runner'[r].todo = todo
    BY <1>3 DEF Running
  <2>2. ASSUME todo # {} PROVE Going(r)'
    <3>0. Statements(r)' = Up(Least(todo))
      BY <2>1 DEF Statements, Up
    <3>1. Len(Statements(r)') \in Nat
      BY <3>0, <1>3, <2>2, LeastIs, UpSizes DEF Sized
    <3>2. DoneSoFar(r)'
      BY <2>1 DEF DoneSoFar
    <3> QED BY <2>1, <3>1, <3>2 DEF Going
  <2>3. DOMAIN Migration \ todo \subseteq recorded'
    BY <1>1
  <2> HIDE DEF todo
  <2> QED BY <2>1, <2>2, <2>3 DEF Process, Working
<1>9. ASSUME NEW q \in Runner, Running(q)', runner'[q].clean PROVE CleanRun(q)'
  <2>1. q = r /\ clean
    BY <1>3, <1>4, <1>9
  <2>2. ~Torn /\ undone = {} /\ ResetRow \notin db /\ \A p \in Runner : ~Running(p)
    BY <2>1, <1>c
  <2>3. \A p \in Runner \ {r} : ~Running(p)'
    BY <2>2, <1>4 DEF Running, Same
  <2>4. \A m \in todo : \A i \in DOMAIN Up(m) : ~Up(m)[i].tolerant => Up(m)[i].makes \cap db = {}
    BY <2>2 DEF Torn, Up, Range
  <2>5. ASSUME todo # {}, Least(todo) = 11, NEW i \in DOMAIN Up(11)
        PROVE  Up(11)[i].needs \cap Dropped \subseteq db
    <3>1. 11 \in todo /\ \A j \in todo : 11 <= j
      BY <2>5, <1>3, LeastIs
    <3>2. \A j \in 1..13 : j < 11 => j \in recorded
      BY <3>1
    <3>3. Complete
      BY <2>2, <2>4, <3>1, IndexIsThird DEF Complete, Refactoring
    <3> QED BY <3>2, <3>3, <1>0, RefactoringNeeds
  <2>6. /\ runner'[r].does = "up" /\ runner'[r].failed = FALSE /\ runner'[r].todo = todo /\ todo \cap recorded' = {}
    BY <1>1, <1>3
  <2>7. \A m \in todo : Ahead(r, m)' \subseteq DOMAIN Up(m)
    BY DEF Ahead, Up
  <2> HIDE DEF todo
  <2>8. \A m \in todo : \A i \in Ahead(r, m)' :
          ~Migration[m].up[i].tolerant => Migration[m].up[i].makes \cap db' = {}
    BY <2>4, <2>7, <1>1 DEF Up
  <2>9. Ahead(r, 11)' \subseteq DOMAIN Up(11)
    BY DEF Ahead, Up
  <2>10. todo # {} /\ Least(todo) = 11 =>
           \A i \in Ahead(r, 11)' : RefactorUserToAccount.up[i].needs \cap Dropped \subseteq db'
    BY <2>5, <2>9, <1>1, UpIs
  <2> QED BY <2>1, <2>2, <2>3, <2>6, <2>8, <2>10, <1>1 DEF CleanRun, Alone
<1>10. CleanRunsDoNotFail'
  BY <1>3, <1>4 DEF CleanRunsDoNotFail
<1> QED BY <1>5, <1>6, <1>7, <1>8, <1>9, <1>10 DEF IInv

(* The parts of IInv. *)
LEMMA Parts ==
  ASSUME IInv
  PROVE  /\ TypeOK /\ InOrder /\ RecordedStands /\ UsersWhole /\ CleanRunsDoNotFail
         /\ \A q \in Runner : Process(q)
         /\ \A q \in Runner : Running(q) /\ runner[q].clean => CleanRun(q)
BY DEF IInv

(* An undo begins: the migration it undoes promises nothing any more. *)
LEMMA UndoStep == ASSUME IInv, NEW r \in Runner, Undo(r) PROVE IInv'
<1> DEFINE g == Greatest(recorded)
<1>1. /\ \A q \in Runner : ~Running(q)
      /\ runs' = runs + 1 /\ db' = db /\ recorded' = recorded /\ undone' = undone \cup {g} /\ recorded # {}
  BY DEF Undo, Begin
<1>2. runner' = [q \in Runner |->
        IF q = r THEN [Idle EXCEPT !.does = "down", !.todo = {g}, !.clean = FALSE]
        ELSE [runner[q] EXCEPT !.clean = FALSE]]
  BY DEF Undo, Begin
<1>3. /\ runner'[r] = [does |-> "down", todo |-> {g}, at |-> 1, failed |-> FALSE, clean |-> FALSE, end |-> "none"]
      /\ g \in 1..13 /\ g \in recorded
  <2>1. runner'[r] = [Idle EXCEPT !.does = "down", !.todo = {g}, !.clean = FALSE]
    BY <1>2
  <2>2. recorded \in SUBSET (1..13)
    BY Parts DEF TypeOK
  <2>3. g \in recorded
    BY <1>1, <2>2, GreatestIs
  <2> HIDE DEF g
  <2>4. runner'[r] = [does |-> "down", todo |-> {g}, at |-> 1, failed |-> FALSE, clean |-> FALSE, end |-> "none"]
    BY <2>1 DEF Idle
  <2> QED BY <2>2, <2>3, <2>4
<1> HIDE DEF g
<1>4. \A q \in Runner \ {r} : Same(q) /\ runner'[q].clean = FALSE /\ runner'[q] \in Types
  <2> SUFFICES ASSUME NEW q \in Runner \ {r}
               PROVE Same(q) /\ runner'[q].clean = FALSE /\ runner'[q] \in Types
    OBVIOUS
  <2>1. runner'[q] = [runner[q] EXCEPT !.clean = FALSE]
    BY <1>2
  <2>2. runner[q] \in Types
    BY Parts, TypeIs
  <2> QED BY <2>1, <2>2 DEF Same, Types
<1>5. TypeOK'
  <2>1. runner'[r] \in Types
    BY <1>3 DEF Types
  <2>2. runner' \in [Runner -> Types]
    BY <1>2, <1>4, <2>1
  <2> QED BY Parts, <1>1, <1>3, <2>2 DEF TypeOK, Types
<1>6. Stays /\ InOrder' /\ RecordedStands' /\ UsersWhole'
  BY Parts, <1>1, StaysWithoutStatement, UsersStayWhole, RecordedStay DEF InOrder
<1>7. \A q \in Runner \ {r} : Process(q)'
  BY Parts, <1>1, <1>4, <1>6, OtherProcess DEF Running
<1>8. Process(r)'
  <2>1. Statements(r)' = Down(g)
    <3>1. runner'[r].does = "down" /\ runner'[r].todo = {g} /\ g \in 1..13
      BY <1>3
    <3>2. Least(runner'[r].todo) = g
      BY <3>1, Singleton
    <3>3. Statements(r)' = Migration[Least(runner'[r].todo)].down
      BY <3>1 DEF Statements
    <3> QED BY <3>2, <3>3 DEF Down
  <2>2. Len(Statements(r)') \in Nat
    BY <1>3, <2>1, DownSizes DEF Undoes, Sized
  <2>3. Going(r)'
    BY <1>1, <1>3, <2>2 DEF Going, g
  <2>4. Alone(r)'
    BY <1>1, <1>4 DEF Alone, Running, Same
  <2> QED BY <1>1, <1>3, <2>3, <2>4 DEF Process, Working
<1>9. ~(\E q \in Runner : runner'[q].clean)
  BY <1>3, <1>4
<1> QED BY <1>5, <1>6, <1>7, <1>8, <1>9 DEF IInv, CleanRunsDoNotFail

(* A process stops, having done nothing more. *)
LEMMA StopStep ==
  ASSUME IInv, NEW r \in Runner, UNCHANGED <<db, recorded, runs, undone>>,
         NEW p \in Types, p.does = "none", p.end = "failed" => ~p.clean, runner' = [runner EXCEPT ![r] = p]
  PROVE  IInv'
<1>1. runner'[r] = p /\ (\A q \in Runner \ {r} : runner'[q] = runner[q]) /\ runner' \in [Runner -> Types]
  BY Parts, TypeIs
<1>2. TypeOK'
  BY Parts, <1>1 DEF TypeOK, Types
<1>3. Stays /\ InOrder' /\ RecordedStands' /\ UsersWhole'
  BY Parts, StaysWithoutStatement, UsersStayWhole, RecordedStay DEF InOrder
<1>4. ~Running(r)' /\ \A q \in Runner \ {r} : (Running(q)' = Running(q)) /\ Same(q) /\ (Alone(q) => Alone(q)')
  BY <1>1 DEF Running, Alone, Same
<1>5. \A q \in Runner : Process(q)'
  <2>1. Process(r)'
    BY <1>1, <1>4 DEF Process, Working
  <2>2. ASSUME NEW q \in Runner \ {r}, runner[q].does # "down" PROVE Process(q)'
    BY <2>2, Parts, <1>3, <1>4, OtherProcess
  <2>3. ASSUME NEW q \in Runner \ {r}, runner[q].does = "down" PROVE Process(q)'
    <3>1. Process(q)
      BY Parts
    <3>2. Working(q)' = Working(q) /\ Statements(q)' = Statements(q)
      BY <1>1, <1>4 DEF Working, Statements
    <3>3. Going(q) => Going(q)'
      BY <2>3, <1>1, <3>2 DEF Going
    <3> QED BY <2>3, <3>1, <3>2, <3>3, <1>1, <1>4 DEF Process
  <2> QED BY <2>1, <2>2, <2>3
<1>6. \A q \in Runner : Running(q)' /\ runner'[q].clean => CleanRun(q)'
  <2>1. SUFFICES ASSUME NEW q \in Runner \ {r}, Running(q), runner[q].clean PROVE CleanRun(q)'
    BY <1>1, <1>4
  <2>2. CleanRun(q) /\ runner'[q] = runner[q]
    BY <2>1, <1>1, Parts
  <2>3. \A m : Ahead(q, m)' = Ahead(q, m)
    BY <2>2 DEF Ahead
  <2> QED BY <2>2, <2>3, <1>4 DEF CleanRun
<1>7. CleanRunsDoNotFail'
  BY <1>1, Parts DEF CleanRunsDoNotFail
<1> QED BY <1>2, <1>3, <1>5, <1>6, <1>7 DEF IInv

(* Nothing is left to do. *)
LEMMA FinishStep == ASSUME IInv, NEW r \in Runner, Finish(r) PROVE IInv'
<1> DEFINE p == [runner[r] EXCEPT !.does = "none", !.end = "done"]
<1>1. p \in Types /\ p.does = "none" /\ p.end = "done"
  BY Parts, TypeIs DEF Types
<1>2. runner' = [runner EXCEPT ![r] = p]
  BY Parts DEF Finish, TypeOK
<1> HIDE DEF p
<1> QED BY <1>1, <1>2, StopStep DEF Finish

(* The process ends anywhere. *)
LEMMA CutOffStep == ASSUME IInv, NEW r \in Runner, CutOff(r) PROVE IInv'
<1>1. Idle \in Types /\ Idle.does = "none" /\ Idle.end = "none"
  BY DEF Idle, Types
<1> QED BY <1>1, StopStep DEF CutOff

(* A migration is recorded: it has made all it makes, since no statement of it
   failed and what it had made so far stood.  Or the record of an undone one goes:
   it was the greatest, so the others remain in order. *)
LEMMA RecordStep == ASSUME IInv, NEW r \in Runner, Record(r) PROVE IInv'
<1> DEFINE m == Least(runner[r].todo)  p == [runner[r] EXCEPT !.todo = @ \ {m}, !.at = 1]
<1>1. /\ Running(r) /\ runner[r].todo # {} /\ runner[r].at > Len(Statements(r))
      /\ db' = db /\ undone' = undone /\ runs' = runs
      /\ Process(r) /\ Going(r) /\ runner[r] \in Types
  BY Parts, TypeIs DEF Record, Process, Working
<1>2. m \in 1..13 /\ m \in runner[r].todo /\ (\A j \in runner[r].todo : m <= j) /\ runner[r].does \in {"up", "down"}
      /\ Len(Statements(r)) \in Nat /\ (runner[r].does = "up" => Statements(r) = Up(m))
  BY <1>1, Parts, Current
<1>3. runner' = [runner EXCEPT ![r] = p]
  BY Parts DEF Record, TypeOK
<1>4. /\ p \in Types /\ p.does = runner[r].does /\ p.todo = runner[r].todo \ {m} /\ p.at = 1
      /\ p.failed = runner[r].failed /\ p.clean = runner[r].clean /\ p.end = runner[r].end
  <2> DEFINE todo == runner[r].todo \ {m}
  <2>1. todo \in SUBSET (1..13) /\ 1 \in Nat \ {0}
    BY <1>1 DEF Types
  <2>2. p = [runner[r] EXCEPT !.todo = todo, !.at = 1]
    OBVIOUS
  <2> HIDE DEF todo, m, p
  <2>3. p \in Types /\ p.does = runner[r].does /\ p.todo = todo /\ p.at = 1
      /\ p.failed = runner[r].failed /\ p.clean = runner[r].clean /\ p.end = runner[r].end
    BY <2>1, <2>2, <1>1 DEF Types
  <2> QED BY <2>3 DEF todo
<1> HIDE DEF p
<1>5. runner'[r] = p /\ (\A q \in Runner \ {r} : runner'[q] = runner[q]) /\ runner' \in [Runner -> Types]
  BY <1>3, <1>4, Parts, TypeIs
<1>6. runner[r].failed = FALSE
  BY <1>1, <1>2 DEF Going, Types
<1>7. \A q \in Runner : Running(q)' = Running(q) /\ Alone(q)' = Alone(q)
  BY <1>4, <1>5 DEF Running, Alone
<1>8. Stays /\ UsersWhole'
  BY Parts, <1>1, StaysWithoutStatement, UsersStayWhole
<1>9. CASE runner[r].does = "up"
  <2>1. recorded' = recorded \cup {m} /\ 1..13 \ runner[r].todo \subseteq recorded
    BY <1>1, <1>9 DEF Record, Process
  <2>2. TypeOK'
    BY Parts, <1>1, <1>2, <1>5, <2>1 DEF TypeOK, Types
  <2>3. InOrder'
    <3>1. \A j \in 1..13 : j < m => j \in recorded
      BY <1>2, <2>1
    <3> QED BY <3>1, <2>1, <1>2, Parts DEF InOrder
  <2>4. RecordedStands'
    <3>1. \A x \in Made(m) : Standing(x)
      <4> SUFFICES ASSUME NEW x \in Made(m) PROVE Standing(x)
        OBVIOUS
      <4>1. PICK i \in DOMAIN Up(m) : x \in Up(m)[i].makes
        BY MadeIs
      <4>2. i \in 1..Len(Up(m)) /\ Len(Up(m)) \in Nat
        BY <4>1, <1>2, UpSizes DEF Sized
      <4>3. i \in 1..runner[r].at - 1 /\ Statements(r) = Up(m)
        BY <4>2, <1>1, <1>2, <1>9 DEF Types
      <4>4. DoneSoFar(r)
        BY <1>1, <1>6, <1>9 DEF Going
      <4> QED BY <4>1, <4>3, <4>4 DEF DoneSoFar
    <3>2. \A n \in recorded \ undone : \A x \in Made(n) : Standing(x)'
      BY Parts, <1>8 DEF RecordedStands, Stays
    <3>3. \A x \in Made(m) : Standing(x)'
      BY <3>1, <1>8 DEF Stays
    <3>4. \A n : Made(n)' = Made(n)
      BY DEF Made
    <3> QED BY <3>2, <3>3, <3>4, <2>1, <1>1 DEF RecordedStands
  <2>5. \A q \in Runner : Process(q)'
    <3>1. Process(r)'
      <4>1. ASSUME p.todo # {} PROVE Going(r)'
        <5>1. Statements(r)' = Up(Least(p.todo))
          BY <1>4, <1>5, <1>9 DEF Statements, Up
        <5>2. Len(Statements(r)') \in Nat
          BY <5>1, <4>1, <1>4, LeastIs, UpSizes DEF Sized, Types
        <5> QED BY <5>2, <1>4, <1>5, <1>6, <1>9 DEF Going, DoneSoFar
      <4>2. 1..13 \ p.todo \subseteq recorded'
        BY <2>1, <1>4
      <4> QED BY <4>1, <4>2, <1>4, <1>5, <1>6, <1>9 DEF Process, Working
    <3>2. \A q \in Runner \ {r} : runner[q].does # "down"
      BY <1>1, Parts DEF Process, Alone
    <3>3. \A q \in Runner \ {r} : Process(q)'
      <4>1. \A q \in Runner \ {r} : Same(q)
        BY <1>5 DEF Same
      <4> QED BY <4>1, <3>2, <2>1, <1>8, Parts, OtherProcess
    <3> QED BY <3>1, <3>3
  <2>6. \A q \in Runner : Running(q)' /\ runner'[q].clean => CleanRun(q)'
    <3> SUFFICES ASSUME NEW q \in Runner, Running(q)', runner'[q].clean PROVE CleanRun(q)'
      OBVIOUS
    <3>1. CleanRun(q) /\ Alone(q)
      BY <1>4, <1>5, <1>7, Parts DEF CleanRun
    <3>2. q = r
      BY <1>1, <3>1 DEF Alone
    <3>3. \A n \in p.todo : Ahead(r, n)' \subseteq Ahead(r, n) /\ Ahead(r, n) = DOMAIN Up(n)
      <4>1. \A n \in p.todo : n # m
        BY <1>4
      <4>2. \A n \in p.todo : Ahead(r, n) = DOMAIN Up(n)
        BY <4>1 DEF Ahead, Up
      <4>3. \A n \in p.todo : Ahead(r, n)' \subseteq DOMAIN Up(n)
        BY DEF Ahead, Up
      <4> QED BY <4>2, <4>3
    <3>4. \A n \in p.todo : \A i \in Ahead(r, n)' :
            ~Migration[n].up[i].tolerant => Migration[n].up[i].makes \cap db' = {}
      BY <3>1, <3>2, <3>3, <1>1, <1>4 DEF CleanRun
    <3>5. ASSUME p.todo # {}, Least(p.todo) = 11, NEW i \in Ahead(r, 11)'
          PROVE  RefactorUserToAccount.up[i].needs \cap Dropped \subseteq db'
      <4>1. 11 \in p.todo /\ (\A j \in p.todo : 11 <= j) /\ i \in DOMAIN Up(11)
        <5>1. p.todo \in SUBSET (1..13)
          BY <1>4 DEF Types
        <5>2. 11 \in p.todo /\ \A j \in p.todo : 11 <= j
          BY <5>1, <3>5, LeastIs
        <5> QED BY <5>2, <3>3, <3>5
      <4>2. \A j \in 1..13 : j < 11 => j \in recorded'
        BY <4>1, <2>1, <1>4
      <4>3. \A j \in 1..13 : j < 11 => j \in recorded \cup {m}
        BY <4>2, <2>1
      <4>4. Complete
        <5>1. 3 \in Ahead(r, 11) /\ Up(11)[3].makes \cap db = {}
          BY <4>1, <3>1, <3>2, <3>3, <1>4, IndexIsThird DEF CleanRun, Up
        <5> QED BY <5>1, <3>1, IndexIsThird DEF Complete, Refactoring, CleanRun
      <4>5. Complete'
        BY <4>4, <1>1 DEF Complete, Refactoring
      <4>6. \A x \in Up(11)[i].needs : x \in Dropped => x \in db'
        <5>1. \A x : Standing(x)' => x \in db'
          BY <4>5 DEF Standing, Complete
        <5>2. SUFFICES ASSUME NEW x \in Up(11)[i].needs, x \in Dropped PROVE x \in db'
          OBVIOUS
        <5>3. PICK j \in 1..13 : j < 11 /\ x \in Made(j)
          BY <5>2, <4>1, DroppedMade
        <5>4. j \in recorded' \ undone'
          BY <5>3, <4>2, <4>5 DEF Complete
        <5> QED BY <5>1, <5>3, <5>4, <2>4 DEF RecordedStands, Made
      <4> QED BY <4>6, UpIs
    <3>6. undone' = {} /\ ResetRow \notin db' /\ Alone(r)' /\ p.todo \cap recorded' = {}
      BY <3>1, <3>2, <1>1, <1>4, <1>7, <2>1 DEF CleanRun
    <3> QED BY <3>2, <3>4, <3>5, <3>6, <1>4, <1>5, <1>6, <1>9 DEF CleanRun
  <2>7. CleanRunsDoNotFail'
    BY <1>4, <1>5, Parts DEF CleanRunsDoNotFail
  <2> QED BY <2>2, <2>3, <2>4, <2>5, <2>6, <2>7, <1>8 DEF IInv
<1>10. CASE runner[r].does = "down"
  <2>1. /\ recorded' = recorded \ {m} /\ p.todo = {} /\ m = Greatest(recorded) /\ recorded # {}
        /\ Alone(r) /\ undone # {}
    BY <1>1, <1>2, <1>4, <1>10, Singleton DEF Record, Going, Process
  <2>2. TypeOK'
    BY Parts, <1>1, <1>5, <2>1 DEF TypeOK, Types
  <2>3. InOrder'
    <3>1. recorded \subseteq 1..13 /\ \A n \in recorded : n <= m
      BY <2>1, Parts, GreatestIs DEF TypeOK
    <3>2. ASSUME NEW n \in recorded', NEW j \in 1..13, j < n PROVE j \in recorded /\ j # m
      BY <3>1, <3>2, <1>2, <2>1, Parts DEF InOrder
    <3> QED BY <3>2, <2>1 DEF InOrder
  <2>4. RecordedStands'
    BY <2>1, <1>1, <1>8, Parts, RecordedStay
  <2>5. \A q \in Runner \ {r} : ~Running(q)' /\ runner'[q].does = "none"
    BY <2>1, <1>7 DEF Alone, Running
  <2>6. \A q \in Runner : Process(q)'
    BY <2>1, <2>5, <1>1, <1>4, <1>5, <1>6, <1>7, <1>10 DEF Process, Working
  <2>7. \A q \in Runner : ~(Running(q)' /\ runner'[q].clean)
    <3>1. ~runner[r].clean
      BY <1>1, <1>10, Parts DEF CleanRun
    <3> QED BY <3>1, <2>5, <1>4, <1>5
  <2>8. CleanRunsDoNotFail'
    BY <1>4, <1>5, Parts DEF CleanRunsDoNotFail
  <2> QED BY <2>2, <2>3, <2>4, <2>6, <2>7, <2>8, <1>8 DEF IInv
<1> QED BY <1>2, <1>9, <1>10

(* The effect of a statement. *)
LEMMA EffectIs ==
  ASSUME NEW s, db' = Effect(s)
  PROVE  /\ \A x \in db' : x \in db \/ x \in s.makes
         /\ \A x \in db : x \in db' \/ x \in s.drops
         /\ s.makes \cap db # {} \/ s.makes \subseteq db'
         /\ s.makes \cap db # {} => db' = db
BY DEF Effect

(* A statement of a run leaves what stood, and makes what it says. *)
LEMMA UpKeeps ==
  ASSUME IInv, NEW r \in Runner, Running(r), runner[r].does = "up", runner[r].todo # {},
         NEW m, m = Least(runner[r].todo), NEW i, i = runner[r].at, i \in DOMAIN Up(m),
         NEW s, s = Up(m)[i], ~Fails(s), db' = Effect(s), undone' = undone
  PROVE  Stays /\ UsersWhole' /\ \A x \in s.makes : Standing(x)'
<1>1. Fits(s, m, i) /\ m \in 1..13 /\ Statements(r) = Up(m) /\ i \in Nat \ {0} /\ Going(r)
  <2>1. m \in 1..13 /\ Statements(r) = Up(m)
    BY Parts, Current
  <2>2. Going(r) /\ i \in Nat \ {0}
    BY Parts DEF Process, Working, TypeOK
  <2> QED BY <2>1, <2>2, UpFits
<1>2. /\ \A x \in s.drops : x \in Dropped /\ Refactoring
      /\ Index("accounts_roles.accounts") \notin s.drops
  <2>1. /\ Index("accounts_roles.accounts") \notin Dropped
        /\ Index("accounts_roles.accounts") # Table("users_password")
    BY DroppedIs DEF DroppedThings, UserColumns, Index, Column, Key, Table
  <2>2. ASSUME NEW x \in s.drops PROVE x \in Dropped /\ Refactoring
    <3>1. m = 11 /\ i > 3 /\ ~s.together
      BY <1>1, <2>2 DEF Fits
    <3>2. DoneSoFar(r)
      <4>1. ~runner[r].failed
        BY <1>1, <3>1 DEF Going
      <4> QED BY <4>1, <1>1 DEF Going
    <3>3. Standing(Index("accounts_roles.accounts"))
      <4>1. 3 \in 1..runner[r].at - 1
        BY <3>1, <1>1
      <4> QED BY <4>1, <3>1, <3>2, <1>1, IndexIsThird DEF DoneSoFar
    <3> QED BY <3>1, <3>3, <2>1, DroppedIs DEF Standing, Refactoring
  <2> QED BY <2>1, <2>2, DroppedIs
<1>3. Refactoring => Refactoring'
  BY <1>2, EffectIs DEF Refactoring
<1>4. Stays
  <2> SUFFICES ASSUME NEW x, Standing(x) PROVE Standing(x)'
    BY DEF Stays
  <2>1. CASE x \in db
    BY <2>1, <1>2, <1>3, EffectIs DEF Standing, Dropped
  <2>2. CASE x \notin db
    BY <2>2, <1>3 DEF Standing, Dropped
  <2> QED BY <2>1, <2>2
<1>5. UsersWhole'
  <2>1. Table("users") \in db => Table("users") \in db'
    BY <1>1, EffectIs DEF Fits
  <2>2. UsersTable \cap s.makes # {} => s.makes = UsersTable
    BY <1>1 DEF Fits
  <2>3. CASE s.makes \cap db # {}
    BY <2>3, <1>4, EffectIs, Parts DEF UsersWhole, Stays
  <2>4. CASE s.makes \subseteq db' /\ s.makes = UsersTable
    BY <2>4 DEF UsersWhole, UsersTable, Standing
  <2>5. CASE UsersTable \cap s.makes = {}
    <3>1. \A x \in UsersTable : x \in db' => x \in db
      BY <2>5, EffectIs
    <3> QED BY <2>1, <3>1, <1>4, Parts DEF UsersWhole, UsersTable, Stays
  <2> QED BY <2>2, <2>3, <2>4, <2>5, EffectIs
<1>6. ASSUME NEW x \in s.makes PROVE Standing(x)'
  <2>1. CASE s.makes \subseteq db'
    BY <2>1, <1>6 DEF Standing
  <2>2. CASE s.makes \cap db # {}
    <3>1. s.tolerant /\ db' = db
      BY <2>2, EffectIs DEF Fails
    <3>2. CASE \A y, z \in s.makes : y = z
      BY <2>2, <3>1, <3>2, <1>6 DEF Standing
    <3>3. CASE s.makes = UsersTable
      <4>1. Table("users") \in db
        BY <2>2, <3>3, Parts DEF UsersWhole, UsersTable
      <4>2. Standing(x)
        BY <4>1, <3>3, <1>6, Parts DEF UsersWhole, UsersTable, Standing
      <4> QED BY <4>2, <1>4 DEF Stays
    <3> QED BY <3>1, <3>2, <3>3, <1>1 DEF Fits
  <2> QED BY <2>1, <2>2, EffectIs
<1> QED BY <1>4, <1>5, <1>6

(* A statement of an undo takes away what its own migration made, or what is not
   promised to stand after an undo. *)
LEMMA DownKeeps ==
  ASSUME IInv, NEW r \in Runner, Running(r), runner[r].does = "down", runner[r].todo # {},
         NEW s, s = Statements(r)[runner[r].at], runner[r].at <= Len(Statements(r)),
         ~Fails(s), db' = Effect(s), undone' = undone, recorded' = recorded
  PROVE  RecordedStands' /\ UsersWhole'
<1> DEFINE g == Least(runner[r].todo)
<1>1. Process(r) /\ Going(r) /\ recorded \subseteq 1..13
  BY Parts DEF Process, Working, TypeOK
<1>2. g = Greatest(recorded) /\ recorded # {} /\ g \in undone /\ undone # {}
  <2>1. runner[r].todo = {Greatest(recorded)} /\ recorded # {} /\ runner[r].todo \subseteq undone
    BY <1>1 DEF Going
  <2>2. Greatest(recorded) \in 1..13
    BY <1>1, <2>1, GreatestIs
  <2> QED BY <2>1, <2>2, Singleton
<1>3. g \in 1..13 /\ \A m \in recorded : m <= g
  BY <1>1, <1>2, GreatestIs
<1>4. DownFits(s, g)
  <2>1. /\ Statements(r) = Down(g)
        /\ DOMAIN Statements(r) = 1..Len(Statements(r))
        /\ Len(Statements(r)) \in Nat
    BY Parts, Current
  <2>2. runner[r].at \in DOMAIN Down(g)
    BY <2>1, Parts DEF TypeOK
  <2> QED BY <2>1, <2>2, <1>3, DownsFit
<1> HIDE DEF g
<1>5. RecordedStands'
  <2> SUFFICES ASSUME NEW m \in recorded \ undone, NEW x \in Made(m) PROVE Standing(x)'
    BY DEF RecordedStands, Made
  <2>1. Standing(x) /\ m \in 1..13 /\ m <= g /\ m # g
    BY <1>1, <1>2, <1>3, Parts DEF RecordedStands
  <2>2. Home(x) = m
    BY <2>1, MadeIs, UpFits DEF Fits
  <2>3. ~(Home(x) >= g)
    BY <2>1, <2>2, <1>3
  <2>4. CASE x \in db
    <3>1. x \in db' \/ x \in s.drops
      BY <2>4, EffectIs
    <3>2. x \in s.drops => x \in Dropped \/ (x = Table("users_password") /\ 4 \in undone)
      BY <2>3, <1>2, <1>4, DroppedIs DEF DownFits
    <3> QED BY <3>1, <3>2, <1>2 DEF Standing, Dropped
  <2>5. CASE x \notin db
    BY <2>1, <2>5, <1>2 DEF Standing, Dropped
  <2> QED BY <2>4, <2>5
<1>6. UsersWhole'
  <2>1. \A c \in UserColumns : Standing(c)'
    BY <1>2, DroppedIs DEF DroppedThings, Standing, Dropped
  <2>2. Table("users") \in db => Table("users") \in db'
    BY <1>4, EffectIs DEF DownFits
  <2>3. UserColumns \cap s.makes # {} => Table("users") \in db
    BY <1>4 DEF DownFits, Fails
  <2>4. UserColumns \cap db' # {} => UserColumns \cap db # {} \/ UserColumns \cap s.makes # {}
    BY EffectIs
  <2> QED BY <2>1, <2>2, <2>3, <2>4, Parts DEF UsersWhole
<1> QED BY <1>5, <1>6

(* A clean run's next statement does not fail. *)
LEMMA CleanSucceeds ==
  ASSUME IInv, NEW r \in Runner, Running(r), runner[r].clean, runner[r].todo # {},
         NEW m, m = Least(runner[r].todo), NEW i, i = runner[r].at, i \in DOMAIN Up(m),
         NEW s, s = Up(m)[i]
  PROVE  ~Fails(s)
<1>1. /\ CleanRun(r) /\ Process(r) /\ runner[r].does = "up" /\ undone = {} /\ ~runner[r].failed
      /\ 1..13 \ runner[r].todo \subseteq recorded /\ runner[r].todo \cap recorded = {}
  BY Parts DEF CleanRun, Process
<1>2. /\ m \in 1..13 /\ m \in runner[r].todo /\ (\A j \in runner[r].todo : m <= j) /\ Statements(r) = Up(m)
      /\ i \in Nat \ {0}
  BY <1>1, Parts, Current DEF TypeOK
<1>3. DoneSoFar(r)
  BY <1>1 DEF Process, Working, Going
<1>4. i \in Ahead(r, m)
  BY <1>2 DEF Ahead, Up
<1>5. ~s.tolerant => s.makes \cap db = {}
  BY <1>1, <1>2, <1>4 DEF CleanRun, Up
<1>6. s.blockers \cap db = {}
  BY <1>1, <1>2, UpFits DEF Fits, CleanRun
<1>7. ASSUME NEW x \in s.needs PROVE x \in db
  <2>1. MadeBefore(x, m, i) /\ (x \in DroppedThings => m = 11 \/ (m = 8 /\ x = Column("users.password_id")))
    BY <1>2, NeedsMet DEF Met
  <2>2. Standing(x)
    <3>1. ASSUME NEW j \in 1..13, j < m, x \in Made(j) PROVE Standing(x)
      BY <3>1, <1>1, <1>2, Parts DEF RecordedStands
    <3>2. ASSUME NEW k \in DOMAIN Up(m), k < i, x \in Up(m)[k].makes PROVE Standing(x)
      <4>0. DOMAIN Up(m) = 1..Len(Up(m)) /\ Len(Up(m)) \in Nat
        BY <1>2, UpSizes DEF Sized
      <4>1. k \in 1..runner[r].at - 1
        BY <4>0, <3>2, <1>2
      <4> QED BY <4>1, <3>2, <1>2, <1>3 DEF DoneSoFar
    <3> QED BY <2>1, <3>1, <3>2 DEF MadeBefore
  <2>3. CASE m = 11 /\ x \in Dropped
    BY <2>3, <1>1, <1>4, <1>2, UpIs DEF CleanRun
  <2>4. CASE m = 8
    <3>1. 11 \in runner[r].todo
      BY <2>4, <1>1, <1>2, Parts DEF InOrder
    <3>2. 3 \in Ahead(r, 11)
      BY <2>4, <1>2, IndexIsThird DEF Ahead, Up
    <3>3. ~Refactoring
      BY <3>1, <3>2, <1>1, IndexIsThird DEF CleanRun, Refactoring, Up
    <3> QED BY <2>2, <3>3, <1>1 DEF Standing
  <2>5. CASE x \notin Dropped
    BY <2>2, <2>5, <1>1 DEF Standing
  <2> QED BY <2>1, <2>3, <2>4, <2>5, DroppedIs
<1> QED BY <1>5, <1>6, <1>7 DEF Fails

(* A statement is executed: what stood stands, unless an undo takes it away, what
   a run has done so far stands with it, and a clean run goes on cleanly. *)
LEMMA ExecuteStep == ASSUME IInv, NEW r \in Runner, Execute(r) PROVE IInv'
<1> DEFINE m == Least(runner[r].todo)  i == runner[r].at  u == Statements(r)  s == u[i]
           failed == runner[r].failed \/ Fails(s)
           goesOn == i < Len(u) /\ s.together /\ u[i + 1].together
           p == IF failed /\ ~goesOn THEN [runner[r] EXCEPT !.does = "none", !.end = "failed"]
                ELSE [runner[r] EXCEPT !.at = i + 1, !.failed = failed]
<1>1. /\ Running(r) /\ runner[r].todo # {} /\ i <= Len(u) /\ Process(r) /\ Going(r) /\ runner[r] \in Types
      /\ db' = (IF Fails(s) THEN db ELSE Effect(s)) /\ UNCHANGED <<recorded, runs, undone>>
  BY Parts, TypeIs DEF Execute, Process, Working
<1>2. /\ m \in 1..13 /\ m \in runner[r].todo /\ (\A j \in runner[r].todo : m <= j)
      /\ (runner[r].does = "up" => u = Up(m)) /\ runner[r].does \in {"up", "down"}
      /\ Len(u) \in Nat /\ i \in 1..Len(u) /\ i \in DOMAIN u
  <2>1. /\ m \in 1..13 /\ m \in runner[r].todo /\ (\A j \in runner[r].todo : m <= j)
        /\ (runner[r].does = "up" => u = Up(m)) /\ runner[r].does \in {"up", "down"}
        /\ Len(u) \in Nat /\ DOMAIN u = 1..Len(u)
    BY <1>1, Parts, Current
  <2>2. i \in Nat \ {0}
    BY <1>1 DEF Types
  <2> QED BY <1>1, <2>1, <2>2
<1>3. runner' = [runner EXCEPT ![r] = p]
  BY Parts DEF Execute, TypeOK
<1>4. failed \in BOOLEAN /\ i \in Nat \ {0} /\ i + 1 \in Nat \ {0}
  BY <1>1, <1>2 DEF Types
<1> HIDE DEF failed, goesOn, s, m, i, u
<1>5. /\ p \in Types /\ p.clean = runner[r].clean /\ p.todo = runner[r].todo
      /\ (failed /\ ~goesOn => p.does = "none" /\ p.end = "failed")
      /\ (~failed \/ goesOn => p.does = runner[r].does /\ p.at = i + 1 /\ p.failed = failed /\ p.end = runner[r].end)
  BY <1>1, <1>4 DEF Types
<1> HIDE DEF p
<1>6. runner'[r] = p /\ (\A q \in Runner \ {r} : runner'[q] = runner[q]) /\ runner' \in [Runner -> Types]
  BY <1>3, <1>5, Parts, TypeIs
<1>7. TypeOK' /\ InOrder'
  BY <1>1, <1>6, Parts DEF TypeOK, Types, InOrder
<1>8. \A q \in Runner \ {r} : Same(q) /\ (Running(q)' = Running(q))
  BY <1>6 DEF Same, Running
<1>9. runner[r].does = "up" => Stays /\ UsersWhole' /\ (~Fails(s) => \A x \in s.makes : Standing(x)')
  <2>1. CASE Fails(s)
    BY <2>1, <1>1, Parts, StaysWithoutStatement, UsersStayWhole
  <2>2. CASE ~Fails(s) /\ runner[r].does = "up"
    <3>1. s = Up(m)[i] /\ i \in DOMAIN Up(m) /\ m = Least(runner[r].todo) /\ i = runner[r].at
      BY <2>2, <1>2 DEF s, m, i
    <3> QED BY <2>2, <3>1, <1>1, UpKeeps
  <2> QED BY <2>1, <2>2
<1>10. RecordedStands' /\ UsersWhole'
  <2>1. CASE runner[r].does = "up"
    BY <2>1, <1>1, <1>9, Parts, RecordedStay
  <2>2. CASE Fails(s)
    BY <2>2, <1>1, Parts, StaysWithoutStatement, UsersStayWhole, RecordedStay
  <2>3. CASE ~Fails(s) /\ runner[r].does = "down"
    <3>1. s = Statements(r)[runner[r].at] /\ runner[r].at <= Len(Statements(r))
      BY <1>1 DEF s, u, i
    <3> QED BY <2>3, <3>1, <1>1, DownKeeps
  <2> QED BY <2>1, <2>2, <2>3, <1>2
<1>11. \A q \in Runner \ {r} : Process(q)'
  <2>1. CASE runner[r].does = "up"
    <3>1. \A q \in Runner \ {r} : runner[q].does # "down"
      BY <1>1, Parts DEF Process, Alone
    <3> QED BY <2>1, <3>1, <1>1, <1>8, <1>9, Parts, OtherProcess
  <2>2. CASE runner[r].does = "down"
    <3>1. \A q \in Runner \ {r} : ~Running(q)
      BY <2>2, <1>1 DEF Process, Alone
    <3> QED BY <3>1, <1>6, <1>8 DEF Process, Working, Running
  <2> QED BY <2>1, <2>2, <1>2
<1>12. Process(r)'
  <2>1. CASE failed /\ ~goesOn
    BY <2>1, <1>5, <1>6 DEF Process, Working, Running
  <2>2. CASE ~failed \/ goesOn
    <3>1. /\ runner'[r].does = runner[r].does
          /\ runner'[r].at = i + 1
          /\ runner'[r].failed = failed
          /\ runner'[r].todo = runner[r].todo
      BY <2>2, <1>5, <1>6
    <3>2. Statements(r)' = u
      BY <3>1 DEF Statements, u
    <3>3. failed => i + 1 <= Len(u) /\ u[i + 1].together
      BY <2>2, <1>2 DEF goesOn
    <3>4. ASSUME runner[r].does = "up", ~failed PROVE DoneSoFar(r)'
      <4>1. DoneSoFar(r) /\ ~Fails(s)
        BY <3>4, <1>1 DEF Going, failed
      <4>2. \A x \in s.makes : Standing(x)'
        BY <4>1, <3>4, <1>9
      <4>3. ASSUME NEW k \in 1..(i + 1) - 1, NEW x \in u[k].makes PROVE Standing(x)'
        <5>1. CASE k = i
          BY <5>1, <4>2, <4>3 DEF s
        <5>2. CASE k # i
          <6>1. k \in 1..runner[r].at - 1
            BY <5>2, <1>4 DEF i
          <6> QED BY <6>1, <4>1, <3>4, <4>3, <1>9 DEF DoneSoFar, Stays, u
        <5> QED BY <5>1, <5>2
      <4> QED BY <4>3, <3>1, <3>2 DEF DoneSoFar
    <3>5. Going(r)'
      BY <1>1, <1>2, <3>1, <3>2, <3>3, <3>4 DEF Going
    <3>6. Alone(r)' = Alone(r)
      BY <1>8 DEF Alone
    <3> QED BY <1>1, <3>1, <3>5, <3>6 DEF Process, Working
  <2> QED BY <2>1, <2>2
<1>13. runner[r].clean => runner[r].does = "up" /\ ~Fails(s) /\ ~failed
  <2> SUFFICES ASSUME runner[r].clean PROVE runner[r].does = "up" /\ ~Fails(s) /\ ~failed
    OBVIOUS
  <2>1. runner[r].does = "up" /\ ~runner[r].failed
    BY <1>1, Parts DEF CleanRun
  <2>2. s = Up(m)[i] /\ i \in DOMAIN Up(m) /\ m = Least(runner[r].todo) /\ i = runner[r].at
    BY <2>1, <1>2 DEF s, m, i
  <2>3. ~Fails(s)
    BY <2>2, <1>1, CleanSucceeds
  <2> QED BY <2>1, <2>3 DEF failed
<1>14. ASSUME NEW q \in Runner, Running(q)', runner'[q].clean PROVE CleanRun(q)'
  <2>1. q = r
    <3>1. CASE q # r
      BY <3>1, <1>1, <1>6, <1>8, <1>14, Parts DEF CleanRun, Alone
    <3> QED BY <3>1
  <2>2. CleanRun(r) /\ runner[r].does = "up" /\ ~Fails(s) /\ ~failed /\ u = Up(m) /\ s = Up(m)[i]
    BY <2>1, <1>1, <1>2, <1>5, <1>6, <1>13, <1>14, Parts DEF s
  <2>3. /\ runner'[r].does = "up"
        /\ runner'[r].at = i + 1
        /\ ~runner'[r].failed
        /\ runner'[r].todo = runner[r].todo
    BY <2>2, <1>5, <1>6
  <2>4. db' = Effect(s)
    BY <2>2, <1>1
  <2>5. ASSUME NEW n \in 1..13, NEW j \in Ahead(r, n)'
        PROVE  j \in Ahead(r, n) /\ j \in DOMAIN Up(n) /\ (n = m => j > i)
    <3>1. j \in DOMAIN Up(n) /\ (n = m => j >= i + 1)
      BY <2>3 DEF Ahead, Up, m
    <3>2. DOMAIN Up(n) = 1..Len(Up(n)) /\ Len(Up(n)) \in Nat
      BY UpSizes DEF Sized
    <3>3. j \in Nat
      BY <3>1, <3>2
    <3>4. n = m => j > i
      BY <3>1, <3>3, <1>4
    <3>5. n = m => j >= runner[r].at
      BY <3>3, <3>4, <1>4 DEF i
    <3> QED BY <3>1, <3>4, <3>5 DEF Ahead, Up, m
  <2>7. ASSUME NEW n \in runner[r].todo, NEW j \in Ahead(r, n)', ~Up(n)[j].tolerant
        PROVE  Up(n)[j].makes \cap db' = {}
    <3>0. n \in 1..13
      BY <2>7, <1>1 DEF Types
    <3>1. Up(n)[j].makes \cap db = {} /\ j \in DOMAIN Up(n) /\ n \in 1..13
      BY <2>2, <2>5, <2>7, <3>0 DEF CleanRun, Up
    <3>2. Up(n)[j].makes \cap s.makes = {}
      <4>1. CASE n = m
        BY <4>1, <2>2, <2>5, <2>7, <3>1, <1>2, Distinct
      <4>2. CASE n # m
        <5>1. (\A x \in Up(n)[j].makes : Home(x) = n) /\ \A x \in s.makes : Home(x) = m
          BY <3>1, <2>2, <1>2, UpFits DEF Fits
        <5> QED BY <5>1, <4>2
      <4> QED BY <4>1, <4>2
    <3> QED BY <3>1, <3>2, <2>4, EffectIs
  <2>8. ASSUME m = 11, NEW j \in Ahead(r, 11)' PROVE Up(11)[j].needs \cap Dropped \subseteq db'
    <3>1. Up(11)[j].needs \cap Dropped \subseteq db
      BY <2>2, <2>5, <2>8, <1>1, UpIs DEF CleanRun, m
    <3>2. s.drops \cap Up(11)[j].needs = {}
      BY <2>2, <2>5, <2>8, <1>2, DropsUnneeded
    <3> QED BY <3>1, <3>2, <2>4, EffectIs
  <2>9. Alone(r)' /\ undone' = {} /\ runner[r].todo \cap recorded' = {}
    BY <2>2, <1>1, <1>8 DEF CleanRun, Alone
  <2>12. ResetRow \notin db'
    <3>1. ResetRow \notin s.makes
      BY <2>2, <1>2, UpFits DEF Fits
    <3> QED BY <3>1, <2>2, <2>4, EffectIs DEF CleanRun
  <2>10. \A n \in runner[r].todo : \A j \in Ahead(r, n)' :
           ~Migration[n].up[j].tolerant => Migration[n].up[j].makes \cap db' = {}
    BY <2>7 DEF Up
  <2>11. m = 11 => \A j \in Ahead(r, 11)' : RefactorUserToAccount.up[j].needs \cap Dropped' \subseteq db'
    BY <2>8, UpIs DEF Dropped
  <2> QED BY <2>1, <2>3, <2>9, <2>10, <2>11, <2>12 DEF CleanRun, m
<1>15. CleanRunsDoNotFail'
  <2>1. runner'[r].end = "failed" => ~runner'[r].clean
    BY <1>1, <1>5, <1>6, <1>13, Parts DEF CleanRunsDoNotFail
  <2> QED BY <2>1, <1>6, Parts DEF CleanRunsDoNotFail
<1> QED BY <1>7, <1>10, <1>11, <1>12, <1>14, <1>15 DEF IInv

(* Resets are stored: nothing is taken away, and no run is clean any more. *)
LEMMA UseStep == ASSUME IInv, Use PROVE IInv'
<1>1. /\ db' = db \cup {ResetRow} /\ UNCHANGED <<recorded, runs, undone>>
      /\ runner' = [r \in Runner |-> [runner[r] EXCEPT !.clean = FALSE]]
  BY DEF Use
<1>2. \A q \in Runner : Same(q) /\ runner'[q].clean = FALSE /\ runner'[q] \in Types
  <2> SUFFICES ASSUME NEW q \in Runner
               PROVE Same(q) /\ runner'[q].clean = FALSE /\ runner'[q] \in Types
    OBVIOUS
  <2>1. runner'[q] = [runner[q] EXCEPT !.clean = FALSE] /\ runner[q] \in Types
    BY <1>1, Parts, TypeIs
  <2> QED BY <2>1 DEF Same, Types
<1>3. TypeOK' /\ InOrder'
  BY <1>1, <1>2, Parts DEF TypeOK, Types, InOrder
<1>4. Stays
  <2>1. Refactoring => Refactoring'
    BY <1>1 DEF Refactoring
  <2> QED BY <1>1, <2>1 DEF Stays, Standing, Dropped
<1>5. RecordedStands' /\ UsersWhole'
  <2>1. ResetRow # Table("users") /\ ResetRow \notin UserColumns
    BY DEF ResetRow, Table, UserColumns, Column
  <2> QED BY <2>1, <1>1, <1>4, Parts, RecordedStay DEF UsersWhole, Stays
<1>6. ASSUME NEW q \in Runner PROVE Process(q)'
  <2>1. CASE runner[q].does = "down"
    <3>1. /\ Running(q)' = Running(q) /\ Working(q)' = Working(q) /\ Statements(q)' = Statements(q)
          /\ Alone(q)' = Alone(q)
      BY <1>2 DEF Same, Running, Working, Statements, Alone
    <3>2. Going(q) => Going(q)'
      BY <2>1, <3>1, <1>1, <1>2 DEF Same, Going
    <3> QED BY <2>1, <3>1, <3>2, <1>1, <1>2, Parts DEF Same, Process
  <2>2. CASE runner[q].does # "down"
    BY <2>2, <1>1, <1>2, <1>4, Parts, OtherProcess
  <2> QED BY <2>1, <2>2
<1> QED BY <1>2, <1>3, <1>5, <1>6 DEF IInv, CleanRunsDoNotFail

-----------------------------------------------------------------------------
(* Theorems.                                                               *)

(* IInv holds in every state. *)
THEOREM Inductive == Spec => []IInv
<1>1. IInv /\ [Next]_vars => IInv'
  <2> SUFFICES ASSUME IInv, [Next]_vars PROVE IInv'
    OBVIOUS
  <2>1. CASE UNCHANGED vars
    <3>1. UNCHANGED <<db, recorded, runner, runs, undone>>
      BY <2>1 DEF vars
    <3>2. TypeOK' /\ InOrder' /\ CleanRunsDoNotFail'
      BY <3>1, Parts DEF TypeOK, InOrder, CleanRunsDoNotFail
    <3>3. RecordedStands' /\ UsersWhole'
      BY <3>1, Parts DEF RecordedStands, UsersWhole, Standing, Refactoring
    <3>4. ASSUME NEW r \in Runner
          PROVE /\ Running(r)' = Running(r) /\ Working(r)' = Working(r) /\ Alone(r)' = Alone(r)
                /\ Statements(r)' = Statements(r)
      BY <3>1 DEF Running, Working, Alone, Statements
    <3>5. ASSUME NEW r \in Runner PROVE Process(r)'
      <4>1. Process(r)
        BY Parts
      <4>2. Going(r)' = Going(r) /\ DoneSoFar(r)' = DoneSoFar(r)
        BY <3>1, <3>4 DEF Going, DoneSoFar, Statements, Running, Standing, Refactoring
      <4> QED BY <3>1, <3>4, <4>1, <4>2 DEF Process
    <3>6. ASSUME NEW r \in Runner, Running(r)', runner'[r].clean PROVE CleanRun(r)'
      <4>1. CleanRun(r)
        BY <3>1, <3>4, <3>6, Parts
      <4> QED BY <3>1, <3>4, <4>1 DEF CleanRun, Ahead, Statements
    <3> QED BY <3>2, <3>3, <3>5, <3>6 DEF IInv
  <2>2. CASE Next
    BY <2>2, UseStep, RunStep, UndoStep, ExecuteStep, RecordStep, FinishStep, CutOffStep DEF Next
  <2> QED BY <2>1, <2>2
<1> QED BY <1>1, Initially, PTL DEF Spec

(* Every variable keeps its type. *)
THEOREM TypeCorrect == Spec => []TypeOK
<1>1. IInv => TypeOK
  BY DEF IInv
<1> QED BY <1>1, Inductive, PTL

(* Whatever runs overlap, are cut off or undone: a recorded migration that was not
   undone has made all it makes, but for what refactorUserToAccount drops and, once
   createUserTable was undone, the table of the passwords. *)
THEOREM RecordedApplied == Spec => []RecordedIsApplied
<1>1. IInv => RecordedIsApplied
  BY DEF IInv, RecordedStands, RecordedIsApplied, Standing
<1> QED BY <1>1, Inductive, PTL

(* A run that begins on whole migrations, alone, before any undo and on a database
   without resets does not fail unless another one, or a reset, comes between. *)
THEOREM CleanRunsSucceed == Spec => []CleanRunsDoNotFail
<1>1. IInv => CleanRunsDoNotFail
  BY DEF IInv
<1> QED BY <1>1, Inductive, PTL

(* What is recorded is always the first so many migrations: runs that overlap,
   are cut off or are undone leave no gap (TypeORM runs what is pending in the
   order of the timestamps and undoes the last one). *)
THEOREM NoGaps ==
  Spec => [](\A m \in recorded : \A j \in DOMAIN Migration : j < m => j \in recorded)
<1>1. IInv => \A m \in recorded : \A j \in DOMAIN Migration : j < m => j \in recorded
  BY DEF IInv, InOrder
<1> QED BY <1>1, Inductive, PTL

(* A run that ends without failure, and what it leaves behind. *)
EndsDone(r) == runner[r].does = "up" /\ runner[r].end # "done" /\ runner'[r].end = "done"
EndsWhole ==
  \A r \in Runner : EndsDone(r) =>
    /\ recorded' = DOMAIN Migration
    /\ undone' = {} => \A m \in DOMAIN Migration : Made(m) \ Dropped \subseteq db'

(* The start of the service that goes on after migration:run has the whole schema:
   when a run ends without failure every migration is recorded, those another
   process recorded meanwhile too, and, nothing having been undone, all that any of
   them makes is there, but for what refactorUserToAccount drops. *)
THEOREM DoneIsWhole == Spec => [][EndsWhole]_vars
<1>1. ASSUME IInv, [Next]_vars PROVE [EndsWhole]_vars
  <2> SUFFICES ASSUME Next, NEW r \in Runner, EndsDone(r)
               PROVE /\ recorded' = DOMAIN Migration
                     /\ undone' = {} => \A m \in DOMAIN Migration : Made(m) \ Dropped \subseteq db'
    BY <1>1 DEF EndsWhole
  <2>0. runner \in [Runner -> Types] /\ recorded \subseteq 1..13
    BY <1>1, TypeIs DEF IInv
  <2>1. PICK q \in Runner : Run(q) \/ Undo(q) \/ Execute(q) \/ Record(q) \/ Finish(q) \/ CutOff(q)
    <3>1. CASE Use
      BY <2>0, <3>1 DEF Use, EndsDone, Types
    <3> QED BY <3>1 DEF Next
  <2>2. Finish(q) /\ q = r
    <3>1. CASE Run(q) \/ Undo(q)
      <4>1. PICK does, todo : Begin(q, does, todo)
        BY <3>1 DEF Run, Undo
      <4>2. PICK clean : runner' = [p \in Runner |->
              IF p = q THEN [Idle EXCEPT !.does = does, !.todo = todo, !.clean = clean]
              ELSE [runner[p] EXCEPT !.clean = FALSE]]
        BY <4>1 DEF Begin
      <4>3. runner'[r].end = "none" \/ runner'[r].end = runner[r].end
        BY <2>0, <4>2 DEF Idle, Types
      <4> QED BY <4>3 DEF EndsDone
    <3>2. CASE Execute(q)
      <4>1. runner'[r].end = runner[r].end \/ runner'[r].end = "failed"
        BY <2>0, <3>2 DEF Execute, Types
      <4> QED BY <4>1 DEF EndsDone
    <3>3. CASE Record(q) \/ CutOff(q)
      BY <2>0, <3>3 DEF Record, CutOff, Idle, EndsDone, Types
    <3>4. CASE Finish(q)
      BY <2>0, <3>4 DEF Finish, EndsDone, Types
    <3> QED BY <2>1, <3>1, <3>2, <3>3, <3>4
  <2>3. runner[r].todo = {} /\ UNCHANGED <<db, recorded, undone>> /\ runner[r].does = "up"
    BY <2>2 DEF Finish, EndsDone
  <2>4. recorded = 1..13
    BY <1>1, <2>0, <2>3 DEF IInv, Process
  <2>5. ASSUME undone = {}, NEW m \in 1..13, NEW x \in Made(m), x \notin Dropped PROVE x \in db
    BY <1>1, <2>4, <2>5 DEF IInv, RecordedStands, Standing
  <2> QED BY <2>3, <2>4, <2>5
<1> QED BY <1>1, Inductive, PTL DEF Spec
=============================================================================
