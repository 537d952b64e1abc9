# Specification and proofs of nestjs-microservice-boilerplate

TLA+ modules that model the service under `src/src`, configurations that
model-check them with TLC, and theorems about them proved with TLAPS.
`PROJECT.json` lists the components, the runs, the source lines each
definition stands for, the hazards and the theorems.

## 1. The system

The service is a NestJS application. A controller hands a request to a use
case, the use case reads and saves *entities* (validated by a schema when they
are built) through repositories, and an interceptor chain with an exception
filter turns failures into answers. Everything that lasts is in PostgreSQL
(users, accounts, roles, permissions, reset tokens), MongoDB (cats) and Redis
(revoked tokens).

Handlers are asynchronous functions in one Node process, and the service may
run as several processes on one database: between two round trips of a handler
any other handler may run. **No use case opens a transaction around its reads
and its save.** That one fact is the source of most hazards below.

### Inventory

| Component | State it keeps | Operations | What makes it hard | What makes it correct |
|---|---|---|---|---|
| Roles, permissions, grants (`core/role`, `core/permission`) | tables roles, permissions, permissions_roles; soft-deleted rows | create, update, delete of both; add and revoke grants | whole documents are saved as read; checks before writes; names stay taken by deleted rows | what the guard allows goes back to a grant; deletions last; no grant on a deleted row |
| Authorization guard | none (reads accounts_roles and the above) | decides every request once | its decision may be stale | a permission only through a live role |
| Users and accounts (`core/user`, `core/account`) | tables users, accounts, accounts_roles | create, update, delete, change password | two saves without a transaction; second read after the save | one user per account; no mail for nobody; a save takes back only what it had read before; answers tell what happened |
| PostgreSQL migrations (`infra/database/postgres/migrations`) | the schema, the seeds, the table of migrations run | run, undo | no transaction around a migration; every start runs them, on a database in use | what is recorded is there |
| PostgreSQL repository | none | load, difference, write | a save is a read and a write | constraints roll back whole saves |
| Login, refresh, logout, authentication middleware | tokens held by clients; revoked tokens in Redis | sign, verify, revoke | expiry against revocation, a middleware that does not return, lookups without a timeout | a revoked token is refused while it would be valid |
| Password reset | table reset_password | send mail, confirm | three steps without a transaction, repeated requests | a row that counts has a token that works; a mail has its row; a second row only from an overlap |
| Circuit breaker decorator | registry of breakers | fire, events, fallback | shared per class and group, late results | each method runs its own code; open means refused; it recovers |
| Worker decorators | a thread or child process per call | run, time out | answer against timeout | not modelled: used by no class |
| Request pipeline | per-request tracing and timers | guard, interceptors, timeout, filter | answer sent while the handler goes on | every request is answered, and counted and traced as answered |
| Outgoing HTTP | retry counters | request with retries | repeating what was done | bounded retries |
| Events and e-mail | none | emit, deliver | fire and forget | no mail before the save |
| Cats and the Mongo repository | collection cats | create, update, delete, list | as for PostgreSQL, one document; a write that finds nothing is not noticed | deletions last; an answer is true |
| Pagination, search, sort, collections | none | pure functions | boundaries; the list changes between two pages | a list shows what was asked for; pages miss nobody |
| Caches (Redis, memory) | keys with an expiry | set, get | expiry | part of the sessions |
| Google sign-in | none | redirect, callback | round trips to Google | part of the sessions |
| Health, metrics, logging, tracing, i18n, secrets, start-up | configuration, clients | input and output | | not modelled |

`PROJECT.json` lists the hazards of all of them at their lines, with the
properties that would catch each going wrong.

## 2. What is modelled

### AccessControl: roles, permissions, grants, guard

State: `roles`, `permissions` and `held` are the three tables (a row is
absent, live or soft-deleted); `req[c]` is what the handler of request slot
`c` holds between two round trips: the operation, the step it is at, and its
document. For a role operation the document is the role's name, its `deletedAt`
and `copy`, the permission list as last read or edited, with the *names* as
read, because the save writes those too. `granted` and `borne` are history
variables for the properties.

Actions: one `Start...` per endpoint (the guard's check, and input), then one
action per round trip and outcome:

| Code | Actions |
|---|---|
| role-create | `StartRoleCreate`, `LoadRole`, `Saved` or `SaveRejected` |
| role-update | `StartRoleUpdate`, `RoleNotFound` or `ReadRoleForUpdate`, `LoadRole`, `Saved` or `SaveRejected`, `Reread` |
| role-delete | `StartRoleDelete`, `RoleNotFound` or `ReadRoleForDelete` (404, 409, or on to the save), `LoadRole`, `Saved` or `SaveRejected` |
| role-add-permission, role-delete-permission | `StartRoleGrants`, `RoleNotFound` or `ReadRoleForGrants`, `ReadPermissionsToAdd` or `ReadPermissionsToRemove`, `LoadRole`, `Saved` or `SaveRejected` |
| permission-create | `StartPermissionCreate`, `ReadPermissionName`, `LoadPermission`, `Saved` or `SaveRejected` |
| permission-update | `StartPermissionUpdate`, `PermissionNotFound` or `ReadPermissionForUpdate`, `ExistsOnUpdate`, `UpdatePermission` |
| permission-delete | `StartPermissionDelete`, `PermissionNotFound` or `ReadPermissionForDelete`, `LoadPermission`, `Saved` or `SaveRejected` |

A save (`repository.create`) is two steps because TypeORM makes it so: it first
loads the rows it is about to write and computes the difference (`plan`), then
writes the difference in one transaction, which a UNIQUE or PRIMARY KEY
constraint rolls back. A role document replaces the role's join rows by its
list and cascades inserts and updates to the permissions in it. The rules of
that difference are the library's, not the repository's: `Changed` is marked
external.

`RoleBasedAccess` is the abstract specification: names and a relation, changed
by operations that take effect at once.

### UserAccounts: accounts and users

State: `accounts` (with the roles of each), `users`, `liveRoles` (which roles
AccessControl has left live), and `req[c]` as above. `abandoned`, `welcomed` and
the field `stale` of a request are history.

| Code | Actions |
|---|---|
| user-create | `StartUserCreate`, `FindRoles`, `FindEmail`, `FindUsername`, `InsertAccount` or `AccountRejected`, `InsertUser`, `Welcome` |
| user-update | `StartUserUpdate`, `UserNotFound`, `UserWithoutRole` or `ReadForUpdate`, `LoadUser`, `SaveUser`, `Reread` |
| user-delete | `StartUserDelete`, `UserNotFound`, `UserWithoutRole` or `ReadForDelete`, `SoftRemove` |
| reset-password-send-email, as far as it saves the user it has read | `StartSendEmail`, `UserNotFound` or `ReadForReset`, `FindReset`, `LoadUser`, `SaveReset` |
| user-change-password | `StartChangePassword`, `UserNotFound` or `ChangePasswordFails` (the password relation is never loaded, so no user found gets further) |
| a query fails or the process stops | `Dropped`, at any step; what was saved stays |
| a role is deleted or comes back | `RoleChanges` |

A reset holds the whole user and its relation cascades, so a row inserted in
`reset_password` is also a save of the users table: it belongs here as much as
user-update does. `PasswordReset` has the other half of that use case.

`UserDirectory` is the abstract specification: who is entered under an e-mail,
which e-mails are reserved by an account whose user was never saved, which
users are listed and their profiles.

### Sessions: tokens, the middleware and the guard

State: the clock `now` in milliseconds, `tokens` in circulation, `cache` (what
Redis remembers of logged-out tokens and until when), `standing` (what the
tables say of a user, as one of four cases), `setting` (TOKEN_EXPIRATION as
digits, which Redis accepts, or with a unit, as `.env` has it) and the requests
in flight. `late` and `orphan` in a request are history. `StandingChanges` goes
from any case to any other: a deleted user comes back when a user-update or a
reset saves it as it was read before (UserAccounts shows when), and its tokens,
which nobody has revoked, are good again.

| Code | Actions |
|---|---|
| authentication.middleware | `CallWithoutToken`, `StartCall`, `Lookup` (Redis), `Verify` |
| authorization.guard | `Guard` |
| any handler; user-logout | `Handle`; `StartLogout`, `SetRevoked` |
| user-login | `StartLogin`, `FindUser` (ends in a TypeError: the password is not loaded) |
| user-refresh-token | `StartRefresh`, `VerifyRefresh`, `FindUser`, `Sign` |
| Google callback | `StartGoogle`, `RedirectGoogle` |
| a round trip fails; the timeout interceptor answers; the clock; the user changes | `Fails`; `TimesOut`; `Tick`; `StandingChanges` |

`next(error)` in the middleware answers the request and does not end the
middleware, which goes on and calls `next()` again: `Refuse` closes the way to
the handler, and a second refusal changes nothing. The timeout interceptor is
around handlers only, so `TimesOut` answers a request from the handler on, and
the handler goes on behind it. jwt.sign counts in seconds
and cuts, Redis counts milliseconds: `Second` says how many of the clock's
units a second has. `FirstTokens` are tokens signed as `TokenService.sign`
signs them; a login never gets as far as signing one.

### PasswordReset: rows, tokens, mails

State: the clock, `users`, `roleless` (users whose account has lost its roles),
`resets` in the order of insertion, `mails`, and the requests. `synchronized`
says whether the schema was built by TypeORM (`IS_LOCAL`) or by the migrations,
which point the foreign key of `reset_password` at `accounts`: there every
insert is refused. `sought` and `stale` are history.

| Code | Actions |
|---|---|
| reset-password-send-email | `StartSendEmail`, `FindUserByEmail`, `FindReset`, `SignAndBuild`, `LoadReset` and `SaveReset` (the two halves of a save), `SendMail` |
| reset-password-confirm | `ConfirmDiffering` or `StartConfirm`, `VerifyToken`, `FindUserToConfirm`, `ConfirmEnds` |
| a query fails or the process stops | `Dropped`, at any step |
| user-update, user-delete; role-delete; the clock | `UserChanges`; `RolesGo`; `Tick` |

The reset document holds the user and the relation cascades: a save writes the
user's columns that have come to differ since the user was read.

### CircuitBreaker: the registry and opossum's state machine

State per key (class and group): `bound` (the method the breaker was made for),
`state`, `pendingClose`, `warm`, `timer`, `window` (the buckets of the
statistics); per slot: the call it runs; `healthy` (methods succeed from now
on). `Fire` and `Reject` are the decorated method (registry, then
`breaker.fire`); `MethodSucceeds`, `MethodFails`, `TimesOut` and
`LateResultIgnored` the ends of a call; `HalfOpens`, `Tick` and `Heals` the
timers and the surroundings. The decorator sets the options and the registry;
the machine is the library's, so those definitions are marked external.

### Pipeline: interceptors, timeout, retries

One request at a time per slot: `Arrive`, `GuardRefuses` or `GuardPasses`,
`Enter` (the interceptors subscribe, the timer starts, the span opens), the
handler, which may call another service (`CallOut`, `ServiceSucceeds`,
`ServiceFails`, `Retry`), `HandlerEnds` (metrics, tracing, exception handler,
filter, in one synchronous step), or `TimesOut`, after which the handler goes
on and nobody hears of its end. `MetricOf` and `StatusOf` are the two
translations of an error into a status, one in the metrics interceptor and one
in the exception handler and the filter.

### Listing, MongoRepository, Cats

`Listing` is the way of a list request as operators: page and limit, sort and
search, the order of the checks, the translation into a filter of MongoDB and
of PostgreSQL, the order and the page. `MongoRepository` is what each operation
of the adapter finds in a collection and leaves in it. `Cats` is the state
machine over both:

| Code | Actions |
|---|---|
| cat-create | `Create` |
| cat-update | `ReadForUpdate`, `WriteUpdate`, `Reread`, `Leave` |
| cat-delete | `ReadForDelete`, `WriteDelete` |
| `createOrUpdate` of the repository | `ReadForUpsert`, `WriteUpsert` |
| `insertMany`, `updateMany`, `updateOne` | `Direct` |
| a client that lists page after page | `StartReading`, `ReadPage` |

The generic operations stand for other code that holds the repository: its
interface is what a use case may call. Every list request of `Queries` and
every sequence of commands of `Searches` is asked of the collection in each
quiet state. Each page is a query of its own and may order ties anew.
What `createOrUpdate` may be given is narrowed by `CatsAssumption` to the
attributes of a cat; nobody in the repository calls it.

### Migrations

The database is the set of tables, columns, indexes, constraints and seeds,
each a pair of its kind and its name; a statement needs, makes and drops some
of them and fails when what it needs is missing or what it makes is there.
`Migration` holds the thirteen migrations, up and down. `Run` finds out what is
pending once, `Execute` does a statement, `Record` writes the migration into
its table after the last one, `Undo` begins the newest one's `down`, `CutOff`
ends a process anywhere. `Use` is an earlier release in use: it stores a reset
(`ResetRow`), which the new foreign key of `refactorUserToAccount` is checked
against. Other rows that come from use are left out, since no statement fails
on them: the other constraints are added to tables that are new or empty, to
columns that are new and null, or to rows that had the same constraint before.
`IInv` is there for the proof only.

### Conventions

Definitions marked "Fault:" in their comment stand beside an action or operator
and have the form a plausible mistake would give it; `PROJECT.json` says which
property notices each. History variables and fields are marked as such and no
guard depends on them.

## 3. What TLC checks

| Run | Question | States |
|---|---|---|
| `access_overlap` | What survives when requests overlap freely? `IInv`, `GrantTrail`, `OnlyStaleCopiesUndelete`, `OnlyOutdatedPlansStrand` | 554,000 |
| `access_coordinated` | Do coordinated requests do what they promise? `CInv`, `AskedIsDone`, `Promise` (refinement of RoleBasedAccess) | 609,000 |
| `access_account_role` | Does an account always have a role, as its schema demands? No: `EveryAccountKeepsARole` is violated | |
| `users_overlap` | What survives overlap, failed queries and stops? `IInv`, `OneUserPerAccount`, `WelcomeIsForUsers`, `OnlyStaleSavesUndelete`, `OnlyStaleSavesTakeBack` | 226,000 |
| `users_coordinated` | Do coordinated requests do what they promise? `CInv`, `AnswersTell`, `Promise` (refinement of UserDirectory) | 147,000 |
| `sessions` | May a logged-out token, a refused request or a deleted user get to a handler? `IInv`, `RevokedIsRefused`, `RefusedIsNotHandled`, `DeletedUsersAreOut`. Is a request answered unless it hangs where no timer is? `AnsweredUnlessItHangs` (liveness) | 458,000 |
| `reset` | What have rows, tokens and mails to do with one another when requests overlap and stop? `IInv`, `FreshRowsAreUsable`, `MailedTokensAreKept`, `OnlyOverlapDuplicates`, `OnlyStaleResetsRevert` | 740,000 |
| `breaker` | Does a breaker rest while open, settle every call and recover? `Inv`, `RestsWhenOpen`, `EveryCallIsSettled`, `RecoversWhenHealthy` (the last two liveness) | 108,000 |
| `breaker_shared` | Has each decorated method its breaker, as the decorator says? No: `EachMethodHasABreaker` is violated | |
| `pipeline` | Is a request observed as it was answered, a service asked in measure, every request answered unless it hangs at the guard? `Inv`, `AskedInMeasure`, `EveryRequestIsAnswered` (liveness) | 359 |
| `cats` | Are deletions kept, answers true, pages complete, lists what was asked, also when every page orders ties anew? `DeletedStaysDeleted`, `UpdateAnswersTruly`, `PagesMissNobody`, `ReadsFindWhatWasAsked` | 889,000 |
| `migrations` | Is what is recorded there, and when does a run fail? `RecordedIsApplied`, `CleanRunsDoNotFail` | 627,000 |

Deadlock is not checked: a behaviour ends when its requests are used up.
`IInv` and `CInv` are the inductive invariants of section 4; that of Cats, a
conjunction of two properties of the run with what calls and readers know, was
checked on the instance of `cats` too.

### Bounds

- **AccessControl, UserAccounts**: 2 requests in flight and 3 in a behaviour: a
  request to disturb, one to overlap it, and one to see or build on the result.
  Three roles and three permissions, two of each seeded and a row to insert,
  two accounts, three names of each kind; `access_coordinated` adds a spelling
  that is not normalised. Three permissions are enough for a list to lose one
  member, gain one and keep one. UserAccounts: one seeded user and room for
  two, so that two user-creates compete for the one e-mail left or for one of
  the usernames; two columns, one of them required; role lists of one role, of
  two, and with a repetition. A list of names sent to add or revoke grants is a
  set in the model: naming a missing permission twice ends as two spellings of
  one name do, in a rejected save.
- **Sessions** (`MaxTime`, `MaxRequests`, `Second`, `Lifetime`): one user with a
  refresh token, 2 requests in flight and 3 in all (renew, log out, come back);
  a second is two units and a token lives one and a half seconds, so that the
  cut of the lifetime, of the time of issue and the expiry of the entry in Redis
  all fall between the same few ticks.
- **PasswordReset** (`MaxTime`, `MaxRequests`, lifetimes): one user (users do
  not meet in this module), 2 requests in flight and 3 in all; a row counts for
  2 ticks, a token for 3, saving takes at most 1, the exact case of
  `LifeAssumption`; with 4 ticks a row goes stale and another is made.
- **CircuitBreaker** (`MaxFires`): 2 calls in flight of two methods with one
  key, a volume of 3 within two buckets and at most 5 calls counted in them;
  the reset timeout (2) is shorter than a call's timeout (3), so that a call
  from before the breaker opened ends after it was half opened.
- **Pipeline**: requests share nothing, so one slot is enough; 4 ticks of timer
  and the code's 3 retries, so the timeout may come at each of them; one status
  of each kind: not retried, retried, and both a client's and a server's.
- **Cats, Listing** (`MaxCalls`, `MaxTime`, `DefaultLimit`, `MaxLimit`): three
  cats, two calls, pages of one, so that a page shifts by a deletion or a
  creation; texts of which one contains the other; requests that reach each
  status, including limits beyond the maximum, fractions, a repeated field, a
  segment without a colon and several values for one or two fields.
- **Migrations** (`MaxRuns`): all thirteen as they are, one permission of each
  kind, two processes, five runs or undos: enough for a run to be cut off, be
  repeated, be undone and be run again, with another beside it.

### Fairness

Stated where a property needs it and the code or its libraries provide it.
Sessions: weak fairness of `Resume(c)`, since the event loop runs what has come
back, and of `TimesOut(c)`, the timer of the interceptor. None for a round
trip: the Redis client queues commands while it is offline (`createClient({ url
})`, `infra/cache/redis/module.ts:16`), and neither its commands nor the
queries of the guard have a time limit. That is why `AnsweredUnlessItHangs`
excepts a request that stays at the middleware's lookup or at the guard for
ever; nothing is assumed of clients. CircuitBreaker: weak fairness of the
clock, of timers that are due and of methods that return (`Timers`); and strong
fairness of a call while the breaker is half open (`Traffic`), without which a
breaker nobody calls stays half open for ever. A method need not return.
Pipeline: weak fairness of entering and of the timer; none for the guard, the
handler or the other service, for which no timeout is set. The other modules
are safety specifications.

### The assumption of the coordinated runs

`Coordinated` is an assumption about the *clients*, not about the code, and it
is named because properties depend on it. In AccessControl: no two requests for
one role at a time, and permissions renamed or deleted while nothing else runs.
In UserAccounts: no two requests on one user at a time. Without it the
properties of the coordinated runs fail, by the races the hazards describe;
those are the ordinary lost updates of a service without transactions or
version columns, and no document of the repository says otherwise. **Nothing in
the code enforces it**: the coordinated runs and the theorems marked * say what
the use cases do for such clients and do not count as catching those races.
What holds of the races themselves is checked and proved without it:
`OnlyStaleCopiesUndelete`, `OnlyOutdatedPlansStrand`, `OnlyStaleSavesUndelete`,
`OnlyStaleSavesTakeBack`, `GrantTrail`.

### The findings

`AccountEntitySchema` requires an account to have a role
(`src/src/core/account/entity/account.ts:19`), role-delete checks that the role
holds no permissions and not that no account has it
(`src/src/core/role/use-cases/role-delete.ts:24`). Revoke the role's grants,
delete the role, and the account is left without one: `UserEntity` cannot be
built from its user any more, and updating or deleting that user answers 400
(`UserWithoutRole` in UserAccounts).

The documentation of the decorator says "It initializes a circuit breaker for
each method it decorates"
(`src/src/utils/decorators/circuit-breaker.decorator.ts:12`). The registry is
keyed by class and group (lines 29 to 34): the second decorated method of a
class fires the first one's breaker, which runs the first method's code with
the second one's arguments.

## 4. What is proved

For every value of the constants, that is any number of rows, names, requests
and slots, any lifetimes and thresholds, any lists and searches asked. The
theorems marked * are about coordinated requests (`Spec /\ Coordinated => ...`);
the others hold whatever overlaps:

| Module | Theorem | Property |
|---|---|---|
| `AccessControl_proofs` | `Inductive` | `IInv` |
| | `TypeCorrect` | `TypeOK` |
| | `GrantsAreTrailed` | `GrantTrail` |
| | `DeletionsAreFinal` | `OnlyStaleCopiesUndelete` |
| | `OnlyRacesStrand` | `OnlyOutdatedPlansStrand` |
| | `CoordinatedInductive` * | `CInv` |
| | `GrantsAreDone` * | `AskedIsDone` |
| | `Refinement` * | `Promise`: AccessControl implements RoleBasedAccess |
| `UserAccounts_proofs` | `Inductive` | `IInv` |
| | `TypeCorrect` | `TypeOK` |
| | `UsersHaveAccounts` | `OneUserPerAccount` |
| | `WelcomedAreUsers` | `WelcomeIsForUsers` |
| | `DeletionsAreFinal` | `OnlyStaleSavesUndelete` |
| | `SavesTakeNothingBack` | `OnlyStaleSavesTakeBack` |
| | `CoordinatedInductive` * | `CInv` |
| | `CoordinatedAnswers` * | `AnswersTell` |
| | `Refinement` * | `Promise`: UserAccounts implements UserDirectory |
| | `AddressesStand` | no account row changes or goes; who is entered under an e-mail stays so |
| | `AddressesAreLost` | the e-mail of an abandoned account is lost for good |
| `Sessions_proofs` | `Inductive` | `IInv` |
| | `TypeCorrect` | `TypeOK`, a part of `IInv` |
| | `LoggedOutStaysOut` | `RevokedIsRefused` |
| | `RefusalsStand` | `RefusedIsNotHandled` |
| | `DeletedStayOut` | `DeletedUsersAreOut` |
| | `RequestsAdvance` | safety half of `AnsweredUnlessItHangs` |
| `PasswordReset_proofs` | `Inductive` | `IInv` |
| | `TypeCorrect` | `TypeOK`, a part of `IInv` |
| | `CountedTokensWork` | `FreshRowsAreUsable` |
| | `MailsHaveRows` | `MailedTokensAreKept` |
| | `DuplicatesOverlap` | `OnlyOverlapDuplicates` |
| | `CascadeOnlyTakesBack` | `OnlyStaleResetsRevert` |
| `CircuitBreaker_proofs` | `PartsAgree` | `Inv` |
| | `OpenRests` | `RestsWhenOpen` |
| | `CalmIsForGood` | safety half of `RecoversWhenHealthy` |
| `Pipeline_proofs` | `Observation` | `Inv` |
| | `Measure` | `AskedInMeasure` |
| | `NobodyIsForgotten` | safety half of `EveryRequestIsAnswered` |
| `Cats_proofs` | `Inductive` | `IInv` |
| | `TypeCorrect` | `TypeOK`, a part of `IInv` |
| | `UpdatesAnswerTruly` | `UpdateAnswersTruly` |
| | `ReadersMissNobody` | `PagesMissNobody` |
| | `DeletionsStand` | `DeletedStaysDeleted` |
| | `ReadsFind` | `ReadsFindWhatWasAsked` |
| `Migrations_proofs` | `Inductive` | `IInv` |
| | `TypeCorrect` | `TypeOK`, a part of `IInv` |
| | `RecordedApplied` | `RecordedIsApplied` |
| | `CleanRunsSucceed` | `CleanRunsDoNotFail` |
| | `NoGaps` | the recorded migrations are the first so many |
| | `DoneIsWhole` | a run that ends without failure leaves the whole schema |

Assumptions, all evaluated by TLC on the instances of the runs:

- `ConstantsAssumption` of each module: the kinds of the constants.
- `SeedAssumption` of AccessControl and UserAccounts: seeds are rows whose
  grants and users refer to rows that exist, live ones in the case of grants.
- `LifeAssumption` of PasswordReset: a token lives at least as long as its row
  and the time to save it (30 minutes against the hour `.env` gives).
- `LimitAssumption` of Listing: a page has at least one document and by default
  no more than the maximum (10 and 100).
- `CatsAssumption`: the collection is finite, a list without a sort is sorted
  by creation, and what is created or changed are the attributes of a cat
  (which narrows `createOrUpdate`; nobody calls it). `AskingAssumption`: what
  is asked are sequences, and `id` is not among the fields the cats' `paginate`
  allows to be searched.
- `NamesAssumption` of Migrations: no permission is listed twice
  (`userPermissions` and `backofficePermissions` of `insertPermissions`).

**AccessControl.** `GrantTrail` (the guard allows only what was granted under a
name the row has borne) is not inductive: a stale document may link a
permission to a role long after the grant was revoked, so the invariant has to
say where every *copy* in every document comes from. `CopiesTrailed` says that
a copy is of a permission granted to that role, or of one that does not exist
yet and that this request alone is about to insert; `DocumentOf` says what a
document must hold at each step, in particular that the plan of a save inserts
every copied row that does not exist, which holds because rows are never
removed. The proof has one lemma per kind of step: `RequestAdvances` for the
steps that only change a document, `WriteKeeps` for those that write, and one
lemma for each action on top of them. `DeletionsAreFinal` needs `IInv` (a
document has its role or permission), that no step hands a request the document
of a deleted row (`Advance`), and that only holders write (`OnlyHoldersWrite`).
`OnlyRacesStrand` is about the plan: role-delete goes on only with a document
that lists no permission, and TypeORM's plan takes away the join rows the
document does not list, so a plan that is still the one a load would make
(`Outdated` is false) unlinks what came meanwhile and revives what it lists
(`DeletesNothingHeld`, `UpToDatePlansStrandNothing`). Left is a save between
load and commit.

*Coordinated.* `CInv` says that a request in flight *knows* its rows. Its role
is live (or absent, for a creation) under the name it read, each permission in
its list is live under the name copied or about to be inserted, the list is
what was read, plus or minus what was asked, and a plan is still the plan a
load would make now (`RoleKnown`, `PermissionKnown`). No two requests work on
one row (`Apart`), so no other request can change what one knows; that half of
the proof is one lemma per kind of write. Then a plan's links and unlinks are
exactly the difference to what was asked (`GrantsAreDone`), and under the
refinement mapping a save that commits is one operation of RoleBasedAccess: it
creates, renames or removes, grants or revokes. Every other step, and every
save that a constraint rolls back, is a stutter. The UNIQUE constraint of the
names gives that names are unique among live rows.

**UserAccounts.** `OneUserPerAccount` is a statement about the two saves of
user-create, so `DocumentOf` records which of the two rows exists at each step,
and `OwnRows` that the ids in flight are distinct (they are fresh UUIDs).
`WelcomeIsForUsers` follows because the request that sends the mail is at the
step where both rows exist, and no step removes a row or changes an e-mail.
`DeletionsAreFinal` is a statement about who holds a document of the user
(`Holds`): a find gives nobody a deleted one, and what a save writes are columns
of a document. `SavesTakeNothingBack` needs the second invariant that a request
whose user no other request has changed since it was read (`stale` is false) has
the row as it is under what it was sent, so that the difference TypeORM computes
names columns that were sent and no others.

*Coordinated.* `CInv` adds to it that no two accounts have one e-mail
(`EmailsUnique`, by the constraint, as the check before the save proves
nothing), that a user-create finds the rows it has saved as they were sent
(`EnteredAsAsked`), and that the document of a change is the row but for the
columns sent (`UpToDate`), since no other request works on that user
(`OwnUser`). So a save writes columns that were sent and no others, an answer
of 200 comes when they are there, and each save is one operation of
UserDirectory: inserting the account reserves the e-mail, inserting the user
enters it; the writes of a request dropped in between stay, as there.

*What lasts.* The table of the accounts only grows and no save of a user
touches its account (`TableSteps`), so whoever is entered under an e-mail stays
so (`AddressesStand`). That is also why a request dropped between the two saves
of user-create does harm that no later request repairs: its account keeps the
e-mail from being saved again, and nobody else can come to own it, as only the
request that made an account enters a user on it. `LostInv` says so of each
account in `abandoned`, and `AddressesAreLost` that it stays that way.

**Sessions.** `RevokedIsRefused` depends on two clocks that are cut
differently: the invariant says that no token expires later than one lifetime
from now, and so a token logged out, whose entry is kept for a whole lifetime
from the logout on, is no longer accepted when the entry goes. The second part
follows the request: one whose token had been logged out when Redis was asked
is already refused or has a token that is not accepted any more (`Lates`); the
same for one whose user was deleted before it started and has not been revived
since (`Orphans`; `StandingChanges` ends that when a save revives it).
`RefusedIsNotHandled` says of a refused request that it can only be at the step
after Redis, with `next` used up. `RequestsAdvance` counts what a request has
still before it (`Remaining`), of which every step but the timer's answer takes
some; that it ends with an answer needs that whoever has used up `next` was
answered (`ClosedAnswered`).

**PasswordReset.** A row counts from its insertion and a token from its
signature, so `HoldsToken` says how old a token may be that is not saved yet;
`FoundNone` says of a request that has found no row that every row which counts
was inserted after it had looked, which the clock cannot make false; `FoundRow`
that the token about to be mailed is in a row, and rows are never removed (no
confirmation gets as far as that). `CascadeOnlyTakesBack` needs a second invariant
(`AllCurrent`): a request whose user has not changed since it was read holds
the columns as they are, so the save finds none that differs.

**CircuitBreaker.** To `Inv` it is added that a call in flight has a breaker.
The interesting steps are the ends of calls from before the breaker changed
state: a failure in half open always opens it, since one that warms up is
closed. How many failures there are is not looked into; the theorems hold
whatever the statistics say. `CalmIsForGood` needs no more: with no unsound call
in flight nothing can fail, and a call that begins is sound.

**Pipeline.** What a request has asked of the other service and what the
interceptors have done follow from its step (`Sound`), a function of one
request alone. `NobodyIsForgotten` adds that who waits is before the
interceptors or timed (`Timed`) and counts its `Patience`, which a retry, a late
answer of the other service or another request leaves as it is.

**Cats.** One lemma says what any write of the repository may do to the
collection (`Writes`, `Evolves`): nothing leaves it, a marked document keeps
its mark and date, and only `createOrUpdate` changes it otherwise, because the
filters of all other writes are completed by `deletedAt`. That is
`DeletionsStand`. For `UpdatesAnswerTruly` the invariant follows a call:
undisturbed, what it has read is what is stored (`CallKnown`), and a write that
found nothing is seen at the second read, which shows the mark. For
`ReadersMissNobody`, `ReaderKnown` counts: the *rank* of a cat is the number of
live cats created no earlier. As the list is sorted by creation, newest first,
and without ties, a cat stands at the place its rank says (`PlaceIsRank`), so
what page n shows are the ranks between two multiples of the limit. A cat that
is due and not seen yet has a rank beyond the pages read, which only a
departure can make smaller; a cat seen has one within them, which only an
arrival can make larger. `ReadsFind` rests on lemmas about Listing and
MongoRepository that need no state: in any order a list may have, a cat stands
after all that come before it and not beyond its ties (`PlaceAmongTies`), so
that the page which holds all these places shows it and no other page does,
whatever order that one has; a filter finds what was asked
(`FilterFindsAsked`), of several commands on one field the last one stays
(`LastOn`; that there is a last one is the well-foundedness of a finite order).

**Migrations.** Half of the proof is about the migrations as they are written
and needs no state: each thing is made by one statement of one migration
(`Home`, `Distinct`), only `refactorUserToAccount` drops what an earlier one
made, and only after its first index (`Fits`), a `down` takes away what its own
migration or a later one made, but for that of `createUserTable`, which drops
the table of the passwords (`DownFits`), and what a statement needs is made
before it and not dropped by then (`NeedsMet`). The lists of permissions are of
any length, so the rows of `insertPermissions` and `insertUser` are handled by
lemmas about sequences. `RecordedIsApplied` is not inductive: that a migration
is whole when it is recorded depends on what its process has done so far, and
another one may work beside it. `IInv` says that what was made *stands*
(`Standing`): it is there, or `refactorUserToAccount` has begun to drop it, or
there was an undo. What is recorded stands, and so does what a run has done so
far unless a statement failed (`DoneSoFar`); the core is that no statement of a
run takes away what stands (`UpKeeps`), and that an undo, which is alone,
undoes the greatest migration recorded, so that what it drops belongs to no
recorded one (`DownKeeps`, `InOrder`). `CREATE TABLE IF NOT EXISTS` looks at
the table only, so `UsersWhole` says that the users have all their columns when
the table is there. For `CleanRunsDoNotFail`, `CleanRun` says that a run which
began on whole migrations, alone, before any undo and without a reset stored,
finds nothing of what it will make and all that `refactorUserToAccount` needs
and will drop; with `NeedsMet` none of its statements fails (`CleanSucceeds`).
When a run ends, what it found pending is recorded, by it or by another, and
the rest was recorded before and is not undone while it runs; `RecordedStands`
then gives the schema (`DoneIsWhole`).

Only model-checked: the liveness properties of Sessions, CircuitBreaker and
Pipeline, which need fairness and `ENABLED` and are out of the prover's reach.
Of three of them the safety half is proved: a measure that every step of the
kind fairness speaks of lowers and no other step raises, or a condition that
lasts once it holds. That those steps are taken, and so that the measure
reaches its end, is what TLC checks. Also model-checked only are the two runs
that find a violation. That the refinements' abstract
specifications allow no step a reader would object to is for the reader:
RoleBasedAccess and UserDirectory are short for that purpose.

## 5. What is not modelled, and why

- Reading endpoints change nothing; those of the cats are modelled because the
  list is read by pages while it changes. Formats (UUID, e-mail, date) decide
  only whether an input is accepted at all.
- What reset-password-confirm and user-change-password do with a password: the
  relation is never loaded by the query before, so no request that finds its
  user gets there, and the models end where the code does. The same holds for a
  login.
- The worker decorators: no class of the repository uses them; the decorated
  method returns `undefined` and what the worker sends is dropped, so a model
  would be one of node's workers.
- Of the Mongo repository: `remove`, the other finds by fields, the total that
  `paginate` counts with a second query, `applyPagination`, and the migration
  that creates one index. Of the PostgreSQL repository: the generic operations
  no use case calls. Of the caches: what nobody calls (hash operations,
  `multi`, the memory cache).
- In Listing, texts are numbered and `Part` says which contains which, in place
  of regular expressions and of the removal of diacritics; numbers are counted
  in halves.
- Rules of libraries (opossum, TypeORM, axios-retry, Express, rxjs, PostgreSQL,
  MongoDB) are modelled as the code uses them and marked external in the map.
- Health, metrics, logging, tracing, i18n, secrets, start-up and Docker files
  are input and output.

What is left of the plan: a composition of AccessControl and UserAccounts over
`accounts_roles`, in place of `RoleChanges` and `roleless`.
