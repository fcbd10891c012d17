# TLA+ model of parkingslot-admin-service

The service is the back end of the ParkingSlot admin console: a NestJS
application with a PostgreSQL database of its own (admins, roles, audit log,
platform configuration, feature flags), a read-only connection to the domain
database, and an HTTP client for the two decisions it has other services carry
out. It is small, and most of its code is projection of rows. What is hard to
test in it is what happens between two `await`s: TypeORM's `save()` of an
entity read earlier, tokens that carry permissions read earlier, an audit row
written behind the response, a fetch aborted while the request travels on, a
seed that every deploy runs again over live tables.

## Inventory

| Component | State | Operations | Hard part | Module |
| --- | --- | --- | --- | --- |
| Admin accounts, roles, sessions (`auth/`, `modules/admins/`) | `admin_users`, `admin_roles`; tokens and cookies in consoles | login, refresh, logout, invite, updateAdmin, createRole/saveRole | stale entities, permissions inside tokens, refresh racing revocation and logout | `AdminSessions`, `OverlappingSaves` |
| Request pipeline (`app.module.ts`, guards, interceptors, filter, `audit/`) | `audit_logs`, `req.user`, `req.requestId` | every request; audit list and export | order of guards and interceptors, INSERT nobody waits for, process death, what a row says of a path | `RequestPipeline`, `AdminRoutes`, `AuditTrail` |
| Platform configuration, feature flags (`modules/config/`) | `platform_config`, `feature_flags` | getConfig, updateConfig, listFlags, toggleFlag | whole-object writes, racing INSERTs | `PlatformConfig` |
| Decisions at domain services (`common/http/`, `moderate`, `decideKyc`) | none here; the other service's record | moderate, decideKyc | timeouts racing late arrival, retries, useless replies | `DomainWrites` |
| Deploy (`railway.json`, migration, `database/seed.ts`) | all admin tables | start command of each instance | overlap, crash between two roles, bounded restarts | `SeedDeploy` |
| Bookings read side (`modules/bookings/`, `HostsService.approvalStats`) | none | list, getOne, two statistics endpoints; four mutations that change nothing | recovering from a log what a column folds together; names looked up after the rows | `BookingProjection`, `JoinedRows` |
| Host directory (`HostsService`) | none | list, getOne; updateStatus, flag | partial failure of chunked lookups | `HostDirectory` |
| Listings, users, wallet, payouts, reviews | none | lists and single rows; mutations that look a row up and store nothing | names looked up after the rows | `JoinedRows` |
| Money (`modules/payments/`, `modules/payouts/`, host earnings, dashboard sums) | none | payments, refunds, payouts, earnings, GMV, backlog | the same money computed several times, rounded before or after adding | `MoneyViews` |
| Pagination (`common/util/paginate.ts`) | none | every list of the domain tables | pages of a list that changes | `PagedList` |
| Dashboard (`modules/dashboard/`) | none | overview, queues, time series, search | counts without a snapshot, local midnights against UTC dates | `OverviewCounts`, `MetricsSeries` |
| Support, notifications | none | sample data and stubs | see "Not modelled" | routes only |

Interactions: every handler runs inside the pipeline. Sessions decide who is
admitted (claims of the token; no table is read). `save()` (`TypeOrmSave`) is
shared by sessions, configuration and seed. Sessions and seed share the two
admin tables. The decisions and the host directory go through the same HTTP
client. The lists of the domain tables end in `paginate()`; the audit log is
paged in SQL. `HostsService.list` and the dashboard read the payouts that the
payout list shows.

## Modules and code

**TypeOrmSave.** `Repository.save(entity)` is a SELECT and, if it differs from
the entity, an UPDATE of the columns that differ. `SavedColumn(now, ent, base)`
is one column after it: written when the entity differs from what the SELECT
saw, whatever the row has become since. External (TypeORM), as the code uses it.

**AdminSessions.** Each handler is cut at its `await`s; a request record in a
slot holds `pc` (the await it stands at), `ent` (what `findOne` returned, as
changed by the handler), `base` (what `save()`'s SELECT saw) and `perms`. Actions:
`StartLogin`/`LoginFind`/`SaveLoad`/`SaveWrite`/`ResolveRoles`/`SignAndRespond`
for `AuthService.login`; `StartRefresh`/`RefreshFind`/... for `refresh`;
`StartUpdate`/`UpdateFind`/... for `updateAdmin`; `StartSaveRole`/`RoleLoad`/
`RoleWrite`; `Invite` and `CreateRole`, whose effect is one INSERT; `Logout`;
`RequestFails` (a query throws at any await) and `Restart`. Tokens store their
remaining lifetime and `Tick` decreases it, so no clock needs a bound. `lapse`
(ticks since an account last had a permission) is history. bcrypt, TOTP codes
and signatures are the Booleans the handlers branch on.

**OverlappingSaves** is `AdminSessions` with three history variables. login, updateAdmin
and saveRole all read a row, change the copy and hand it to `save()`, so another
request can write the row in either of two gaps: before the SELECT of `save()`
(`before`, the columns of the account changed there) and between SELECT and
UPDATE (`after`, `roleAfter`). `Remember` keeps them at every step; they restrict
nothing. The properties say what each overlap can do and that nothing else can
(`UndoNeedsAnOverlap`, `PatchesLand`, `RolesLandWhole`); "Worth knowing" below
says it in words.

**RevocationPromise** is the abstract specification: permissions come and go, a
token is issued only with permissions held at that moment, and lives
`AccessTTL`. `AdminSessions` implements it with `held` mapped to `Authority`:
the permissions of an active row, and those a login or refresh in flight has
already read. That is the honest meaning of "has a permission" in this code: a
refresh that checked the status a moment before the account was disabled still
answers with a full token.

**RequestPipeline.** One record per request: `Refuse`/`Admit` (both guards),
`Apply` (the handler commits), `Succeed` (the value passes `tap()`, which starts
the INSERT in `writing`), `Fail`, `ExportRecord`, `AuditStored`/`AuditFails`,
`Crash`. Routes are records of what the pipeline looks at: mutating, public,
stub, export, permissions.

**PlatformConfig** and **FlagRegister.** `updateConfig` is find, merge, SELECT,
write of the whole JSON object; `toggleFlag` is a save of a single column. The
abstract `FlagRegister` says a successful call sets the flag exactly once, at
one moment between call and answer; the refinement mapping places that moment
at the SELECT when the flag has the wanted value already (no UPDATE follows),
and at the UPDATE otherwise.

**DomainWrites.** `Submit` is the handler up to `fetch`; `Receive`, `Timeout` and
`NetworkError` are how it ends; `Lost`, `Refused` and `CarriedOut` are the network
and the other service (external), which may do anything a caller must expect.
A base URL that is no URL (`Misspelt`) throws outside the `try` and ends in a 500;
a 2xx body without a `status` is a success that names no state.

**SeedDeploy.** Several instances run `migration:run && seed && start`. `Migrate`
is one transaction; the seed is one action per round trip; a failing command is
started again up to `MaxRetries` times (`Failed`, from `railway.json`). `Edit`
stands for admins at an instance that already serves.

**AdminRoutes** and **AuditTrail.** `AdminRoutes` is the table of all routes in
the order in which Express tries them, each with its method, path, permissions
and whether its handler answers 404 for an unknown id, and the pure functions
over it: `Handler` (dispatch), `Authorized` (`PermissionsGuard`) and
`DeriveTarget` (what the audit interceptor makes of a path). `AuditTrail` is the
log as a reader meets it: mutations of any route by any admin, INSERTs that
commit in any order or are lost, and a console that walks `GET /admin/audit`
through its pages, rows and total in two queries per page. A row carries the
operation it came from as history. The sorted log has every row at its `Place`, as
in `PagedList`.

**BookingProjection**, **HostDirectory**, **PagedList**, **MetricsSeries.** Parts
of the read side, each against a world that moves: the booking service's
transitions, kyc-service's decisions and failures, rows entering and leaving a
list between two pages, the clock. The admin service's part are operators
(`AdminStatus`, `MapKycStatus`, `Listed`, `Slice`, `Series`) translated from the
code, `Series` for every metric but `gmv`, which adds amounts where the others count;
history variables (`cause`, `held`, `stayed`) say what really happened.
The table of `PagedList` is a set of rows with identities in the order of their
arrival. A stable sort of rows that differ is an order of them, so `Before` is the
comparator with the order of the table as its tie-break, and the sorted list has
every row at its `Place`, one after the rows that come before it.
`HostDirectory` has both the list and `getOne`, which `updateStatus` and `flag`
share; a lookup that fails is caught in `kycStatusMap` for both, and the host is shown
as unverified.

**JoinedRows.** Nine read operations have one shape: read rows, collect the ids
some of their columns hold, look these up in the users or listings table, and
show the name or, without one, the id (reviews: null). `Services` says for each
which columns it collects and shows, and in which forms: a list, one row (404),
or a mutation that is `getOne` under another answer. Names change meanwhile.

**OverviewCounts.** The dashboard's parallel queries over one table at a time,
ending in any order while rows are added and change status. `Counted` and `Window`
are the WHERE clauses of `overview` and `queues`.

**MoneyViews.** Payments and payouts under their services' transitions
(external), and what each endpoint derives from their columns: `ToPayment` and
`ListRefunds`, `ToPayout`, `Earnings`, `Backlog`, `Gmv`. Amounts are thousandths of
a rupee, so that `ToPaise` has something to round.

**AdminSessionsProofs**, **RequestPipelineProofs**, **PlatformConfigProofs**,
**DomainWritesProofs**, **SeedDeployProofs** hold the theorems, each of the module it
is named after. **RowReadsProofs** (`HostDirectory`, `BookingProjection`,
`JoinedRows`), **FigureReadsProofs** (`OverviewCounts`, `MoneyViews`,
`MetricsSeries`) and **PageReadsProofs** (`PagedList`, `AuditTrail`) hold those of the
read side. They are about the specification of `MCReads`, which is that of the
part a behaviour is in, with any values of its constants.

Operators whose comment begins with `Fault:` are plausible mistakes in the
operator that follows them. They are used nowhere; putting one in its place
must make a property fail (the list is in PROJECT.json).

## Runs

| Run | Checks | Instance |
| --- | --- | --- |
| `sessions_revoke` | `TypeOK`, `RevocationWindow`, refinement of `RevocationPromise` | one account that manages itself, two consoles, two account requests and one role request in flight, lifetimes of 2 |
| `sessions_saves` | `UndoNeedsAnOverlap`, `PatchesLand`, `DisabledEndsPowerless` | two requests for the same account, patches of one and two columns; fairness, no symmetry |
| `sessions_team` | `RolesLandWhole` | two accounts, two roles, two concurrent saveRole with bodies that differ in name, permissions or both, invitations |
| `pipeline` | `TypeOK`, `RowsTellTheTruth`, `LossNeedsAFault`, `ExportWaitsForItsRow`, `EveryRequestEnds` | two requests over one route of each kind |
| `pipeline_audit` | `SuccessIsAudited` fails | as above, two routes |
| `pipeline_errors` | `ErrorsCarryRequestId` fails | as above |
| `config` | `TypeOK`, `SettledFieldsNeedAPatch`, refinement of `FlagRegister` | two PUTs over three fields, two toggles over two flags |
| `config_listed` | `DefaultsAreListed` fails | two default flags |
| `writes` | `TypeOK` and three properties of calls | two calls over a guarded listing, an unguarded owner, an unconfigured target and one with a base URL that is none |
| `seed` | `TypeOK` and four properties of deploys | two instances, two default roles, one crash, one edit, four restarts |
| `seed_roles` | `StoredRolesAreLeftAlone` fails | one instance |
| `reads` | fifteen properties of the read side | two bookings; three owners in chunks of two; up to three rows in pages of one; three days of four units; two mutations of all routes; answers of two rows over two users and a listing; two counted rows and three events; two payments, two payouts |

Why these bounds are enough to be worth running: a lost update, a double
INSERT or a stale write needs two handlers and no third; a revocation needs
one account, one console that acts and one that holds a token, and lifetimes of
two ticks tell "before the token ends" from "at its end". Two default roles
give the seed a step between them, and four restarts are `Len(DefaultRoles) + 2`,
what `RetryAssumption` (ten for five roles in the code) asks for. Two owners
per chunk and three owners give a full and a partial chunk; three one-row pages
let an early and a late shift happen; Day = 4 with Offset = 1 keeps the ratio of
24 h to 5 h 30 near enough for the dates to disagree. Two mutations and pages of
one row give the audit walk two pages and a late INSERT between them, and every
pair of routes a chance to be mistaken for each other; of the two names one is a
flag key with a colon, the case `deriveTarget` treats apart. Two admins hold the
two extremes, all read permissions and all permissions. Two rows over two users
are the least in which one person appears twice, and three versions of the names
let each of the two tables change between two reads. A wrong sum or a count of
two moments needs two rows. The amounts, 5 and 20 thousandths of a rupee, are
half a paisa and two paise, so that rounding before and after adding differ. In
`HostDirectory` the order of
the owners is fixed, since `Init` gives each of them any record.

Named bounds: `MaxEdits`, `MaxCrashes` (SeedDeploy), `MaxHeld` (HostDirectory),
`MaxRows`, `MaxChanges` (PagedList), `Horizon`, `MaxMade` (MetricsSeries),
`MaxMutations` (AuditTrail), `MaxShown`, `MaxTables` (JoinedRows), `MaxEvents`
(OverviewCounts), and the constraint `OneTableAtATime` of `MCPlatformConfig`:
configuration and flags share no table and no variable, so each is explored with
the other at rest. Symmetry is used only where no liveness property is checked.
`MCReads` puts eight independent modules into one run; `part` chooses one of them
in the initial state, so that their state spaces add up instead of multiplying,
and two parts that name a variable alike (`request`, or `table` and `got`) share it.
CHECK_DEADLOCK is off in `reads` alone, where a finished list, walk or clock has
no next step.

## Fairness

- `AdminSessions`: time passes, and a handler whose query was sent gets an answer
  or an error (database timeouts). Nothing makes a console do anything.
- `RequestPipeline`: a request that reached the server is worked on; an INSERT
  ends one way or the other.
- `SeedDeploy`: a start command that runs goes on. Deploys, crashes and edits
  need not happen.
- `HostDirectory`: a request's queries end, and so do its lookups: the abort timer
  (`internal-service.client.ts:61`) covers the body as well.

`DomainWrites` has safety properties only. That its calls end is the abort timer
alone, and a property that assumes the timer would say nothing more.

## Proofs

Every theorem is about the specification of its module for all values of the
constants that meet the module's assumptions, which the runs evaluate. All of
them are about the constants only. `NoneAssumption` says that the value for
"nothing" is none of the values there are. No theorem needs the named bounds
(`MaxRows`, `MaxChanges`, `Horizon` and their like) to be of any size.

**AdminSessionsProofs**, for any number of accounts, roles, consoles and requests
and any lifetimes (`PermissionAssumption`, `TTLAssumption`, `SeedAssumption`,
`BodyAssumption`, `NoneAssumption`):

- `TypeCorrect`: `Spec => []TypeOK`. `TypeOK` is not inductive: a request's `ent`
  may be of the wrong kind for its `pc`, and the step that uses it would then
  leave the types. `TInv == StateOK /\ HandlersOK` adds, per request, which
  fields are set at which `pc`, that a row once read still exists (rows are
  never deleted), and that the two copies are accounts.
- `WindowHolds`: `Spec => []RevocationWindow`. Needs `EntitledInv`: what a request
  in flight is about to sign was due to the account when the roles were read, and
  stays in `Authority` until it answers; and `LapseFresh`: `lapse` is zero for
  whatever is in `Authority`. Together with `TInv` these are `SessionInv`.
- `SessionsImplementPromise`: `Spec => PromiseSpec`, from `SessionInv`: signing
  maps to `Issue`, ticks to `Tick`, everything else to `Regrant` or a stutter.
- `UndoingNeedsOverlap`, `AnsweredPatchesLand`, `SavedRolesLandWhole`:
  `RaceSpec => ...`, the three properties of `OverlappingSaves`. They are about one
  step, `SaveWrite` or `RoleWrite`, but what that step writes was read two awaits
  earlier. `RaceInv` carries it there: until the SELECT, the copy in hand agrees with the
  row in every column that the body does not name and nobody has changed since
  (`SlotRace`); after it, the selected row agrees with the row in every column that
  nobody has changed since (`SlotRace`, `RoleRace`). A step of another request
  preserves this because `Remember` adds what it changes (`SlotKept`, `RoleKept`),
  a step of the request itself because it reads the row in that step (`SlotMoves`,
  `RoleMoves`). `RaceIsSpec` brings over `TInv`, which says that a row once read is
  still there. `SavedRolesLandWhole` also needs the lemma `RoleNamesStayUnique`: a
  role that keeps its name is never refused it.

**RequestPipelineProofs**, for any requests, routes, credentials and inbound ids
(`RouteAssumption`: the export neither mutates nor is public; `NoneAssumption`):

- `TypeCorrect`, `RowsAreTrue`, `LossIsAFault`, `ExportsWait` from one invariant,
  `RInv`. That a stored row tells the truth is not inductive, since a row is
  built and stored in different steps: `EntriesEarned` says it of rows under way
  as well, and in terms that stay true (`Earned`), `EntriesOnce` that no request
  has two rows among both, `Progress` what guards and interceptors have
  established by each phase, and `ExportsRecord` that an export that waits has
  its row under way, stored or lost.

**PlatformConfigProofs**, for any fields, flags and admins and any number of
requests in flight (`ObjectAssumption`: defaults and patches are objects over the
fields; `NoneAssumption`):

- `TypeCorrect` and `SettledFieldsStay` from `CInv == TypeOK /\ RowsStay`: the row
  that `save()` found is there when it writes, so the write is an UPDATE of the
  columns that differ. A field nobody else is about to write then changes in
  two ways only: by the patch that names it, or not at all.
- `FlagsImplementRegister`: `Spec => FlagsAreARegister`. Each step of a toggle
  maps to the register's call, set, answer or failure, or to a stutter; the one
  set of a call is its SELECT when that sees the wanted value, its UPDATE or
  INSERT otherwise.

**DomainWritesProofs**, for any calls and targets, whichever are listings, guarded
or configured (`TargetAssumption`, `NoneAssumption`), and whether or not their base URLs parse:

- `TypeCorrect`, `SuccessIsReal`, `RefusalsAreFinal`, `SuccessKeepsStanding` from
  `DInv`: a request on the wire has no reply yet and was not carried out
  (`OnTheWire`), a reply says of the decision what is so (`RepliesTellTheTruth`),
  and a guarded target keeps the decision that was carried out
  (`GuardedStand`).

**SeedDeployProofs**, for any number of instances, default roles, crashes and edits
(`SeedAssumption`: the names of the default roles differ; `TableAssumption`: the
database found at first has unique names; `RetryAssumption`, `NoneAssumption`):

- `TypeCorrect`, `OnlySeededServe` from `SInv`: each `pc` of a start command says
  what it has in hand (`Holding`) and, until an admin edits, what is already
  achieved (`Achieved`): the tables, each role before its index, the account. No
  step of another instance takes any of it back (`Kept`).
- `SeedsAreIdempotent`: once the database is seeded and no start command holds
  a copy that differs from its row (`Quiet`), every step but an edit keeps both so
  and changes no row.
- `CollisionsAreSurvived`: `Tried` bounds the number of restarts by what is in the
  database. A collision means somebody else has put there what the insert was
  for, so the n-th failure finds the tables and n - 1 roles in place and the last
  one the account; with `RetryAssumption` (ten for five roles in the code, the
  proof needs two more than there are roles) no restart is the last.

The read side. `BoundsAssumption` says that numbers are numbers, that owners,
counted rows, payments and payouts are finitely many, that chunks, pages and days
are not empty, that a day is longer than the offset of local time, that amounts
are positive, and that the clock starts later than one window of the series after
its origin. `NoneAssumption`, `NoLookupAssumption` and `NoCountAssumption` say of
what `None` is no value, `NameAssumption` is explained below. Each invariant below is that of one part, checked by TLC
on the `reads` instance before it was proved.

**RowReadsProofs**, for any owners, bookings, users, listings and chunk size:

- `HostsAreShownTruly`, `FailuresAreContained` from `HostsInv`. `held`, the KYC
  records an owner has had during the request, is only useful with what the
  handler holds: what was found for an owner is in `held`, and an owner whose chunk
  is done was found, had no record at some time, or was in a chunk that failed
  (`AskedFor`). Chunks partition the ids because `SetToSeq` lists every owner once.
- `AutoRejectionsAreTrue`, `DecisionTimesStay`, `StatisticsAgree` from `BookingsInv`:
  a log ends with the status and has no terminal one before its end
  (`LogIsInOrder`), a log from the start lacks only the first status (`FullLogs`),
  and the last two entries tell why a booking expired (`CausesAreTold`). What the
  service says of an expiry is then the last entry but one or, without it,
  the deadline (`NonResponseIs`), and the two are compared with the cause
  (`NonResponseIsKnown`). The statistics agree since the two sets they count are
  equal.
- `NamesAreOfOneMoment` from `JoinsInv`: what was found in a table is the lookup of
  the wanted ids at one member of `seen` (`LookupsHeld`), and an answer has all its
  lookups.

**FigureReadsProofs**, for any rows, amounts, lengths of a day and offsets:

- `OverviewsFit` from `CountsInv`. Queries end in any order, so the inequalities of
  `CountsNest` are stated of `Value(q)`: what a query has answered or, before that,
  would answer now. A query that ends leaves it alone, a new row raises it by at
  most one together with `added`, a change of status moves it by at most one
  together with `changed`.
- `MoneyIsTheSame` from `MoneyInv`: a payment refunded in full has refunded its
  amount. The rest is arithmetic of sums. A sum over a set is a fold; `Sums` is the
  recursive function behind it, and that the sum of rounded numbers is within one
  per number of the rounded sum (`RoundedSums`) goes by the least size of a set
  for which it fails.
- `WholeDaysAreInTheSeries` from `DaysInv`: bookings are finitely many instants. The
  buckets are consecutive UTC dates, as dividing by the length of a day is
  unique (`InOneInterval`, `DaysLater`); the dates of the bookings of whole local
  days are among them (`DaysOfTheSeries`); and counts of disjoint sets add up to the
  count of their union (`CountsAddUp`).

**PageReadsProofs**, for any page size, number of rows and values of the sort field:

- `WalksMissFew`, `WalksRepeatFew`, `SettledWalksAreLists` from `ListInv`. `Ranked` is the
  lemma they rest on: in a finite strict total order every element has a place,
  one after the elements before it, and every place an element. The invariant is
  about rows that will be missed or come twice, not only those that were:
  `Overlooked` are rows that were in the list all the time and stand, not received,
  in pages already fetched, `Again` are received rows that stand in pages to come.
  A fetch adds nothing to the first and turns the second into repetitions. A row
  that leaves moves the rows after it one place up, so one row at most passes the
  boundary between the pages fetched and to come, and one that enters moves at most one
  row the other way (`PlacesShift`). While nothing changed, what was received is
  the beginning of the list (`FirstPages`).
- `AuditRowsAreEarned` from `TrailInv`. Which handler Express runs is decided by
  method and path, and an object's name may read like a word of another route. So
  the proof is about all routes at once: each mutating route that is not public asks
  for permissions none of which is one to read, and a path that one route with an
  object lookup makes is dispatched to a route with the same lookup (`Sound`,
  `FindingKeys`). It holds for any names, whether or not they are words of routes.
- `HistoriesAreTold`, also from `TrailInv`, in two halves. A walk passes over no row:
  the log only grows, so the place of a row never gets smaller, and a row that was
  there when the walk began is shown or stands behind the pages fetched so far
  (`WalkSound`, `PlacesGrow`); the times of rows differ and give the order
  (`Ticked`, `Ranked`). And a row tells of its operation: `Told` is the function
  from action and target back to the route, and `RoutesTell` goes through all
  controllers to show that each mutating route is what `Told` makes of its own
  words. What is stored is not of these words but of the path of a request and of
  the route Express finds for it, which may be another one; `RowTells` shows that
  the two agree where it matters (`Tells`), whatever the name in the path, and that
  the target is that name unless it is a flag's key with a colon. It needs
  `NameAssumption`: nothing is named `reply`, since the update of a support thread
  has the thread's id where a reply has that word, and no word of a route has a colon.

Only model-checked: every liveness property (`DisabledEndsPowerless`,
`EveryRequestEnds`, `EveryBootEnds`, `EveryListEnds`), since the
prover has neither fairness nor ENABLED. Every invariant, every action property and
both refinements that a passing run checks are theorems.

## What the checks found

Four statements in the repository are not what the code does; each has a run
with a counterexample.

1. "after any successful mutation by an authenticated admin, write an AuditLog
   row" (`audit.interceptor.ts:11`): a failed INSERT is swallowed and a crash
   loses it. What does hold is `LossNeedsAFault`.
2. The error envelope has a `requestId` (`domain-exception.filter.ts:12-13`): a
   401 or 403 of a guard has none, since the id is assigned by an interceptor.
3. "Surface defaults even before they've been persisted"
   (`config.service.ts:52`): only until the first flag is.
4. "Default roles seeded on first run" (`permissions.ts:40`): every start
   resets them to the defaults (`seed.ts:18-20`, `railway.json:7`).

Worth knowing, without a statement they contradict:

- A login can undo a disable. `AuthService.login` reads the account as active, an
  update disables it, and then login's `save(admin)` (`auth.service.ts:58`), meant for
  `lastLoginAt` alone, SELECTs `disabled`, finds that its copy says `active`, and
  writes that back. The same goes for every column and for an `updateAdmin` that names
  other columns (`admins.service.ts:68`): of two updates of one account, one of the
  status and one of the roles, only the later one may be left in the row.
  `UndoNeedsAnOverlap` says when: the undoing request read the account before the
  change and reaches its SELECT after it. A change between SELECT and UPDATE is
  safe, since the UPDATE leaves out what the SELECT found unchanged.
- The other gap loses an update instead. An `updateAdmin` whose SELECT finds the
  wanted value there already leaves the column out, so when another request changes
  it before the UPDATE, the answered update is not in the row (`PatchesLand`); and two
  `saveRole` of one role can leave the name of one body with the permissions of the
  other (`RolesLandWhole`).
- A logout can be undone too: a refresh in flight answers after it and sets the cookie
  again (`auth.controller.ts:42`). The model has the step, and no property excludes it.
- The two approval-statistics endpoints for one owner agree only without instant
  bookings, lapsed payments, and unanswered requests that have neither a timeline nor
  a deadline (`StatsAgree` names the exact condition).
- The projection of an expired request whose timeline has nothing before the expiry
  can be wrong in both directions: one with a deadline that was approved and lapsed
  on payment is shown as auto-rejected, which the code says of itself
  (`bookings.service.ts:79-81`), and one without `owner_response_deadline` and
  `auto_reject_at`, both nullable, that was never answered is shown as plain
  `expired` (`AutoRejectedMeansNoAnswer`).
- The daily series ends at the UTC day that begins during today: bookings made
  today after 05:30 local time are in no bucket. `WholeDaysAreCounted` leaves
  today open on purpose.
- A route that lists several permissions asks for any one of them: `audit.read`
  alone admits to `GET /admin/audit/export`, which lists `export.run` too, and
  either of the two listing permissions to every moderation. `RowsAreEarned`
  depends on no mutating route listing a read permission.
- `user.delete`, `wallet.read`, `wallet.adjust:capped` and `support.assign` are
  granted to roles and required by no route. The dashboard and `GET /admin/me` require
  none.
- Refund, payout trigger and hold, support reply and update, notification send
  and review moderation answer with success for an unknown id, and are audited.
  `ObjectHistoryIsTold` is about what such rows say, `RowsAreEarned` only about
  objects the handler looks up.
- What an audit row says of its object comes from the path alone. `PATCH
  /admin/roles` names its role in the body, so its row has no target;
  `PATCH /admin/support/threads/:id` has an action ending in the thread's id;
  `POST /admin/admins/invite` has the target `invite`; a flag whose key has a colon
  has none. A thread with the id `reply` would have rows that read like replies, the
  one name for which `ObjectHistoryIsTold` would not hold.
- The audit list sorted by a column other than the time has no tie-break.
- Names in an answer are later than its rows, and users and listings of one
  review list may be of two moments; `NamesHeldTogether` says no more than that.
- `GET /admin/users/:id/bookings` shows the raw status of a booking where
  `GET /admin/bookings` shows the admin one.
- A refund has an id of its own making until the gateway's is stored, and one
  that was partial stays `processing` for ever. Refunds are listed by `refundedAt`,
  which may be NULL for several of them: their order is then the database's choice.
- The refund rate of the overview is formed of two statements; with payments
  that arrive and are refunded in between it can exceed 100 % (`CountsNest` has
  the condition).
- An account whose `totpEnabled` is set without a secret can never log in again,
  and the last manager can disable itself; the seed repairs neither.

## Not modelled

- `GET /admin/search`: five rows of each of several tables by ILIKE, in no order,
  cut at eight. Which rows come back is the database's choice; nothing relates
  one answer to another.
- Support threads and notification campaigns: constants of the code.
- The remaining columns of listings, users and hosts: field-by-field projection
  of one row, without state or choice.
- `environment.validation.ts`, CORS, Swagger, health: decided once at start.
- Inside the modelled parts: the text search and exact filters of `paginate()`
  (they narrow the list like the status filter), the strings of an audit row
  besides action and target, password hashing and TOTP arithmetic (Booleans). That
  a refresh token is of the type `refresh` (`auth.service.ts:73`) is part of its
  verifying, as no client holds another kind in its cookie.
- How a path is written. `req.path` is percent-encoded and route parameters are decoded
  (`audit.interceptor.ts:55-61`), so a flag's key written with `%3A` does leave a row
  with a target, and another than the key; Express also matches the words of a route
  in any case. `AdminRoutes` has the paths as the routes spell them, decoded.
- Ties. `PagedList` is about tables that come in one order; rows of equal
  `created_at`, and refunds without `refundedAt`, may come in another for each page.
- TypeORM's own `migrations` table, which the first `migration:run` of all creates: two
  start commands can collide there as well, once each. `MaxRetries` is ten and
  `RetryAssumption` asks for seven with the five default roles, which leaves room for it.
- The `gmv` branch of the time series: the same buckets, with amounts for counts.

## Plan

1. Composition of `SeedDeploy` with `AdminSessions`: a seed between the SELECT and the
   UPDATE of an admin's own save, over the same two tables.
2. `HostDirectory` with `paginate()` behind it: a status filter over KYC statuses
   that may be missing.
3. The cookies of two accounts in one browser, where a late refresh of the one
   answers after a login of the other.
