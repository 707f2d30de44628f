# Verification of the Licence Manager

TLA+ models of the back end of the Licence Manager
(`src/backend/src/licence_api`), TLC configurations that model-check them and
TLAPS proofs about them. Paths below are relative to that directory unless they
start with `src/`.

The product tracks software licences: it fetches them from provider APIs,
matches them with the employees of an HRIS, and lets administrators review,
assign, cancel and renew them. Nearly all of its state lives in PostgreSQL, and
nearly all of its difficulty is in transactions that overlap: requests, provider
syncs, the daily job. That is what these modules are about.

## How the program executes

FastAPI runs every request as a coroutine with one SQLAlchemy session
(`database.py`, `get_db`); APScheduler runs the jobs of `tasks/scheduler.py` in
the same process with sessions of their own. The image starts one uvicorn worker;
two processes overlap while a deployment replaces one by the other. What matters
for correctness follows from five facts:

1. PostgreSQL runs at READ COMMITTED (no isolation level is set): each statement
   sees what was committed when it started, plus its own writes.
2. A handler loads a row into an ORM object, computes on that copy, and the unit
   of work sends, at flush, an UPDATE of the *columns whose value differs from
   the loaded value*. Two transactions can therefore merge their columns in one
   row, and a column assigned its old value is not written at all.
3. An UPDATE locks its row until the end of the transaction; a second writer
   waits. Reads do not wait. No handler modelled here uses `SELECT ... FOR
   UPDATE` or a version column.
4. Sessions are created with `expire_on_commit=False`, and a query autoflushes
   pending changes first.
5. `get_db` commits when the handler has returned and rolls back on a database
   error that leaves it. A handler that turns an error into an answer is therefore
   committed, with what it had written until then; after a *failed flush* nothing
   more can be written and all of it is rolled back.

`LicenseLifecycle` and `LicenseMatching` state the first four facts as `Diff`,
`Apply`, `Publish` and the lock sets; everything else in them is the handlers'
own code.

## Inventory

| Component (sources) | State | Operations | What is hard | What makes it correct |
|---|---|---|---|---|
| cancellation and renewal (`services/cancellation_service.py`) | status, expiry and cancellation columns of licences, packages, organisation licences | cancel, renew, needs-reorder | decides on a loaded copy while job and sync write the status | a cancellation is recorded and takes effect; a renewal restores |
| expiration job (`services/expiration_service.py`, `tasks/scheduler.py`) | the same columns | two queries, mark, notify, commit | order of the two queries, captured date, failing runs, locks | every due row is marked sooner or later, none wrongly |
| manual licences, packages, organisation licences (`services/manual_license_service.py`, `services/license_package_service.py`, `services/organization_license_service.py`) | the same rows | create, edit, delete | edits that ignore the lifecycle | only a renewal revives an expired package |
| provider sync (`services/sync_service.py`, `repositories/license_repository.py`) | licence rows of a provider, the provider's sync status | fetch, match, upsert, record | one long transaction; stale copy in `upsert`; errors swallowed or re-raised | reviewed data survive; interrupted runs leave sound rows |
| matching (`services/matching_service.py`) | employee, suggestion, confidence, match status, reviewed mark | match, confirm, reject, external guest, assign | reviews overlap with the sync | decisions stand; only certain matches are assigned unseen |
| licence assignment, service accounts (`services/license_service.py`, `services/service_account_service.py`) | employee link and service flag, rules | assign, unassign, flag, apply rules, bulk operations | three paths set the flag, with different clean-up | a service account has no employee |
| caches (`services/cache_service.py`) | JSON copies with a TTL in Redis, the process's client | get, set, invalidate | invalidation before the commit, late fills, swallowed errors | stale figures go, at the latest with the TTL |
| sync runs and removals (`services/sync_service.py`, `services/license_service.py`, `routers/providers.py`) | `last_sync_status`, which licences exist, who is a member at the provider | run over one or all providers, removal of members, local deletion | one provider fails and the run goes on; the remote call cannot be rolled back | what a successful sync listed is stored |
| provider clients (`providers/`) | none; what a page says | listing members page by page | the list moves while it is read; errors taken for the end | success means the whole list |
| employees (`services/sync_service.py`, `services/manual_employee_service.py`, `repositories/employee_repository.py`) | employees, their manager | HRIS sync, manual entry, bulk import | unique address, rows flushed one by one, managers resolved after all rows and long before the commit | the rows follow the list |
| pricing (`services/pricing_service.py`) | prices in the provider's configuration, costs in the licences | set prices, change a type, replace the configuration, sync | prices read before the row is locked | a cost is that of the present price |
| sessions of users (`services/auth_service.py`, `repositories/refresh_token_repository.py`) | accounts, refresh tokens | Google sign-in, refresh, logout, logout everywhere, (de)activation | tokens checked and revoked in separate steps | one token per session; none after deactivation |
| roles (`services/rbac_service.py`, `services/permission_sync_service.py`) | roles, assignments, permissions | create, replace, delete, synchronise at the start, superadmin role at sign-in | delete and insert under READ COMMITTED; count, then delete | users hold what was asked; no role is lost silently |
| CSV import (`services/import_service.py`) | uploaded files, jobs, created licences | upload, preview, execute, clean up | keys read once; strict mode commits a prefix | the job accounts for each row; the preview foretells it |
| cost snapshots (`services/cost_snapshot_service.py`) | monthly rows per provider and for all | create by job, at the start, on demand | check-then-create; NULL in a unique key; rows deleted with their provider | one total per month, and it adds up |
| forecasts (`services/forecast_service.py`) | none | regression, adjustments, sliders | clamping, year ends, contract ends | a scenario is the line plus what was asked |
| reports and lists (`services/report_service.py`, `repositories/license_repository.py`) | none | dashboard, pages, eight reports | each figure has a query of its own, over rows it selects in its own way | two figures of the same rows differ only by what they leave out |
| notifications (`services/notification_service.py`) | rules, token | announce, post with retries | a job holds its transaction while Slack answers | nothing expires in silence; nothing is told twice |
| restoration (`services/backup_service.py`) | the whole database, provider files | export, restore, restore at set-up | table by table, foreign keys, files outside the transaction, swallowed errors | a backup imports |
| stored backups (`services/backup_service.py`, `tasks/scheduler.py`) | configuration, scheduled job, files with metadata | configure, back up, clean up, delete | job told before the commit; the whole configuration written back; two files per backup | the job follows the configuration; only old backups go |
| settings, payment methods, external accounts, administrator account patterns, audit, exports, HTTP layer, front end | single rows, or none | create, update, delete; I/O | little | constraints of the database |

`PROJECT.json` lists every component with its sources and status, and every
hazard with its line and the properties that cover it. Three hazards have no property:
a configured time to live of 0 stores an entry without any expiry, and no document
says what 0 means; a restoration deletes and rewrites the files of the providers inside
a transaction that cannot roll them back, and promises nothing about them; and a member
whose address a client keys by may change it and be stored twice, of which the code
promises only that no *key* is stored twice (a unique constraint) and offers a report
of possible duplicates.

Interactions: the components share rows, not messages. The sync, the job and the
requests meet in the `licenses` table, each in the columns of one module: status and
dates in `LicenseLifecycle`, employee and match columns in `LicenseMatching`, type
and cost in `Pricing`, existence in `ProviderSync`. A request calls the cache and
the audit log in passing; a sync calls the provider clients (`ProviderFetch` says
what they return) and the matching service; the scheduler starts syncs, the
expiration job, snapshots, backups and announcements.

## Modules

### `LicenseLifecycle`: status, dates and cancellation of every tracked row

One row per item, of four kinds (`Synced`, `Manual`, `Packages`,
`OrgLicenses`), since the three tables share the lifecycle columns and differ in
which handlers reach them. `row` is the committed database; `tx` holds for each
open transaction its step, the column patches it will send, the rows it will
update (`touched`) and those it has already flushed (`locks`).

| Actions | Code |
|---|---|
| `Cancel`, `CancelPackage`, `Renew`, `SetNeedsReorder` | `cancellation_service`, nine handlers, three per kind |
| `ManualUpdate`, `ManualUnassign`, `UpdatePackage` | `manual_license_service`, `license_package_service` |
| `CommitRequest`, `RequestFails` | the commit at the end of each handler; an exception before it |
| `Create`, `Delete` | manual entry, import, package and organisation licence creation; the deletions |
| `SyncLoad`, `SyncLoadAgain`, `SyncCreate`, `SyncFlush`, `SyncCommit`, `SyncFails` | `_sync_license_provider` and `upsert`, entry by entry of the provider's list |
| `JobExpire`, `JobCancel`, `JobCommit`, `JobFails` | the two queries of `check_and_update_expired_licenses`, the scheduler's commit |
| `Tick` | midnight |

A request is two steps, load and commit: the row is read, and other transactions
may commit before its UPDATE. The sync is one transaction over many rows, each
loaded, then matched (awaited queries), then flushed. A member that the list names
twice is upserted twice (`SyncLoadAgain`). The job's autoflush in its second query is
`JobCancel`'s guard and lock set. `outrun` is a history: the rows on which a clearing
renewal committed while a cancellation for the date already recorded was under way.

A CSV import stores the status it finds in the file without a check, `expired`
without a date included; `NewStatuses` therefore has every status.

Abstractions: the statuses `suspended` and `pending`, which a provider may report,
and any other string that an import stores, behave as `inactive` in every condition of
the code and are represented by it; reason and author go with `cancelledAt`; costs,
notifications and audit rows are left out.

### `LicenseMatching`: who uses a licence

The match columns of one provider's licences. A request (`req`) is again a load
and a commit. The sync (`sync`) keeps the rules it loaded at its start, the
licence in work with the `employee_id` of its loaded copy, and for the rows it has
upserted (and locked) their new contents and whom an exact match named. A member that
the provider lists again is loaded again, as the transaction has left it (`Visible`).
`Upserted` is the heart:
`upsert` compares `employee_id` with the copy loaded *before* the matching
queries, while `_update_match_fields_if_better` runs on the row refreshed *after*
the UPDATE has locked it. `MatchResults` enumerates what `match_license` can
answer; how names and addresses are compared is abstracted to the class of the
answer (exact, suggested with a confidence level, external without candidate,
none). `SyncCommit` may come at any point because `sync_all_providers` swallows a
provider's exception and commits what was flushed; `SyncFails` is the sync of a
single provider, which re-raises.

### `MatchReview`: the abstract promise of the review

A decision about each known licence and the set of service accounts, no
transactions: decisions change by decisions, are withdrawn only for service
accounts and end with the licence. `LicenseMatching` implements it under the
mapping `Review == INSTANCE MatchReview WITH decision <- Decision, service <-
ServiceAccounts`; the property is `DecisionsStand`. Its `Refresh` has no parameter
for a verdict: this is the promise that the matching decides nothing.

### `DashboardCache`: the cached dashboard, provider list and reports

Reads look in Redis, compute what is missing from the database and store it;
changes drop what they know to be affected. `db` counts the committed changes, an
entry or a read in progress holds how many of them its oldest query saw (`seen`),
and `stored` is a history field: the changes committed when the entry was stored.
`req` is what each open request is doing, `conn` the client of the process.

| Actions | Code |
|---|---|
| `Read`, `Hit`, `Miss`, `Query`, `SetEntry`, `SetFails` | `get_dashboard_cached`, `list_providers_cached` and the cached reports |
| `Change`, `Commit` | the requests by what they drop and in which order: licence, review and provider requests and `trigger_sync` drop and then commit; the three "apply the rules" operations (patterns, licence types, administrator patterns) commit and then drop; cancellation, manual licences, packages, employees and the scheduled jobs drop nothing |
| `ScanKey`, `DeleteFound`, `DropFails`, `Dropped` | `delete_pattern`, key by key, with its swallowed errors |
| `Connect` | the first use of the client and its ping, during which the others find it unconnected |
| `Tick`, `Restart`, `RequestFails` | expiry; a restart of the process, which Redis survives; a database error |

The contents of a response are abstracted to `seen`. Redis losing entries on its
own is left out: it can only remove stale ones. The prefixes under which nothing
is stored (departments, payment methods) and the unused decorator
`cache_response` are left out.

### `ProviderSync`: runs over providers, and removals at the provider

`stored` is which licences exist, `team` who is a member, `outcome` the committed
`last_sync_status`; a run (`syncRun`) goes from provider to provider, holds the
lock of each provider's row from `MarkInProgress` on, and its inserts and outcomes
appear at `CommitSyncRun`. `ProviderFails` is the branch that records FAILED and goes
on; `RollBackSyncRun` an error of the database, after which nothing of the run is
left. A removal asks the provider first (`AskProvider`, whose answers include one
that is lost after the provider obeyed) and deletes the licence afterwards.
`credited` is a history: the members whose licence the last successful sync
promised and nobody has deleted since.

### `ProviderFetch`: what a client makes of a list that changes

A client is a record of how it reads (`step`: by token, page number, offset or what it
has counted; `last`: how it recognises the last page; `fails`: whether an error is
raised or taken for the end). People move in and out of the list between two pages.
The keys that the licences get are left out. `MayBeShort` names the cases in which a
client may miss somebody and yet report success; `SuccessIsWhole` says there are no others.

### `Directory`: employees

The HRIS sync fetches, writes row after row, resolves the managers, waits for avatars
and, in a run of all providers, for the other providers, and commits. Its writes and
the resolution are one step per order of the list (`SyncWrites`), because no other
transaction sees the rows in between and an error undoes all of them; the commit is
another (`SyncCommits`), and requests commit between the two. `wrote` is what each
open transaction has written: its own rows, which it locks with the addresses it
gives or takes away, and the managers it has resolved for other rows. `behind` says
whose links wait for whose commit. Requests look for an address, write later, and
commit last. `hrisSync.since` is a history: the rows that requests committed after the
sync had resolved the managers.

### `Pricing`: what licences cost

`prices` is the configuration of one provider, `priceRow` the type and cost of its
licences. Requests read the configuration, write the rows (locking them) and then the
configuration; the sync reads the configuration under the provider's lock. `raced`,
`crossed` and `lost` name the overlaps in which a transaction wrote from what had
changed since it was read, and outside of which the prices must agree.

### `Sessions`, `RoleGrants`: who may do what

Both are transactions that read, decide and commit. In `Sessions` a refresh reads the
token and the user, then rotates; `seen` holds the tokens that a revocation's UPDATE
will reach, and `clashed` the users whose requests overlapped on one session. In
`RoleGrants` a replacement deletes the rows its DELETE sees (`gone`) and inserts its
own (`new`); `asked`, `disputed` and `followed` are histories: the roles last asked
for, users whose replacements overlapped, system roles since their synchronisation.
`SignInBegin` and `SignInCommit` add the superadmin role of the configured
superadministrator, whom nobody has to ask for it. A restoration, which replaces these
tables as a whole, is left to `Restore`.

### `ImportJobs`: CSV imports

A row is its key and its flaw, as far as the two passes (preview and execution) tell
them apart. `ProcessRow` is one row of the loop with its strict stop, `OtherChange` a
sync or a deletion between reading the keys and the commit.

### `Restore`, `Backups`: the database as a file, and the files

`Restore` has the 22 tables, their foreign keys, the order of the export, of the
deletions and of the import; `db[t]` is which generations of rows table `t` has.
`Collect` reads one table with a snapshot of its own; `Work` commits in between.
`disk` are the provider files, which no rollback restores; `Import` writes any part of
those that the backup has, since an error of a write is only logged. `Backups` has the
configuration row, the scheduler's job and the pairs of files, with the awaits at
which another request or a crash may come in.

`UpdateCommit` writes the changed configuration although `update_config` changes the
dictionary that `SettingsRepository.get` has returned. `get` keeps no reference to the
row object, so SQLAlchemy's weak identity map has dropped it when `set` selects the row
again; `set` assigns the changed dictionary to a fresh object with a fresh copy of
the stored one, the two differ, and the UPDATE is sent.

### `CostHistory`, `Forecasts`, `Figures`: numbers

`CostHistory` has the monthly rows and the creations that may overlap, with an insert
waiting for an uncommitted one of the same key, and providers that are deleted with
their rows. The row for all providers keeps what it was added up from (`parts`);
`apart` and `mixed` are histories of the months in which overlapping creations had no
provider in common or computed different costs. `Forecasts` and `Figures` are
operators over the rows (regression, adjustments; the queries of each page) with
actions that make every small history or set of licences reachable, in `Figures` also
a suggestion whose candidate was deleted, a disabled provider, and licences without a
price at a provider whose package has one. Rounding, currencies, confidence intervals,
the estimate of waste and the reports' limit of 10,000 rows are left out.

### `Notifications`: what Slack is asked to say

Rules, token, the jobs and requests that send. The daily job marks, announces and
commits last; a request commits first and announces afterwards. `Post` is one POST
with what was delivered and what the sender learns; `heard` is a history of what
became of the announcement of each item's expiry. Rules carry no channel: a message is
one rule's, and two rules that name one channel tell it twice.

### `MCLicenseLifecycle`, `MCLicenseMatching`, `MCDashboardCache`, `MCComponents`

The instances for TLC. The first has a bound for one run, `OneRow`: a behaviour creates
one row. A request writes one row, the job computes the patch of a row from that row
alone, and what is asserted there relates each row to itself; so the kinds of rows add
up instead of multiplying. The second declares the symmetry of employees and requests,
which no operator tells apart; it is used with safety properties only. The third says
which key belongs to which prefix. `MCComponents` holds the instances of the thirteen
modules that are explored one at a time: `part` chooses one that moves while the others
keep their initial state, so that the states of the run are those of the components
added up, and each component is explored as if alone.

## Runs

| Run | Instance | Checks | Result |
|---|---|---|---|
| `lifecycle_sync` | one synced licence, one request, one sync, the job, two days | `ExpiresWithDate`, `CancellationMarked`, `ExpiryMarked`, `CancelTakesEffect` | hold |
| `lifecycle_rows` | a manual licence or a package, two requests, the job, two days | `TypeOK`, `CancellationPaired`, `OnlyRenewalRevives` | hold |
| `lifecycle_cancel_package` | one package | `PackageCancelTakesEffect` | violated |
| `lifecycle_renew_race` | one organisation licence | `RenewalRestores` | violated |
| `lifecycle_recancel` | one manual licence, two requests, the job | `CancelLeavesDate` | violated |
| `matching_candidates` | one licence, two employees, one request, one sync | `TypeOK`, `BetterSuggestionsOnly`, `AssignmentHasEvidence` | hold |
| `matching_reviewers` | one licence, one employee, two requests, one sync | `ReviewedStatus`, `SuggestionsNameEmployee`, `DecisionsStand` | hold |
| `matching_reviewed_assignment` | as `matching_candidates` | `ReviewedAssignmentKept` | violated |
| `cache_fresh` | dashboard and provider list, two requests, two changes | `TypeOK`, `ApplyDropsOlder`, `EventuallyFresh` | hold |
| `cache_sync_drops` | dashboard and a report, two requests, two changes | `SyncDropsOlder` | violated |
| `components` | `MCComponents`, see below | `ComponentsTypeOK` and the 21 properties of the table that follows | hold |
| `restore_clear` | one generation of rows | `ClearRespectsForeignKeys` | violated |

| Component | Instance | Properties in `components` |
|---|---|---|
| `Sessions` | one user, two requests, three tokens | `OneTokenPerSession`, `DeactivatedHoldsNoToken` |
| `RoleGrants` | one user, who is the configured superadministrator, a custom role, the superadmin role and the two system roles that are synchronised, two permissions, two requests | `RolesAsAsked`, `SystemRolesFollow`, `HeldRoleStays` |
| `ImportJobs` | two keys, three files of two and three rows | `ImportsAccount`, `PreviewForetells` |
| `Restore` | one generation of rows in every table | `QuietBackupImports`, `SetupSparesAccounts` |
| `Backups` | two tasks, two backups, two updates, a valid and an unreadable schedule | `ScheduleFollowsConfig`, `BackupsKept` |
| `ProviderFetch` | every client, three people, pages of two and one | `SuccessIsWhole` |
| `Pricing` | one licence, a plain and a combined type, two requests, a sync | `PricesCurrent` |
| `CostHistory` | two licence providers and an HRIS provider, two months, two creations | `OneTotalPerMonth`, `TotalAddsUp` |
| `Forecasts` | four months of history over a year's end, three projected, seven adjustments | `ForecastsSound` |
| `Figures` | three accounts (a subdomain, a foreign address, a key) at two providers, one with a package price, one employee | `FiguresAgree` |
| `Notifications` | one item, one rule, two senders | `NoSilentExpiry`, `RepeatsOnlyAfterLostAnswers` |
| `Directory` | two HRIS and one manual employee, two addresses, one request | `SyncFollowsTheList` |
| `ProviderSync` | one provider, one member, two runs, one removal | `SyncedMembersAreStored` |

What the passing runs show:

- *A due cancellation and a passed expiry date get marked*, although runs of the
  job fail, PostgreSQL breaks deadlocks between job and sync, and each sync sets
  the status back to what the provider reports.
- *A cancellation that met no error is recorded*, unless another request writes
  the row meanwhile. Its columns stay together also when requests overlap
  (`CancellationPaired`), although they are sent by several UPDATEs that hold only
  what changed: two requests that both set or both clear them end as a pair whichever
  comes last. There is one exception, and `lifecycle_recancel` shows it.
- *Nothing becomes expired without a date*, although between the job's read of a row
  and its commit other transactions write the same row; an import may store such a row
  from the start, which is why `ExpiresWithDate` speaks of steps.
- *Only a renewal revives* a package or organisation licence: no chain of edits,
  cancellations and job runs does.
- *A review decision stands*: the sync reads the review mark behind the row lock,
  so a review that commits during the matching queries is seen. The mutants of
  these properties show the same model with that care removed.
- *Nobody is assigned on a guess*: each new employee link comes from a request,
  an import or a match of the highest level.
- *Stale responses go*: late fills, invalidations ahead of the commit, changes
  without any, Redis errors and restarts all leave stale entries, and each is
  gone with its time to live once the data stops changing (`EventuallyFresh`; the
  mutant renews the time to live on a hit). Dropping *after* the commit does more:
  nothing stored before the commit is left (`ApplyDropsOlder`).
- *A session has one token*: no overlap of sign-ins, rotations, logouts and
  deactivations loses or forks a session, unless two requests work on the same
  session at once (two refreshes with one token do fork it; `clashed` says so).
- *Roles are what was asked*, with the same exception for two replacements of one
  user's roles, which may leave the union, and but for the superadmin role that a
  sign-in of the configured superadministrator adds; a role that users hold goes only
  if it was assigned after the holders were counted.
- *An import accounts for its rows* and its preview foretells it, for files without
  duplicates and hidden flaws; strict mode leaves exactly the rows before the first
  bad one.
- *A backup taken while nobody works imports*; one taken while rows are inserted may
  not, since each table is read with its own snapshot.
- *A client that reports success has read everybody*, except in the three cases that
  `MayBeShort` names.
- *The row for all providers adds up* for each month, however often and however
  overlapping it was created, as long as those that overlapped computed the same costs;
  what a deleted provider had contributed stays in it. Overlapping creations with
  different costs may leave one's rows beside the other's total (`mixed`).
- *An HRIS sync leaves the table as listed*, and links everybody to the manager
  that the list names, but for the rows that requests commit after it has resolved the
  managers: those links wait for the next sync.
- *Two figures of the same rows agree*, as far as the headings mean the same: the
  licences whose mark of the matching contradicts their employee are the exception. The
  utilization report differs from the others by the disabled providers, which it leaves
  out, and by the packages' cost for licences without a price, and by no more.
- *Nothing expires in silence*, because the job commits after it has announced.
- *What a successful sync listed is stored*, whatever later syncs, removals that
  fail half-way and crashes do, and no crash leaves a provider "in progress".

Where a property has an exception, the exception is part of its statement and is
reached in the run: it is the behaviour of the code, promised otherwise nowhere.

What the violated runs show (`findings` in `PROJECT.json` quotes the documents):

- `cancel_package` reads `package.seats`, a column the ORM class lacks, after its
  assignments and before its commit: no package cancellation is ever recorded.
- A renewal whose copy was loaded while the row was active does not reset the
  status that the job commits in between: the row is renewed and stays expired.
- `upsert` overwrites `employee_id` of a reviewed licence on every sync; a
  confirmed suggestion loses its employee.
- A cancel for the date that the loaded row already has does not write the date again;
  if a renewal clears it in between, the licence ends cancelled without a date, and no
  job run ever marks it.
- `trigger_sync` drops the caches before `get_db` commits: a read in between stores
  the old figures, and they stay for the whole time to live.
- A restoration deletes the accounts before the audit log, which refers to them
  without `ON DELETE`: it fails on every system somebody has signed in to.

Seen while modelling, on no property's account: the settings page stores the Slack
token under `slack`, the jobs look under `slack_config`; a Slack answer that is no
JSON leaves the expiration job and rolls its marks back; an inactivity report
announces its first ten entries, an offboarding report its first five; the
announcement of what will expire is triggered every 24 hours from the start of the process, so daily
restarts keep it from running; a licence deleted here whose member had already left
cannot be removed at the provider again (the client answers "unknown"); the sync
overwrites the owner that an administrator entered for an administrator account.

### Bounds

The properties relate the columns of a row and the transactions that touch that
row. Transactions interact through rows only; with one row of a kind the races
on a row are all there, and what needs two rows is the order in which locks are
taken. `Deadlocked` needs two rows, and its only effect, an aborted transaction,
is also reached by `SyncFails`, and by `JobFails` when the job does not wait. Two days (`MaxDay = 1`) give
dates that are past, due and future with respect to `today`, and let midnight
pass while a transaction is open. One request at a time overlaps with the job and
the sync in `lifecycle_sync`, two with each other and the job in `lifecycle_rows`,
where the columns in question belong to requests alone; the proofs below hold for any
number. In `LicenseMatching` two employees are needed to replace a suggestion
or an assignment (`matching_candidates`), two requests to let reviewers race
(`matching_reviewers`); both at once exceed five million states, and the proofs
cover any number of either. A third employee adds nothing to a comparison of two. `Faults` says
whether requests may fail without a cause in the model: it is FALSE where a run
asks whether a request takes effect. In `DashboardCache` a stale entry needs one
read and one change; two requests, two changes (`MaxChanges`) and a time to live
of two ticks (`Ttl`, `ReportTtl`) let a late fill follow an invalidation, expire,
and be followed by another; two keys give an invalidation a first and a second
prefix.

In `components` a property is broken by one or two transactions of a kind and, where
other components interfere (imports, employees, removals), by steps of theirs that
need no request; a second user, custom role, provider or licence would be a row that
no statement relates to the first. Three tokens are a sign-in and two rotations;
three people and pages of two give a full and a short page, and room for somebody to
move from one to the other; four months hold a straight line of three and a year's
end; one generation of rows in 22 tables is what a foreign key relates. `MaxTokens`,
`MaxUpdates`, `MaxBackups`, `MaxChanges`, `MaxFetches`, `MaxCreations`, `MaxWrites` and
`MaxHistory` bound counters that the code lets grow; the proofs do not depend on
those of their modules.

### Fairness

In `LicenseLifecycle`: requests and syncs end (weak fairness: a
coroutine that can go on is scheduled, and a handler has no loop without an end).
A commit that waits for a row lock is granted it in turn (strong fairness:
PostgreSQL queues the waiters of a row). The job runs again and again (weak
fairness of its steps: APScheduler's daily trigger with `max_instances`), and not
every run fails (strong fairness of its steps). No fairness is assumed of
requests being made, of the providers, or of time. In `DashboardCache`: an open
request goes on until it ends, and time passes (weak fairness); nothing is assumed
of Redis, which may fail every call, nor of restarts. `LicenseMatching` and the
modules of `MCComponents` state no fairness: all their properties are safety.

## Proofs

`LicenseLifecycle_proofs` proves, for every set of rows, requests and syncs and
every calendar, from the assumptions `KindsDisjoint`, `TxsDistinct`,
`MarkersDistinct` and `BoundsOK` (the four kinds are disjoint, the transactions
distinct, the markers are no values, the bounds are bounds):

| Theorem | States |
|---|---|
| `TypeCorrect` | `Spec => []TypeOK` |
| `ExpiresOnlyWithDate` | `Spec => ExpiresWithDate` |
| `RevivalOnlyByRenewal` | `Spec => OnlyRenewalRevives` |
| `CancellationsPaired` | `Spec => []CancellationPaired` |

None of the three properties is inductive: a committed row says nothing about a
patch that is waiting in an open transaction. The proofs first reduce `Next` to
two statements about a single row and a single patch. `NextRow`: a committed row
stays, is created, is deleted, or becomes itself with the patch of *one*
committing transaction. `NextPatch`: a patch stays, is dropped, is computed
from the row as committed when it was loaded, or gets another status when a sync meets
the row again. The strengthened invariants then
speak of rows and patches together:

- `DatesSafe`: a patch that will set `expired` belongs to a row that has a date, and
  no patch of a licence or an organisation licence clears one;
- `RevivalSafe`: outside a renewal no patch of a package or organisation licence
  sets `active`;
- `PairsSafe`: syncs and the job write neither column, and the patch of a request
  (`PairPatch`) leaves a pair whatever the other requests have committed since it was
  loaded, unless the row is `outrun`. A patch that sets both, clears both or keeps both
  does so over any pair; the one that carries a fresh `cancelledAt` and no date relies on
  the date it has read, and only a clearing renewal takes that away.

Liveness (`CancellationMarked`, `ExpiryMarked`, `CancelTakesEffect`) is checked by
TLC only, since the prover reasons about neither ENABLED nor fairness.

`LicenseMatching_proofs` proves, for every set of licences, employees and
requests, from `MarkersDistinct`:

| Theorem | States |
|---|---|
| `MatchingTypes` | `Spec => []TypeOK` |
| `ReviewsRespected` | `Spec => []ReviewedStatus` |
| `DecisionsRefine` | `Spec => DecisionsStand`, the refinement of `MatchReview` |
| `PendingSuggestionsAreNamed` | `Spec => []SuggestionsNameEmployee` |
| `OnlyBetterSuggestions` | `Spec => BetterSuggestionsOnly` |
| `AssignmentsAreJustified` | `Spec => AssignmentHasEvidence` |

The types say of the sync which rows it has upserted, and of the contents it has
prepared for them that they are rows, also when it comes to a licence twice. The
invariant `IInv` adds three things to them. `RowsGood`: a row's decision
and its review mark agree in both directions. `RequestsGood`: what an open request
will send is either without any verdict, or marks the row reviewed, and then sends
a decision or relies on one the row had when it was loaded; `Keeps` says what the
others may do to that row in between. `SyncGood`: the contents the sync has
prepared for a locked row *succeed* the committed row (marks stay, decisions stay
unless the row is a service account, no decision appears). The last part holds
because the match columns are decided on the row as refreshed behind the lock, and
because nobody else writes a locked row. Each action preserves `IInv`
(`RowsChange`, `SyncMoves` carry the common part), and each commit maps to one step
of `MatchReview` (`CommitSimulates`, `SyncSimulates`, ...).

The two action properties speak of what a commit makes of rows it did not read last.
Their lemmas are about one row: what the sync may have prepared for a row that is now
as it is (`Succeeds`), what a request may send over it (`Keeps`) or take from it
(`Loosens`), and hence what each of the two commits can do to the employee and the
suggestion (`CommitLinks`, `SyncLinks`). That a suggestion names an employee needs
more than the row: the deletion of the employee reaches rows that the sync holds, and
what the sync has prepared must then not name the deleted one either.

`DashboardCache_proofs` proves, for every set of keys and requests and every time
to live, from `CacheAssumptions` (prefixes and bounds are what their names say):

| Theorem | States |
|---|---|
| `CacheTypes` | `Spec => []TypeOK` |
| `ApplyDropsOlderHolds` | `Spec => []ApplyDropsOlder` |

The property speaks of the end of a request only; `OlderStillToDrop` says what holds
on the way: from its commit on, every older dashboard still cached is one the
request has yet to drop, and a key that the SCAN passed without an entry holds no
older one. `StepMovesCache` reduces the steps of all other requests to three things
that can happen to an entry (it stays or ages, it goes, it is stored under the
changes committed so far), none of which breaks this. `EventuallyFresh` is liveness
and stays with TLC.

`Administration_proofs`, `Syncs_proofs` and `Costs_proofs` are about the components that
`MCComponents` composes, a part of each module for each component.

### Administration

*Sessions*, for every set of users and requests and any number of
tokens, from `SessionAssumptions` (the superadministrators are users, the marker is
none):

| Theorem | States |
|---|---|
| `SessionTypes` | `SessionsSpec => []SessionsTypeOK` |
| `SessionsHaveOneToken` | `SessionsSpec => []OneTokenPerSession` |
| `DeactivationHolds` | `SessionsSpec => []DeactivatedHoldsNoToken` |

Neither property is inductive: a commit acts on what the request read earlier.
`SessionInv` adds what an open request may rely on, as long as its user has not
clashed: two requests of one user that touch a session are known to clash
(`ClashesKnown`), a revocation has seen every unrevoked token of its user
(`SeenCovers`), the token of a refresh or logout is still unrevoked (`TokenStays`), and
nobody signs in to an inactive account (`NoLoginInactive`).

*Roles*, for any users, roles, permissions and requests, from
`RoleAssumptions` (holders, custom, system roles and the marker are different things,
what is asked for are sets of roles and of permissions):

| Theorem | States |
|---|---|
| `RoleTypes` | `RoleGrantsSpec => []RoleGrantsTypeOK` |
| `HeldRolesStay` | `RoleGrantsSpec => HeldRoleStays` |
| `RolesAreAsAsked` | `RoleGrantsSpec => []RolesAsAsked` |
| `SystemRolesDoFollow` | `RoleGrantsSpec => []SystemRolesFollow` |

`HoldersInv` says that an undisputed replacement in progress is the only one of its
user and that its DELETE has seen all of the user's rows, but for the superadmin row of
a configured superadministrator, which a sign-in may add behind it; `FollowInv` that what an
undisturbed synchronisation will insert completes what is due to the system roles;
`Unwatched` that a role being deleted, counted as unheld and not marked `taken`, is
held by nobody.

*Notifications*, for any rules, items and senders, from
`NoticeAssumptions`:

| Theorem | States |
|---|---|
| `NoticeTypes` | `NoticesSpec => []NoticesTypeOK` |
| `ExpiriesAnnounced` | `NoticesSpec => []NoSilentExpiry` |
| `RepeatsFollowLostAnswers` | `NoticesSpec => []RepeatsOnlyAfterLostAnswers` |

`NoticesInv` speaks of the marks that a job has not committed: once the job has read
the token, whatever it has marked has been heard of or is still in its list of calls
(`Announcing`, `Told`), so that a commit with an empty list leaves nothing unsaid. For
the repetitions, `SenderGood` bounds what was posted by the answers that were lost, and
those by the attempts.

*Imports*, for any keys and any set of files of any length, from `ImportAssumptions`:

| Theorem | States |
|---|---|
| `ImportTypes` | `ImportSpec => []ImportTypeOK` |
| `ImportsAreAccounted` | `ImportSpec => []ImportsAccount` |
| `ImportsAreForetold` | `ImportSpec => []PreviewForetells` |

What is said of a job that has ended is proved of an execution as it goes from row to
row (`ExecutionGood`): made, skipped and failed rows add up to the rows done
(`RowsAccounted`), a strict import that goes on has met no bad row (`StrictSoFar`) and
one that stopped has made exactly the rows before it (`StoppedAtRow`), and in a clean
file the rows made are those the preview counted (`CleanSoFar`). The last two are
cardinalities: that a set of new keys has one member per row of its first occurrence
is induction over the file, done as one row more at each step of the program.

*Backups*, for any configurations and tasks and any number of backups, from
`BackupAssumptions`:

| Theorem | States |
|---|---|
| `BackupTypes` | `BackupsSpec => []BackupsTypeOK` |
| `SchedulerFollows` | `BackupsSpec => []ScheduleFollowsConfig` |
| `BackupsAreKept` | `BackupsSpec => []BackupsKept` |

The scheduler is told before the commit. `SchedulerGood` therefore relates the job to
the configuration that is about to be committed by a flushed update, or to the
committed one when there is none; an update that does not touch the times must have
read the times it leaves alone. For the files, `RetentionGood` says that whoever
cleans up works with at least the lowest retention ever configured.

*Restoration*, for any generations of rows:

| Theorem | States |
|---|---|
| `RestoreTypes` | `RestoreSpec => []RestoreTypeOK` |
| `QuietBackupsCanBeRestored` | `RestoreSpec => []QuietBackupImports` |
| `SetupRemovesNoAccount` | `RestoreSpec => SetupSparesAccounts` |

`RestoreInv` needs that the committed rows refer to rows that are there
(`RestoreClosed`), that accounts came with their log entries (`Logged`), and what a
running transaction has not deleted keeps both (`TransactionGood`: this is the order
of the deletions). A quiet backup equals the database table by table up to the table
being read (`ExportGood`), hence is closed when it is complete (`TakenGood`), and the
import's order over the 22 tables then meets no foreign key (`FlushNumbers`).

### Syncs

*Sync runs*, for any providers, members, runs and removals, from
`SyncAssumptions` (the marker is no member, the providers are finitely many):

| Theorem | States |
|---|---|
| `SyncTypes` | `ProviderSyncSpec => []ProviderSyncTypeOK` |
| `SyncedMembersStored` | `ProviderSyncSpec => []SyncedMembersAreStored` |

`SyncInv` adds what open transactions will commit: a run credits only members that it
has written, and has written or has yet to write whatever the provider listed; only
the provider it is working on is "in progress" in it, which is why no commit says so;
a removal deletes only what the provider agreed to remove, and that is no longer
credited.

*Provider clients*, for every page size, cap, number of people and any client, from
`FetchAssumptions`:

| Theorem | States |
|---|---|
| `FetchTypes` | `FetchSpec => []FetchTypeOK` |
| `SuccessReadsEverybody` | `FetchSpec => []SuccessIsWhole` |

While pages are read, everybody who was there throughout and whom the reading has
passed has been read, in this pass and in the ones before (`NobodyMissed`), unless one
of the exceptions of `MayBeShort` already applies. For a token, "passed" compares
people; for an offset it compares *ranks* in the list, and the proof is about how the
rank of a member moves when somebody else joins or leaves. A last page then ends the
list (`WholePass`).

*Employees*, for any employees, addresses and requests, from `DirectoryAssumptions`:

| Theorem | States |
|---|---|
| `DirectoryTypes` | `DirectorySpec => []DirectoryTypeOK` |
| `SyncsFollowTheList` | `DirectorySpec => SyncFollowsTheList` |

`StaffInv` says that committed addresses are unique (`Addressed`), that what open
transactions have written fits the table and gives different rows and addresses
(`WroteGood`), so that any of them may commit first, and that what a sync has written
is as listed and linked, but for the rows committed since (`SyncSound`, `Linked`). The
writing of a sync is a loop over a list in some order; its result is described by what
holds after each prefix of the list (who is written, who is not touched, no address
twice), which the recursive function of the model carries from one prefix to the next.
Then every commit of a request has to be shown to disturb only links between rows that
count as committed since (`LinkedSince`), and the commit of the sync yields what was
written.

### Costs

*Cost snapshots*, for any providers, months and creations, from `CostAssumptions`
(the providers are finitely many, so that their costs have a sum):

| Theorem | States |
|---|---|
| `CostTypes` | `CostSpec => []CostTypeOK` |
| `MonthsHaveOneTotal` | `CostSpec => []OneTotalPerMonth` |
| `TotalsAddUp` | `CostSpec => []TotalAddsUp` |

`CostInv` holds the argument why looking before inserting is enough although no
constraint covers the row for all providers, in months that are not `apart`: while a
month has no such row it has none of a provider either (`Untouched`), so a creation has
inserted, not updated, whatever it has dealt with (`FirstInserts`); two creations at
once have a provider in common (`Meet`), whose row only one of them inserts
(`InsertedOnce`); therefore what a creation that is done with the providers has seen of
the row for all still holds when it commits (`TotalSeen`).

The row for all is also the sum of the others. `SumsInv` says of the open creations of a
month that is not `mixed` that they have computed the same costs (`Alike`), of each of
them that the rows it is done with hold, or will hold when it commits, what it has
computed (`SumsOf`), and of a committed month that the row for all is the sum of its
parts, which are the rows of the providers and of the deleted ones. A deletion takes a
row away and nothing else, since it waits for the creations that hold the row.

*Pricing*, for any licences, licence types, prices and requests, from
`PricingAssumptions` (a combined type has parts, and there are finitely many):

| Theorem | States |
|---|---|
| `PricingTypes` | `PricingSpec => []PricingTypeOK` |
| `CostsFollowPrices` | `PricingSpec => []PricesCurrent` |

`PricingInv` is about what open transactions will commit. The provider's row is written
by one of them at a time (`OneWriter`), a request that holds it has read what is
committed there, and a row is written either by the request or by a sync
(`RowsApart`). A request that spreads a package price must have written every active
row of the type, but for those created since (`Spreading`, the set `crossed`);
what a sync prepared is current under the prices it read (`SyncGood`).

*Reports and lists*, for any accounts, costs and staff, from `FiguresAssumptions`:

| Theorem | States |
|---|---|
| `FigureTypes` | `FiguresSpec => []FiguresTypeOK` |
| `FiguresNeverContradict` | `FiguresSpec => []FiguresAgree` |

The invariant is small (an external review is about a foreign address). The work is
in the sums: the total over all rows is the sum over departments, over employees or over
providers because the groups partition the rows (`SumByGroups`); the enabled providers
are a part of the groups, and where a sum of theirs is zero the package's cost takes its
place.

*Forecasts*, for any costs, horizon, contracts and adjustments, from
`ForecastAssumptions`:

| Theorem | States |
|---|---|
| `ForecastTypes` | `ForecastSpec => []ForecastTypeOK` |
| `ForecastsAreSound` | `ForecastSpec => []ForecastsSound` |

The regression's sums over a straight line have closed forms (`1 + ... + n` and the
squares), proved by their smallest counterexample; with them slope and intercept are
exact, and the forecast is the line, cut off at zero. The scenario is proved point by
point, one adjustment after the other.

`Sums_proofs` holds what these share: sums over finite sets as the community modules
define them, with a member added or removed, over disjoint sets and over groups. The
library's induction theorems take an operator as a parameter and cannot be used here;
each fact is proved from a smallest set or number for which it would fail (`WFMin`,
`SmallestSet`).

### The components together

`Components_proofs` closes the gap to the run `components`, where thirteen modules
share one behaviour. A step of `ComponentsNext` is a step of one component and leaves
the variables of the others alone, so `ComponentsSpec` implies the specification of
each (`SessionsCompose`, ...):

| Theorem | States |
|---|---|
| `ComponentTypes` | `ComponentsSpec => []ComponentsTypeOK` |
| `ComponentsAreSafe` | `ComponentsSpec =>` every other property of the run |

Every safety property of a passing run is thus a theorem. Left to TLC are the four
liveness properties (`CancellationMarked`, `ExpiryMarked`, `CancelTakesEffect`,
`EventuallyFresh`), whose fairness speaks of ENABLED, and the counterexamples of the
properties that the code violates.
The proofs hold of the modules' constants under the named assumptions only; TLC
evaluates these in the runs.

## Seen while modelling

The modelled code does the following; no run is about it, because no document or
comment settles what was meant or because a single call shows it:

- Applying the service account rules flags a licence and leaves its employee linked
  (`services/service_account_service.py:230`), while the request that sets the flag of
  a single account unlinks it (`services/license_service.py:667`).
- A restoration skips provider files without content and swallows the errors of
  writing them (`services/backup_service.py:1224-1235`), and reports success: the
  database may list files that are not there (`Restore`, action `Import`).
- Of two overlapping updates of the backup configuration the later one writes back the
  whole configuration it has read, and with it the old value of a field that only the
  earlier one changed (`Backups`, `Merged` and `UpdateCommit`).
- A CSV import stores any status, also `expired` without a date (`LicenseLifecycle`,
  `NewStatuses`).
- A deleted provider takes its snapshots along and leaves the totals of past months
  (`CostHistory`, `parts`).

## Not modelled

- *External accounts, payment methods, administrator account patterns, audit log,
  logo files and avatars*: independent rows whose order is decided by one constraint
  or by none. (Two requests that set different default payment methods leave two
  defaults; a model of it would say no more.) The administrator patterns have the
  shape of the service account rules in `LicenseMatching`.
- *Exports, e-mail, the Slack test message, connection tests, HTTP middleware*:
  formatting or I/O without state of their own.
- *The guards that keep the last superadministrator*: reads of one count before one
  write, of the same shape as the deletion of a role in `RoleGrants`.
- *String similarity, parsing of dates and numbers, encryption and compression*: only
  their outcomes are told apart.
- *Forecasts per department, confidence intervals, currencies*: variants of the same
  computations.
- *The rows of an HRIS sync one by one*: they are invisible until its commit, so that the
  loop and the resolution are one step; the commit is another.
- *What the avatars are*: the sync waits for them, nothing else depends on them.
- *The keys of licences* in `ProviderFetch`: see the hazards.
- *The front end*: no state beyond the browser.

## Plan

Done: the lifecycle, matching, cache, sync, session, role, import, backup, pricing,
cost, forecast, report, notification and employee modules, and proofs of all their
safety properties. In order of what could still go wrong unnoticed:

1. `ProviderSync` composed with `LicenseLifecycle`: one transaction whose licence
   updates and outcome are lost together.
2. The administrator patterns as a second instance of the service account rules.
