# Verification of the Rooti server

TLA+ models of the server in `src/app`: a FastAPI application over PostgreSQL
(SQLAlchemy, one transaction per request), Redis (refresh tokens, cache), an
object store and a mail provider. Each module is translated from the Python
source; `PROJECT.json` maps every definition to the lines it stands for.

How a request runs decides how it is modelled. A handler is a coroutine; other
requests (of this process or another one) may run at each `await`: a query, a
Redis call, the final commit. `get_db_session` commits **after** the handler has
answered, or rolls back: on an exception, and always in read-only mode. A
transaction reads what others have committed (READ COMMITTED) and assigned
attributes reach the database at a flush or at the commit; an attribute set to
the value that was read is not written.

## 1. Inventory

| Component | State | Operations | What is hard | What makes it correct |
|---|---|---|---|---|
| Authentication sessions (`services/auth.py`, `core/security.py`) | one Redis key per user with the current refresh token; users table; tokens that clients hold | login, refresh, logout, change password, signup; set_enabled of user administration | compare and replace are two Redis calls; removal before commit; tokens before commit; whole-second times; lost answers | a replaced token buys nothing; no false alarm; a password change ends sessions; a disabled account is cut off |
| Request transaction (`core/database.py`) | one session per request, pool of 5 connections | commit, rollback, read-only rollback | commit after the answer; pool timeout | acknowledged changes apply; no connection leaks |
| Bulk e-mail jobs (`services/document.py`, `api/v1/work_journals.py`, `integrations/email.py`) | `bulk_email_jobs`; runner in memory; pool | request, mark_sending, send, complete_job, commits | crash between commits; lost answer of the provider; aborted transaction; exhausted pool; cap | one mail at most, after SENDING is committed; closed rows tell the truth; jobs are closed in the end |
| Attendance (`services/workrecord.py`, `services/schedule.py`) | records with open end, schedules | begin, end, begin_process, end_process, create, batch_make, close | check-then-insert with no constraint; two writers of an end time | one open record per type; OFF closes its schedule |
| Cache (`core/cache.py`, `services/company.py`, `services/job.py`) | Redis keys with expiry | get, set, evict around get, create, update, deactivate, sync_processes | eviction before commit; changes that evict nothing; swallowed errors | nothing uncommitted is shown; staleness has known causes and an end |
| Caregiver documents (`services/document.py`, `integrations/storage.py`, `services/caregiver.py`) | rows, log, stored files; relations that own them | upload, download, delete; register a worker, remove a relation | file and row are not one transaction; cascades; locks of foreign keys | files and rows come apart for known causes only; no dangling rows; downloads are logged; files go to their owner |
| Tenant scope (`core/tenant.py`, `api/deps.py`) | role and company of the caller | resolve_company_filter, assert_company | every handler of a scoped resource (leaves, kiosks, journal schedules, bulk e-mail jobs, journals) must apply it; the row may move meanwhile; routes of workers, schedules, companies take no scope | a charger reads and writes only scoped rows of the own company |
| Leaves, kiosks, journal schedules, chargers, boards | rows of a company; posts of an author | create, decide, delete; bind, assign, unbind; create, update, delete; set_hired | repeated decisions; edits of a stale copy; UNIQUE code | decisions stand; schedules have the day of their frequency |
| Workers, hiring, assignments (`services/worker.py`, `services/job.py`) | workers, memberships, assignments | create, hire, fire, retire, rehire, assign, unassign | check-then-insert against UNIQUE; reactivation; repeated calls | one membership, one assignment; the first retirement counts; a fired worker stays out |
| Processes of a standard (`sync_processes`) | ordered list | synchronise with a given list | UNIQUE(standard, sequence) at every statement; order of a flush; records that refer to a process | the list is what was asked for; a recorded process stays |
| Accounts and companies | user names, e-mails, company names | signup, update_profile, create, update, deactivate | uniqueness by check only (e-mail, company name) | a duplicate needs a race, or an operation that does not check |
| Listings (`core/pagination.py`, `core/response.py`, every `search`) | nine kinds of rows | COUNT, page query, the client's next page | rows change between the statements; orders with ties | nothing missed or repeated without such a cause |
| Upload validation, rendering, notifications, rate limits, errors, metrics, configuration | none shared | | pure or I/O | the checks of an upload only |

The components interact through shared state: disabling an account acts on
refresh through the users table, closing of a schedule and ending of a record
write the same row, the runner and the requests share the pool, a company shows
in the cached standards, and the company of a charger's row decides what the
charger may list, read and write. The list of everything that is hard to test, with lines
and the properties that watch it, is `hazards` in `PROJECT.json`.

## 2. Modules

| Module | Models | Used by |
|---|---|---|
| `AuthSession` | sessions, tokens, store, accounts | `MCAuthSession` (2 passing runs), `AuthSessionProofs` |
| `AuthSessionProofs` | theorems on `AuthSession` | |
| `JobLifecycle` | abstract: what the job history promises, and what follows from it | `BulkEmailJobs` (refinement), `BulkEmailJobsProofs` |
| `BulkEmailJobs` | endpoint, runner, pool, provider | `MCBulkEmailJobs` (1 passing, 1 violation), `BulkEmailJobsProofs` |
| `BulkEmailJobsProofs` | theorems on `BulkEmailJobs` | |
| `WorkRecords` | records and schedules | `MCWorkRecords` (1 passing), `WorkRecordsProofs` |
| `WorkRecordsProofs` | theorems on `WorkRecords` | |
| `CacheAside` | cache, rows, gets and changes | `MCCacheAside` (1 passing), `CacheAsideProofs` |
| `CacheAsideProofs` | theorems on `CacheAside` and `JobProcesses` | |
| `Documents` | documents, files, log, relations | `MCDocuments` (1 passing), `DocumentsProofs` |
| `DocumentsProofs` | theorems on `Documents` | |
| `TenantScope` | the rules on the caller's company | `CompanyResources` |
| `OrmRow` | what a session writes for a row it loaded and edited | `CompanyResources`, `Registry` |
| `CompanyResources` | leaves, kiosks, journal schedules, chargers, posts; listings in the scope | `MCCompanyResources` (1 passing), `CompanyResourcesProofs` |
| `CompanyResourcesProofs` | theorems on `CompanyResources` | |
| `Registry` | users, companies, memberships, assignments | `MCRegistry` (1 passing), `RegistryProofs` |
| `RegistryProofs` | theorems on `Registry` | |
| `JobProcesses` | `sync_processes` as a flush | `MCJobProcesses` (1 passing, 1 violation), `CacheAsideProofs` |
| `PagedSearch` | the listings, their pages, a client | `MCPagedSearch` (1 passing), `PagedSearchProofs` |
| `PagedSearchProofs` | theorems on `PagedSearch` | |

Operators with a suffix such as `matches_AnyEntry` are mutants: the definition of
the same name as a plausible bug would have it. `PROJECT.json` names, for each
property of a passing run, a mutant under which TLC refutes it.

### AuthSession

A request is a slot of `Requests` with the locals of its handler and a program
counter; each await is a step.

| Code | Actions |
|---|---|
| `POST /auth/login` | `LoginBegin`, `LoginFetch`, `Mint`, `Save` |
| `POST /auth/refresh` | `RefreshBegin`, `RefreshMatch`, `RefreshRead`, `Mint`, `Save` or `Revoke` |
| `POST /auth/logout` | `LogoutBegin`, `Revoke` |
| `POST /auth/me/password` | `ChangePasswordBegin`, `ChangePasswordRead`, `ChangePasswordRevoke`, `Commit` |
| `PATCH /users/{id}/enabled` | `SetEnabledBegin`, `SetEnabledRead`, `Commit` |
| `POST /auth/caregivers/signup` | `SignupBegin`, `Mint`, `Save`, `Commit` |
| an error, disconnect or crash at any await | `Abort` |
| clock, expiry in Redis (external) | `Tick` |

A token is the record of the claims that tell two tokens apart. `Save(r, FALSE)`
is a lost answer. A request whose last step is a Redis call ends there; what its
commit writes besides (`last_login_at`) no property reads. The variables
`minting`, `dup`, `retired`, `tainted`, `disabledAt` and the fields `cred`,
`raced`, `reused` are history: no guard reads them. Two requests of one user
*race* when both are in flight at a time and one changes the password or the
account; `tainted` collects the tokens of requests that raced and of refreshes of
such tokens.

### BulkEmailJobs and JobLifecycle

`row` is the committed row, `loc` the runner's copy. A runner takes a connection
at its first statement after a commit and gives it back at commit, rollback or
close. `mode` holds the settings, chosen at the start. `Mail(j, accepted, answered)` separates the provider's acceptance from its
answer. `PoolTimeout`, `DbError` and `Crash` are what can go wrong. A connection is
awaited where `mark_sending` and, after the commit, `complete_job` read the job;
both reads are outside the `try` of `complete_job`, so a timeout ends the runner and
leaves the job QUEUED or SENDING. An error at that read of `complete_job` does so
too; after one inside `send()` the transaction is aborted and the write of the
outcome is refused (at `query` `DbError` may be either). In read-only mode the runner has no job (`run_bulk_email_inert`).
Other requests use the pool too; they are not modelled, so a timeout occurs here
only when other jobs hold every connection.

`JobLifecycle` has the status of each job, the count shown and the mails sent; it
says in which order they may change. `ImplementsLifecycle` is the refinement,
with `status` and `count` read off the committed rows and `sent` off the mails of
recorded jobs.

### WorkRecords

A request reads (`...Read`), then commits (`...Commit`). Types and processes share
the code of `BeginRead`, `EndRead` and `EndCommit`; a process differs where the code
differs (`begin_process` does not look for an open record). `raced` on a record or
request is history: another request of the same operation, schedule and type was
in flight at the same time. The process a client names is taken to exist.

### CacheAside

A row is the number of commits that wrote it. A standard's response is read row
by row (columns, processes, company) and cached as seen. `ok = FALSE` is a Redis
call that failed and was swallowed. `update` stands for update and deactivate; a
change that alters nothing ends like `Abort`.

### Documents

An upload is check, store, flush (INSERT) and commit; a download is load, open and
commit (of its log entry); a delete is load, removal of the file, commit. A key of
the store names its row. A refused request changes nothing and has no action: its
check is the guard of the step. `Abort` ends a request at any await, `UploadStoreFails`
is a driver that raises, and may leave a partial file. `RelationLocked` is the lock that
PostgreSQL's INSERT holds on the relation its foreign key names: the removal of the
relation waits for it. `past` is history: which files were left behind or removed,
and by what.

### CompanyResources, TenantScope, OrmRow

All single-row edits have one shape: load and check (`DecideLeave`, `BindKiosk`, ...,
one action per handler), then a commit that INSERTs, DELETEs or writes
the columns that differ from the loaded copy (`CommitInsert`, `CommitDelete`, `CommitUpdate`,
with `Written` of `OrmRow`). Rows of all tables are in `db`, by id. A reading action puts the
companies of the rows it returns into `answer`, which the next step takes away. `sure` is
history: what no edit of a stale copy has put in doubt. `SetHired` shows two facts
that no property needs: a body without `hired` sets it, and a charger who is not
hired keeps the scope.

### Registry

The same shape over users, companies, memberships and assignments. `checked` marks a
request that refused a taken e-mail or name, `others` (history) the rows that were
written since it read. `Refused` is a UNIQUE constraint at the INSERT; there is none on
e-mails and company names. The clock of `retired_at` is the count of requests.

### JobProcesses

`Sync` loads the list and edits the copy, `Apply` is the flush and the commit that
succeed, `Refuse` the flush that does not. The session sends UPDATEs by primary key,
then INSERTs, then DELETEs (external: SQLAlchemy's unit of work); the constraint on
(standard, sequence) is checked at each: an UPDATE may meet the numbers of the other
rows, never its own. The foreign key of process records refuses the deletion of a recorded
process. New processes draw their ids in the order of the list. A new process that takes
the number of a dropped one, or two that exchange theirs, is therefore refused. The names
differ from those of `CacheAside` (`Present`, `SyncSpec`, ...) so that one module can extend
both.

### PagedSearch

Each listing is the rows it selects and the column that orders them. `Count` and
`Query` are the two statements of a page; rows come, change sides and go between any
two. `Pages` gives every page the database may return when the order leaves rows
open. A client follows `has_next`.

## 3. Runs

| Run | Instance | Shows |
|---|---|---|
| `auth_rotation` | 1 account, 3 requests, clock 0..2, TTLs 1 and 2; login, refresh, logout | `TypeOK`; `LiveTokenAccounted`: an unexpired token a client holds is in the store unless it was replaced or revoked; `ReuseRefused`: a refresh that begins with a replaced token gets no pair, if one request only created that string |
| `auth_accounts` | 1 account from its signup on, 2 passwords, 2 requests, clock 0..1; signup, login, refresh, change password, set enabled | `StaleSessionOnlyByRace`; `DisabledCutOff`: AccessTTL after the change no access token works, races apart; `NoPairWithoutRow`: the pair of a signup that never commits is never exchanged |
| `bulk_faults` | 3 jobs, 2 connections, cap 2, up to 3 schedules, 1 fault; production, read-only, mails off | `TypeOK`, `NoConnectionLeak`, `ClosedRowHonest`, `ImplementsLifecycle`, `EventuallyClosed`; no deadlock before every runner is over |
| `records_races` | 1 schedule, the type OFF and a process, 2 instants, 3 requests, 2 records | `TypeOK`, `SecondOpenOnlyByRace`, `OffClosesSchedule`, `EndRewrittenOnlyByRace` |
| `cache` | 1 company, 1 standard, 2 requests, 4 changes, TTL 2 | `TypeOK`, `CacheShowsCommitted`, `StaleOnlyByRaceOrMiss`, `EventuallyFresh` |
| `documents` | 2 caregivers, an administrator, 1 worker, 2 relations, 2 documents, 2 requests, every kind of upload | `TypeOK`; `NoDanglingRow`; `FilesExplained`: which file has no row and which row no file, and why; `DownloadsLogged`; `HandedToOwner` |
| `resources` | 2 companies, 1 administrator, a charger with and one without a company, 1 leave, 2 kiosks, 1 schedule, 1 post, a job and a journal of each company, 2 requests, 3 in all | `TypeOK`; `ReadsInScope`, `WritesInScope`; `ShapeUnlessRaced`: a schedule has the day of its frequency once an update set it; `DecisionsStand` |
| `registry` | 3 users, 2 companies, 2 memberships, 2 assignments, 2 requests, 4 in all | `TypeOK`; `UniqueKeysHold`; `DuplicatesOnlyByRace`; `RetiredOnceUnlessRaced`; `FiredStaysOut` |
| `processes` | a standard with 2 processes, 3 numbers, 2 overlapping lists of up to 2 items, any records | `ProcessesTypeOK` (numbers stay unique), `RecordedKept`, `SyncExactUnlessRaced` |
| `paging` | 3 rows, 2 dates, pages of 1 and 2, 3 changes, every listing | `TypeOK`, `MissedOnlyByChange`, `RepeatedOnlyByEntry` |

Runs that TLC refutes, each a disagreement of the code with a line of the
repository (quoted under `findings`):

| Run | What happens |
|---|---|
| `bulk_pool` | a runner that gets no connection leaves its job QUEUED |
| `processes_order` | a list that stands by itself is refused on the way to it |

Other disagreements are under `findings` without a run; the models contain the
steps that lead to them, and the properties above except exactly these cases: a
refresh in the second of issue returns the token it was given; two refreshes with one
token both pass the check; a login with the old password between removal and commit
survives the change; a change is acknowledged in read-only mode and rolled back; a
failed query leaves the outcome of a job to an aborted transaction; two concurrent
begins leave two open records; the log of a document is deleted with it.

Two more facts the models show without a run of their own: a day without
schedules ends as SUCCESS with no mail (the migration V8 says that SUCCESS records
a message id), and two calls of `begin_process` one after the other leave two open
records, after which `end_process` always fails.

**Bounds.** Times are in ticks, with an access lifetime shorter than the refresh
lifetime and a clock (`MaxTime`) that reaches both. Two requests show every pairwise
race; the runs on rotation and records have three, so that a third request can
meet what a race of two has left. `MaxSchedules` is one above `Cap`, so that lists
below, at and above the cap occur. `PoolSize` is below the number of
jobs. Two requests at a time give every pairwise overlap of two edits or of an
edit and a removal; a third request in `resources`, and a third and fourth in
`registry`, make the rows that two then meet (a duplicate needs a row to
collide with, a fired membership one that was hired).
One kiosk code is enough for two kiosks to collide. Pages of one and two over three rows have
first, middle, last and partial pages; three changes let a row leave and another
enter during one walk. `MaxId` of `JobProcesses` has room for every INSERT of its syncs. `MaxFaults`, `MaxRecords` and `MaxWrites` bound counters only: a create of the
company and of the standard leave two further changes in the cache run.
`Endpoints` selects what the clients of an instance call. The
`resources` run takes its reads only while no request is in flight (`ReadsBetweenRequests`):
a read depends on the rows alone, and every combination of rows is also met with no
request in flight, since a request in flight can always be rolled back. Request slots are
interchangeable, and so are ids that nothing orders; the runs without liveness
properties use that symmetry. `ReadOnly` is FALSE in the runs; the theorems hold for both values.

**Fairness.** `EventuallyClosed` assumes that a started runner goes on: the event loop schedules a background task that is ready,
the pool answers within `pool_timeout`, rendering and the provider's call return or
raise. It does not assume that processes survive or statements succeed.
`EventuallyFresh` assumes that a request which is being served goes on and that time
passes in Redis. No fairness is assumed of arrivals, faults or failing calls.

## 4. Proofs

A proof module `<Module>Proofs` extends its component (`CacheAsideProofs` two of them, which
are both about the processes of a standard) and proves theorems of the
specification for every choice of the constants that satisfies the named
assumptions of the component. Every one has the same argument: an inductive
invariant (`...Inv`), a conjunction of the properties proved and of what they
need; a lemma that the initial states satisfy it and one that `[Next]_vars`
preserves it, with a step for each action; then the temporal theorem from these.
Each invariant was also model-checked on its component's run. An action property
is proved of each step from the invariant that holds before it.

The assumptions say no more than that constants have their types, that bounds are
natural numbers, that an id belongs to one table, that what stands for a missing value
(`None`) is no value, that seeds exist, that times to live are positive, that a page
holds 1 to 100 rows, that tables are finite, and that `job_processes` has an id for every
item of every sync (`EnoughIds`). No theorem assumes anything of the numbers
of requests, users or rows, of their interleaving, or of the faults.

### AuthSessionProofs

| Theorem | Property |
|---|---|
| `TypeCorrect` | `TypeOK`, inductive because it holds `WellFormed`: which locals a handler has assigned at each program counter |
| `PasswordChangeEndsSessions` | `StaleSessionOnlyByRace` |
| `ReusedTokensRefused`, `HonestClientsAccepted` | `ReuseRefused`, `LiveTokenAccounted` |
| `DisabledAccountsCutOff`, `PairsNeedRows` | `DisabledCutOff`, `NoPairWithoutRow` |

Three invariants, each the one before with more:

* `SessionInv`. `StaleSessionOnlyByRace` is not inductive: a `Save` may store a
  stale session if the request has been holding an old password since its check, and a
  `Commit` may make a stored session stale. `RaceMarked`: of two requests of a user in
  flight together, one a change, the change has marked the other. `UnusedUntouched`: an id
  no account has yet has no session, and no request past its first read. `CredCurrent`: an unmarked
  request past its check holds the present password. `ClearedBeforeCommit`: when a
  change waits for its commit, what the store holds came from a request it raced with.
* `TokenInv` is about strings. A retired token comes back to the store only if the same claims
  are signed twice within a second, and this may be long before it is saved. So: no token comes from
  the future, and one of this second has marked its user (`MintedMarked`); a retired token
  that is stored, or about to be saved, was created twice (`StoredOnce`, `PendingOnce`);
  a refresh that began with a retired token knows so (`ReusedRetired`); a key outlives
  its token (`EntryOutlives`).
* `AccountInv`: an unmarked request about to create or save a pair acts for an
  enabled account, which is in the table unless the request is its signup
  (`EnabledCurrent`); the access tokens of a disabled account were issued before it was
  disabled (`IssuedBefore`).

### BulkEmailJobsProofs

`TypeCorrect`, `RowsFollowRunners` (`RunnerInv` itself), `NoLeak` (`NoConnectionLeak`),
`OutcomesHonest` (`ClosedRowHonest`) and `HistoryImplemented`: `BulkEmailJobs`
implements `JobLifecycle` (`ImplementsLifecycle`).
`RunnerInv` says, for each program counter of a runner, what the committed row and the
runner's copy say (`Pending`, `Sending`, `Closed`), with a case apart for
read-only mode; `PoolInv` that the holders of connections are finitely many, no more than the
pool, and at statements of a transaction. The refinement goes action by action
(`HistoryStep`): a step of the runner that commits or mails is the step of
`JobLifecycle` on the mapped variables, every other one a stutter.

Two theorems draw on the refinement: what is proved of the abstract history holds of the rows.
`OneMailPerJob` (`OneMail` of `JobLifecycle`, inductive there as it stands): a recorded job
is mailed once at most, not before SENDING is committed, and SUCCESS shows the size of that mail.
`OutcomesStand` (`OutcomeStands`): an outcome is the last word.

Two more are the safety half of `EventuallyClosed`. `RunnersAdvance`: every step takes one
runner nearer to its end, at most 8 steps away, and leaves the others (no retry, no way back).
`UnfinishedJobsExplained`: a runner that is over has closed its job, unless a crash, a database
error or an exhausted pool hit it; so the job that the run `bulk_pool` shows left QUEUED has
one of these three causes (`HitInv` adds that only a database error aborts a transaction).

### WorkRecordsProofs

`TypeCorrect`, `SecondOpenNeedsRace` (`SecondOpenOnlyByRace`), `OffClosesItsSchedule`
(`OffClosesSchedule`) and the action property `EndsStand`
(`EndRewrittenOnlyByRace`). What is checked at the read is used at the commit, so
`RecordsInv` says what a request still knows: an open record that a begin did not see, or
one that an end saw open and is closed now, is that of a racing request (`BeginKnows`, `EndKnows`), and an
end of OFF that will not write the schedule has found it closed (`OffKnows`);
`RaceMarked` provides the marks.

`TwoOpenRecordsStuck` (`StuckForGood`) is what a second open record leads to, of a type after
a race or of a process after two plain calls of `begin_process`: once no end is past
its read, no call ends either record any more. An end that arrives later finds both
(`EndFindsNeither`: `scalar_one_or_none` raises), so the two remain open for good.

### CacheAsideProofs

`TypeCorrect`, `CacheIsCommitted` (`CacheShowsCommitted`), `StalenessExplained`
(`StaleOnlyByRaceOrMiss`). A get fills the cache with what it read some awaits
earlier. `SeenCommitted`: what a get has seen was committed, and is still the row unless it raced.
`EvictedOrRaced`: what has been cached between an eviction and its commit is marked.
`StaleRunsOut` is the safety half of `EventuallyFresh`: while no change is in flight or
arrives, and every get has seen the rows as they are (`Settled`, which is then kept), no entry
becomes stale, and each tick brings a stale one nearer to its expiry.

Of `JobProcesses`: `ProcessesTyped` (`ProcessesTypeOK`, with the uniqueness of the numbers),
`RecordedProcessesStay` (`RecordedKept`) and the action properties `SyncsExact`
(`SyncExactUnlessRaced`) and `FreeNumbersSuffice`. The parts of `ProcessesInv`:

* `Apart`: no two processes share a number. That a flush keeps it (`UpdatedTable`,
  `FlushedTable`) needs no induction over its statements: of two rows that would end with
  one number, the UPDATE sent last is refused, and so is an INSERT.
* `SyncsKnow`: a list names processes of the copy it was checked against, and the copy is
  the table until another sync commits.
* `IdsLeft`: the ids in use were drawn, and each sync in flight still has room for as many ids as a list
  has places. The range of `next` is not inductive without this count, whose lemma is
  `RoomKept`; `EnoughIds` is where it starts.
* `RecordedKept`, inductive because the foreign key is checked at the flush and not when
  the list is.

`LastPlace` (an id given twice takes its last number) gets the greatest place from the
well-founded order of the naturals. `FreeNumbersSuffice` is the other side of the run
`processes_order`, which shows lists refused that could be applied: a list that stands by itself and was not raced is
refused only if it hands out a number that some process still has.

### DocumentsProofs

`TypeCorrect` (`TypeOK`, and `RequestsTyped`: the locals a request has assigned at each
await), `RowsReferToRows` (`NoDanglingRow`), `FilesAndRowsExplained`
(`FilesExplained`), `EveryDownloadLogged` (`DownloadsLogged`) and the action property
`FilesGoToOwners` (`HandedToOwner`, which excepts a document removed between the check
and the opening of its file). The parts of `DocumentsInv` are about requests in
flight: ids and keys in use were drawn (`InUseDrawn`), the key of an upload is its own
(`UploadOwnsKey`), the relation of a flushed row stays (`FlushedHasRelation`, by the lock of
the foreign key), an id of a relation is that of one INSERT (`RegisterOwnsId`), a delete
has removed the file when it commits (`DeletedFileGone`), and whoever passed the
ownership check still owns the document while it lives (`LoadedOwned`, because a
relation is never given to another caregiver).

### CompanyResourcesProofs

`TypeCorrect`, `ReadsScoped` (`ReadsInScope`), `ShapesKept` (`ShapeUnlessRaced`),
`DecisionsKept` (`DecisionsStand`), and the action property `WritesScoped`
(`WritesInScope`). Every handler has the shape of `Entered` (`ArriveEnters`), every commit
that of `CommitEffect`. `ResourcesInv` has the copies that a request holds, which were both
its caller's (`Allowed`, within `Typed`); that a charger's row stays where it is
(`ChargersStay`); that a row about to be inserted is nobody else's and a post stays its
author's (`RequestsKnow`). The lemma `UpdatedRow` says what `Written` of `OrmRow`
yields; `LeaveCertain` and `ScheduleCertain` that a decision or an update of a row
that is still certain was taken from the present row.

### RegistryProofs

`TypeCorrect`, `KeysUnique` (`UniqueKeysHold`), and the action properties
`DuplicatesNeedRace` (`DuplicatesOnlyByRace`), `RetiredOnce` (`RetiredOnceUnlessRaced`),
`FiredForGood` (`FiredStaysOut`). `RegistryInv` relates a loaded copy to the
present row: they are equal until another request wrote the row (`Seen`), a checked
name or e-mail is taken only by rows that others wrote since (`StillFree`), and the
row of an INSERT is no other request's (`OwnRow`). That no UPDATE edits a key or hires
is part of `Typed`, shown of each handler (`ArriveEnters`).

### PagedSearchProofs

`TypeCorrect`, `NothingMissed` (`MissedOnlyByChange`), `NothingRepeated`
(`RepeatedOnlyByEntry`). The page a client asks for was announced by the answer before
(`Announced`); the answer to it may announce fewer, when rows left meanwhile. The
argument compares positions: the number of rows that come
before a row (`Before`) with the number of places the client has been through
(`Passed`). Of the listing as long as nothing disturbs it, `PagesInv` says that a row not yet shown lies behind
those places (`UnseenBehind`), that the last answer announced it
(`UnseenAnnounced`: those places are fewer than the COUNT, and `total_pages` rounds up), and that a shown
row lies within them (`SeenBefore`). Lemmas: `Rounding` on the arithmetic of
`total_pages`, `PageCut` on what a page of an order without ties holds, `Position` on
the cardinalities.

### What stays with TLC

* Liveness, `EventuallyClosed` and `EventuallyFresh`: fairness rests on ENABLED,
  which the prover does not handle. Proved of them is what fairness adds nothing to:
  that every step makes progress and none undoes it (`RunnersAdvance`,
  `UnfinishedJobsExplained`, `StaleRunsOut`).
* The two runs that TLC refutes; the code's answer is a single behaviour there.

## 5. Not modelled

Passwords and signatures are perfect: hashing, JWT encoding and header parsing
are left out, as are layouts of documents, log texts, HTTP mapping of errors,
metrics and start-up. Rate limits are a library's. Notifications have
no state that two requests share. The script that seeds demo data runs beside no
request. The enabled flag, time and next run of a journal schedule are left out:
nothing in the repository reads them. Keywords and dates only narrow listings. The
handlers that read one row or an unpaged list outside the tenant scope change nothing and are
stutters or absent. Files are whole or partial, never
read while they are written. Expiry is exact to the tick; the leeway of
clocks between processes is not modelled.

## 6. Open points

1. `begin_process` called twice: what two open records lead to is proved
   (`TwoOpenRecordsStuck`); a property that bounds the open records of a process by the
   calls that left them is not stated.
2. Lemmas that several proof modules state for themselves (`UpdatedRow`, `RowsAreRows`,
   `TableCases` of `CompanyResourcesProofs` and `RegistryProofs`) could be stated once on
   `OrmRow`.
