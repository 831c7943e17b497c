# TLA+ models of LBM-ERP

LBM-ERP (`src/`) is a multi-tenant ERP for lumber and building-material dealers.
Its back end (`src/backend/src`) is a NestJS application over PostgreSQL (one
database per tenant, through Prisma), Redis (edit locks) and BullMQ (queues and
repeatable jobs); its front end (`src/frontend/src`) is a Next.js application. This
directory holds TLA+ models of their parts, the TLC configurations that check them
on small instances, and proofs, checked by TLAPS, of the properties that matter
most for instances of any size.

    tlc -config Redis.cfg MCRedis            one run; the others alike
    tlapm RedisProofs.tla                    one module of proofs; the others alike

Paths below are relative to `src/backend/src` unless they begin with `src/`.

## 1. The system

A request carries a tenant subdomain. A middleware resolves it to a connected
database client; guards check the token and the role; a controller calls a service.
**A service method is a sequence of awaited queries, and almost nowhere is there a
transaction around them**: of everything below only the two saves of a UOM Group use
one. Node runs one method at a time between two awaits, but any other request, of
this process or of another, runs between two queries. The front end is alike: a
handler runs up to its `await` or timer, and clicks, answers and other timers come
in between. This is what the models are about: which guards, read in one query and
relied on in a later one, still mean something; which they do not; and what holds
anyway.

| component | state | operations | talks to | what is hard |
|---|---|---|---|---|
| **Concurrent-edit lock** (`common/locks`) | a Redis key per record: the user id, and a time to live | `acquire`, `heartbeat`, `release`, `isHeldBy` | called by Time clock; meant for every editable record | leases that run out under a holder who does not know; crashed holders; late releases; two tabs of one user |
| **Time clock** (`users/timeclock`) | `TimeClockRecord`: user, clock-in, clock-out, punch date, status | `clockIn`, `clockOut`, `override` with its lock, the daily sweep of a tenant and of all | Edit lock; Payroll reads its records; Personal days writes records | check-then-create; save by id of a stale read; midnight; lock checked but not held at the save; a tenant that does not answer |
| **Role hierarchy** (`users/roles`) | `Role`: parent, stored depth | `create`, `reparent` (walk, save, recursion), `remove` (transfer, delete), `setTwoFactorRequired` | Users refer to roles; Authentication reads the two-factor flag | two reparents that each check before the other writes; recursions that stop halfway |
| **UOM groups** (`uom/groups`, `types`, `conversion`, `history`) | Group, Role Assignments, Conversion Factors, history of factors, soft-deleted Types | create, update, remove a Group; remove a Type; convert as of a date | Categories, Functional Roles; the UOM pages | validation before the transaction; deltas against a stale read; dates as versions |
| **UOM reference data** (`uom/categories`, `functional-roles`, `import-export`) | Categories, Functional Roles | CRUD with in-use guards; import of a list of Groups | Groups and Types refer to them; the UOM pages | count-then-delete; imports that end halfway |
| **User administration** (`users/users.service.ts`) | `User`: role, unique e-mail and user name, audit pointers, soft delete | create, update, remove with transfer, change password | QuickBooks queue; roles | last Admin; non-transactional transfer; enqueue after save |
| **QuickBooks sync** (`users/quickbooks`) | queue of jobs; sync pointer with an edit sequence | enqueue, process | BullMQ | redelivery, two workers, read-then-write of the sequence |
| **Authentication** (`auth`) | failed-login count, lock-until; pending two-factor codes in memory | login, verify, issue tokens, log out | Users, roles; the log-in page | lost increments of the count; a restart loses codes |
| **Tenant clients** (`tenant`) | a map of connected clients | resolve | every request and every job | two misses at once |
| **Provisioning and fan-out** (`tenant/provisioning`, `migrate-fanout.ts`) | tenant databases, registry, Super Admin, schema versions | provision, migrate by stage | PostgreSQL, a child process | stops between irrevocable steps; what a retry does |
| **Jobs** (`jobs`) | definitions, schedules, registered schedulers, run rows | toggle, `syncAll`, process a run | BullMQ; the jobs page | a `syncAll` that writes what it read before another toggle; a crash in mid-run |
| **Payroll, personal days, holidays** (`users/payroll`, ...) | personal days, holidays | report; submit; create | reads and writes Time clock records | half-booked personal days; weekly overtime over several records |
| **Permissions, profiles, user groups** | rows and memberships | resolve, replace members, set permission | Users, roles | delete-then-create without transaction |
| **Seed scripts** (`src/backend/scripts`) | the rows of the demo tenant | fill them; run again | the same tables | stops, re-runs on another day |
| **Front end** (`src/frontend/src`) | the token of the browser, what pages show, forms and dialogs | log-in, jobs, tenants and UOM pages call the back end; the pages for users, roles and groups change the arrays of `lib/mock-data/users.ts` in place | the services above | answers out of order, dialogs dismissed while they save, timers that outlive their page |
| **Plain CRUD** (mail accounts, word templates, ...) | rows | one query each | none | nothing |

What would make each part correct:

- *Edit lock*: a session whose lease is running holds the lock, whatever others
  release, renew or let expire; an abandoned lock lapses.
- *Time clock*: one open punch per user; status and clock-out time agree; only punches
  of a past day are flagged, and all of those are, in every tenant.
- *Role hierarchy*: no cycle; stored depths are the nesting depths.
- *UOM*: a saved Group has every factor that its roles need; a Type, Category or
  Functional Role in use stays; the current factor is the open row of a history that is
  a timeline, in which the rate of any past day can be found; a validated save is
  accepted; an import does what its report says.
- *User administration*: at least one Admin; no audit pointer to a removed user; no save
  forgotten by the synchronisation.
- *Authentication*: no more than five wrong passwords between two lockouts; a lock
  lasts; a code is good once; a session belongs to who logged in.
- *Tenants*: one that can be reached has a migrated database that only moves on; a
  fan-out takes the stages in order; one client per tenant.
- *Jobs*: the registered schedulers are what the flags say once toggles cease; a firing
  ends and is recorded.
- *Payroll*: every closed record counts once, every open one raises the flag.
- *Rows in parts, seeds*: the parts are the ones asked for, and a re-run is safe.
- *Pages*: what is shown is what is stored; what is sent is what is shown.

`PROJECT.json` lists the components, and under `hazards` each of the difficulties at
its line, with the properties that cover it.

## 2. What is modelled

One action is one database or Redis command together with the code up to the next
`await`; in the front end, one click, answer or timer with its handler. A call in
progress occupies a slot; the slot remembers what the earlier queries of the call
returned. Beginning a call reads and checks; a failing check (a 4xx) changes nothing
and is simply not a step. `Abort`, `Fail`, `Crash` or `Restart` end a call anywhere: an
exception, a rejected constraint, a restart of the server. What the call wrote by then
stays written.

Some variables are *for the properties only*, and their comments say so: what happened so
far of that which a property excepts (`broken`, `spoilt`, `overlapped`, `slipped`, ...) or
requires (`serial`, `disciplined`, `undisturbed`, `settled`), or what was asked for or in
force (`asked`, `past`, `tries`, ...). No action of a module is guarded by them.

### LeaseLock and EditLock: the concurrent-edit lock

`LeaseLock` is the abstract lock: `holder[r]`, and the steps `Take`, `GiveUp`, `Lapse`.
`EditLock` is `ConcurrencyLockService` over Redis, with one operator for each of the
commands it sends:

| code | model |
|---|---|
| `SET key user PX ttl NX` in `acquire` | `SetNX` |
| `EXTEND_IF_OWNER_SCRIPT` | `ExtendIfOwner` |
| `DELETE_IF_OWNER_SCRIPT` | `DeleteIfOwner` |
| expiry | `Tick`, over `ttl` |
| opening, renewing, leaving the edit screen; a crash | `Open`, `Heartbeat`, `Close`, `Vanish` |

A *session* (a browser tab) is not the same as a *user* (the value of the key), hence
`UserOf`. `lease[s]` is what a session may rely on: a time to live from its last
successful acquire or heartbeat. It counts down with the same tick as the key, so it
is a bound on the truth, not the truth: nothing tells a session that it lost the lock.
`EditLock` implements `LeaseLock` (`LeaseLockSpec`).

### Timeclock and TenantSweep: the time clock

`Timeclock`, of one tenant, extends `LeaseLock` (a record's lock is keyed on its id; the
locks lapse at any time, as `EditLock` lets them). `punches` are the rows, `now` the
clock, `DayOf` the UTC day.

| code | model |
|---|---|
| `clockIn`: find, create | `ClockInCheck`, `ClockInCreate` |
| `clockOut`: find, update by id | `ClockOutFind`, `ClockOutSave` |
| `lockOverride`, `releaseOverrideLock` | `LockOverride`, `ReleaseOverrideLock` |
| `override`: `isHeldBy`, find and update, release | `OverrideCheck`, `OverrideSave`, `OverrideRelease` |
| `sweepTenant`: one `updateMany` against a `todayStart` computed before it | `SweepTenant(t)`, for any `t` up to now |

`slipped` are the records whose lock became free between the check of an override and its
save. A heartbeat renews a lease and leaves the holder alone, so it is no step here. The find
between `isHeldBy` and the update of `override` can only fail (no model action deletes
a record), so it is one step with the update. Records that Personal days creates are
closed from the start: they are in `Payroll`. `TenantSweep` is the loop of
`sweepAllTenants` over databases that come and go: `StartSweep`, `SweepNext`,
`SweepThrows`.

### RoleTree: the hierarchy of roles

`RoleTree` has the rows (`live`), `parent`, the stored `depth`, and the ids once deleted.
`ReparentFind` remembers the depth for the new place; each `Walk` is one turn of the loop
over the ancestors; `ReparentSave` writes; then `ReadChildren`, `UpdateChild` and `Return`
run `recomputeDescendantDepths` with its call stack explicit, one query per step.
`RemoveFind`, `RemoveTransfer` and `RemoveDelete` are `remove`. The foreign keys
(`onDelete: Restrict`) are guards. `undisturbed` says that so far no role was moved under
the walk of another call (`MovedUnderWalk`) and no removal handed children to a role below
(`TransferredBelow`).

### UomGroups: a unit-of-measure Group

`UomGroups` has one Group: `base`, `roles`, `factors`, the history rows, and the
soft-deleted Types. `UpdateCheck` is everything `update` does before its transaction;
`UpdateSave` is the transaction, atomic because its first statement locks the Group's
row. It computes its additions, changes and removals from `prior`, the factors read by
the check, as the code does, against the factors there are at that moment; `Accepted`
is what the unique constraints let through. `InEffect` and `RateAsOf` are the lookup of
`ConversionService.resolveRate`, also used by `HistoryService.forPair`: every rate that
the query could return, because it leaves ties undecided. `past` holds the factors when
each past day ended.

The four counts of `TypesService.remove` are one step, as are the lookups that
`resolveGroupWriteRefs` makes: the interesting window, between them and the write, is
there. A list with a repeated role or Type is rejected before anything is read, so
lists are functions. `isGroupLocked` is always false in this code base.

### UomReferences: what Types and Groups refer to

Categories and Functional Roles are looked up by a save (`BeginReferenceSave`,
`ResolveReferences`) and written later; a removal counts one kind of referrer after the
other, each a query, and soft-deletes in the end. Rows that are soft-deleted stay, so no
foreign key ever refuses. `crossed` are the rows that were removed between the look-up
and the write of a save.

### UserAdmin and QuickBooksSync

`UserAdmin` has the users with their role and the two audit pointers, and the roles.
`BeginSave` and `SaveUser` are `create`, `update` and the two password routes; `RemoveFind`,
`CountAdmins`, `TransferCreated`, `TransferUpdated`, `SoftDelete` are `remove`, one query
each; `RemoveRoleFind`, `MoveMembers`, `DeleteRole` are `RolesService.remove` as far as it
touches users. Whoever is authenticated by a token that has not run out may act: also a
user removed since. Who has which name is left out, since a refused name changes
nothing. `QuickBooksSync` is what happens after the save: `Enqueue` or its failure, jobs
taken by workers, delivered again, failed, and the sequence that is read and written
(`ReadPointer`, `UpsertPointer`).

### OneTimeCode, AuthService and LoginPage

`AuthService` is `login` (find, compare, write the count or reset it, send a code or issue
tokens), `verifyTwoFactor` over the codes in memory, `LockoutEnds`, `CodeExpires`,
`RestartServer`, and the two changes an Admin can make meanwhile. The slot keeps the
answer until its caller takes it, so answers are reordered and delayed. `LoginPage`
extends it by the pages of a browser (`SubmitPassword`, `SubmitCode`, `Back`,
`EnterSession`, `AskForCode`, log-out) and the one token they share.

`OneTimeCode` is what the second factor promises: a code is sent to one account (`Send`)
and replaces the one that account had, stands until it is used (`Use`), was entered wrong
too often (`Miss`) or is dropped (`Drop`), and does not come back. `AuthService` implements
it (`OneTimeCodeSpec`): the standing codes are those in the memory of the server that have
not expired.

### JobScheduler and JobRuns

`JobScheduler` has the flags, the registered schedulers in Redis and the toggles:
`Click`, `SaveToggle`, then `syncAll` as `ReadDefinitions`, `ReadSchedulers`, `RemoveStale`,
`Upsert`, one command each, with calls that fail and a server that crashes and runs
`onModuleInit`. `StaggeredPattern` is `computeStaggeredCronPattern` with the remainder
of JavaScript, whose sign is that of the dividend. `JobRuns` adds what becomes of a job
that fires: `Take`, `CreateRun`, `RecordSuccess`, `RecordFailure`, and BullMQ's `Stall`.

### TenantLifecycle and TenantProvisioning

`TenantLifecycle` is what the rest of the system relies on: a tenant becomes reachable with
a schema, is upgraded, and gets its Super Admin, in this order and once.
`TenantProvisioning` implements it (`TenantLifecycleSpec`; `reachable` is the registry): each
step of `provision`, the loops of `runMigrationFanout` (all stages, or one type from the
command line), and `resolve` with its cache; `Fail` and `Restart` stop any of them, and a
restart may bring a new release.

### Payroll and Rosters

`Payroll` has the records of one user by day, hours, type and status; `Submit` and
`BookDay` are `PersonalDaysService.submit`, which compares the times and not the dates: a
range that ends before it starts has no days, and the call ends at once. `Hours`,
`Overtime` (by weeks from Monday) and `Unresolved` are `buildRow`, as sums over sets.
`Rosters` has groups with members, profiles with permissions, holidays with users: the row
in one command, its parts in later ones (`DeleteMembers`, `CreateMembers`,
`CreatePermissions`, `AssignUsers`).

### SeedScripts

A run (`StartScript`) goes through its lists, then through Groups or punches in any order;
what is found is skipped, what is not is built, command by command (`GroupCommands`,
`VacationCommands`); `StopScript` ends a run anywhere, and `SeedMidnight` moves the day on.

### ReferencePages, GroupForm, ImportDialog, UserScreens: the front end

- `ReferencePages`: a page that lists rows of the server and changes them; each change is
  followed by its load, and answers come in any order. `Pages` says what each of the five
  pages loads and offers.
- `GroupForm`: the fields of the UOM Group form, the body that `handleSave` builds
  (`SentRoles`, the rows of factors) and what the server checks of it (`PassesChecks`):
  that it is complete, and that each part is of the form its DTO asks for. A body that
  does not pass is never saved (`SaveAnswered`), only refused. `Filters` is the `filter`
  of an array, for this module and the next.
- `ImportDialog`: the steps of the dialog, which stays mounted when it is closed, the
  import on the server row by row, and exports that are answered late.
- `UserScreens`: the pages for users, roles and groups in one tab. A page shows the
  array of `lib/mock-data/users.ts` or a copy of it (`listed`); a form is saved by a timer
  (`saves`), which goes on when its dialog or page is gone.

## 3. What is checked

| run | module, configuration | asks |
|---|---|---|
| `redis` | `MCRedis`, `Redis.cfg` | `LeaseHonoured`, `LeaseLockSpec`, `AbandonedLockLapses` of the edit lock; `LoneSyncSettles`, `PatternsStagger`, `DoneIsRecorded`, `EveryFiringEnds` of the jobs |
| `timeclock` | `MCTimeclock`, `Timeclock.cfg` | `StatusAgrees`, `StaleOpenPunchIsFlagged`; `DisciplinedOneOpenPunch`, as long as one user's calls did not overlap and no override reopened (`disciplined`); `OverridesExclude`, of records whose lock did not slip away (`slipped`); `StaleIsSwept`, of all tenants |
| `role_tree` | `MCRoleTree`, `RoleTree.cfg` | `UndisturbedIsAcyclic`, until a role is moved under a walk or handed to a role below it (`undisturbed`); `SettledDepthIsNesting`, as long as there were only creates and reparents, one after another and carried through (`settled`) |
| `uom_groups` | `MCUomGroups`, `UomGroups.cfg` | `HistoryIsSound`; `SerialGroupIsUsable`, as long as calls came one after another (`serial`); `RowsAreShown`, `RowsAgree` of the screens |
| `users` | `MCUsers`, `Users.cfg` | `AnAdminRemains`, `PointersAreLiving` |
| `login` | `MCLogin`, `Login.cfg` | `LimitLocks`, `LockoutLasts`, `CodeIsGoodOnce`, `OneTimeCodeSpec`, `SessionIsOfLastLogin` |
| `back_office` | `MCBackOffice`, `BackOffice.cfg` | `SyncFollowsSaves`, `EveryHourIsCounted`, `PartsAreAsAsked`, `FanoutIsStaged`, `OneClientPerTenant`, `TenantLifecycleSpec`, `SeedsAreSafeToRerun` |
| `uom_screens` | `MCUomScreens`, `UomScreens.cfg` | `RemovedIsUnused`, `ShownIsStored`, `SaveClosesItsDialog`, `SentIsShown`, `DialogKeepsToItsText` |
| `timeclock_double_punch` | `MCTimeclock`, `TimeclockDoublePunch.cfg` | *violated:* `OneOpenPunch` |
| `uom_re_add` | `MCUomGroups`, `UomReAdd.cfg` | *violated:* `ValidatedSaveIsAccepted` |
| `uom_form_unassign` | `MCUomScreens`, `UomFormUnassign.cfg` | *violated:* `FactorRowsAreTypes` |
| `payroll_range` | `MCBackOffice`, `PayrollRange.cfg` | *violated:* `RangesAreInOrder` |

Modules that share no state are checked by one run where they are small: the MC module
puts them side by side, and a variable (`part`, `screenOf`) that never changes
says which of them moves in a behaviour, so that the states of the parts add up and do
not multiply. Some properties are conjunctions of named parts that make one promise
together; the parts are beside them. Every type invariant is proved (section 4); the
runs also check those of modules that share one (`GroupsAndScreensTypeOK`,
`BackOfficeTypeOK`, `UomScreensTypeOK`). Every property of a passing run
has a mutant, and every part of a conjunction one of its own, beside the definition it
changes (a comment says so: "Mutant of ..."): a plausible slip in the code, with which
TLC finds the property violated.

### What the passing runs show

- The edit lock is right. Compare-and-delete and compare-and-extend do what the lock is
  for as long as a user edits a record in one session.
- Whatever overlaps, a record is CLOCK OUT exactly when it has a clock-out time, and the
  sweep flags all punches of past days and no others, also around midnight; once all
  databases answer for good, in every tenant.
- The overrides of a record that are under way are all of one manager, its holder, as long
  as the lock stays held from the check to the save; the loss of the lock is the only way
  by which two managers write one record.
- The hierarchy stays a tree under any overlap of creates, removals and reparents, also of
  calls that end halfway, as long as no role is moved while another call walks up from a
  new parent, and none is removed in favour of one below it.
- The second factor keeps its promise through any order of logins, entries, expiries and
  restarts: `login` and `verifyTwoFactor` implement one-time codes.
- The history of a factor is sound under any overlap of saves: although a save computes
  its changes from a stale read, the uniqueness constraints and the lock on the Group's
  row make it either consistent or rejected.
- A `syncAll` that nothing overlaps repairs whatever overlapping, failed and interrupted
  ones left; the wrap of the offset is right on both sides of midnight. A firing ends,
  and a success is in the history, also when the server crashes in mid-run.
- An Admin is left and audit pointers name living users under any interleaving other
  than those the properties name; lockouts hold for accounts whose logins do not overlap.
- A tenant is reachable only with a migrated database, whatever stops where, and a tenant
  provisioned during a fan-out has the release too, since the loop reads each stage anew.
- The report of payroll adds up over any cut of the time into periods at a Monday, and
  never counts more overtime in parts than in the whole. Of a submission of personal days
  that did not fail, every day from the first to the last is in it.
- While the UOM form saves, it shows what it has sent. The server's checks refuse the body
  exactly if a row of factors is empty, 0 or of no Type: whatever else the user does on
  the form, it builds a body that passes them.
- The report of an import is about the text that was imported.

### What the violated ones show

- `timeclock_double_punch`: two clock-ins of a user (a double click) both find no open
  punch and both create one.
- `uom_re_add`: dropping a factor leaves its history row open; giving the factor again
  inserts a second open row, which the partial unique index refuses. It can never be
  given again.
- `uom_form_unassign`: a role that is set back to "Unassigned" stays among the assignments
  as the empty string, which then gets a row of factors and is sent as a Type.
- `payroll_range`: personal days whose end date is before their start date are stored and
  answered as a success, and nothing is booked; the docs have "Start Date <= End Date".

### What the properties except, and why

A property that the code keeps only under a condition states it, and the condition is a
variable of the model rather than a restriction of its steps: the steps that break it are
taken. (`LeaseHonoured` is the exception: `redis` restricts the instance, as the
premise of `LeaseIsHonoured` does.)
What happens then is what a reader of the code should know:

- The lock knows users, not tabs: one tab's release frees the lock that another tab of
  the same user relies on. `LeaseHonoured` needs `OneSessionPerUser`.
- `clockOut` saves by id: it overwrites a correction or a flag written after it read the
  open punch (`timeclock.service.ts:75`). `override` asks `isHeldBy` and saves in a later
  query: in between the lease lapses, another manager takes the lock, and the save goes
  through (`:149`). `override` without a clock-out reopens a closed record (`:154`), and one
  that moves a clock-in past the present makes the hours negative.
- "a under b" and "b under a" both walk the ancestors before either saves, and the roles
  form a cycle. `roles.service.ts:142` reassigns the children of a removed role to the
  target even if the target is one of them; and no removal recomputes depths.
- One PATCH assigns a role to a Type whose factor another PATCH drops: each is complete
  together with what it read; the Group that results is not. A Type counted as unused can
  be deleted after a save began to use it (`types.service.ts:105`), likewise Categories and
  Functional Roles: the foreign keys do not see a soft delete. Two changes of a factor in
  one day leave two rows with one start date (`conversion.service.ts:66`).
- Two Admins removed at once each count the other, and `update` takes the role from the
  last Admin (`users.service.ts:157`). A removed user's token is good until it runs out.
- Overlapping failed logins lose increments, and one that counts late writes `lockedUntil`
  null over a lock (`auth.service.ts:67`).
- A failed provisioning cannot be repeated: the retry finds the database, or the row.
  Two first requests connect twice, and one client is dropped without a disconnect.
- A run row whose server crashed stays `running` for ever. Half-booked personal days,
  holidays and profiles without their parts stay, and a retry books the days twice. Of a
  range that ends before it starts (`payroll_range`) `BookedDaysAreReported` claims nothing,
  since it has no days; part of a day is booked on its first day, whatever the end date.
- The UOM form sends an empty factor as 0 (`UomGroupForm.tsx:128`). It says "Factor required"
  beside the row but lets the user save, and the server answers 400.
- The seed script calls itself idempotent; a Group whose run stopped is never completed,
  and punches are added again on another day.
- In the screens a removal keeps the users' copies of the two-factor flag of their former
  role; a form dismissed while its timer runs is saved over what was changed meanwhile;
  a page dialog closes when the save of another row ends; a late export becomes the text
  to import.

### Bounds, and why they are enough

- *EditLock*: two users, one session each, two records, leases of three ticks. Three ticks
  let a session be in time, late and too late; a second record shows that one lock does
  not disturb another. Time to live is a countdown, so the state space is finite as it is.
- *Timeclock*: two users, two calls in progress, two records, `MaxTime` 1 with
  a midnight between the two times (`ADayEach`). Every property is of one record, or of
  two records of one user; every race is of two calls, the sweep apart, which needs no
  slot. Three tenants to sweep: one before, one after the one that does not answer.
  In `part` "clock" one user corrects records, over the two days; in "overrides" both do, in
  one day, since locks know no days.
- *RoleTree*: two slots, depths to `MaxDepth` 3 written; four roles (moved role, new parent,
  a child, a grandchild) in calls that come one after another, three in calls that overlap,
  and nothing further once the hierarchy is disturbed (`SomethingToCheck`): two moved roles
  make a cycle, and a third is what a removal transfers.
- *UomGroups*: two Types (the base and one other), one role, two rates, two slots, `MaxDay`
  1. `GroupWrites` has the whole Group and a PATCH of each part: overlapping saves that
  touch different parts, or the same. Saves need a factor absent, present and changed.
- *UserScreens*: two users on pages of one row (`PageSize`), three roles, two groups,
  `MaxSaves` 1 timer. `Visited` divides the pages among the three parts "tree", "people"
  and "lists", and in "lists" keeps the roles flat; `SomethingToCheck` leaves behaviours
  about which the properties claim nothing any more.
- *Jobs*: one job, a tenant shifted before midnight and one shifted by more than a day, two
  toggles and the one of the start, `MaxCrashes` 1, one firing, two workers.
  `TogglesThenRuns`: when a job fires no toggle is in progress and the page shows what is
  stored, if anything, and no toggle is begun after it. Rows of runs are used in order
  (`RowsInOrder`). Beside the edit lock the server only starts (`OnlyStarts`).
- *Users*: three users, two of them Admins, two roles, two calls. A behaviour is followed
  until something happens that a property excepts (`SomethingToCheck`).
- *Login*: two accounts, two pages, `MaxFailedAttempts` and `MaxVerifyAttempts` 2 (the code
  has 5), `MaxFailures` 3 so that a count passes the limit, `MaxCodes` 2. `SmallEnough`
  lets only one account fail or be inactive, the other only log in.
- *BackOffice*: two users saved at most twice (`MaxSaves`), two workers; three records
  over Saturday, Sunday and Monday (`LastDay` 2), with hours of -1 and 2, so that a week
  ends within the period, and one submission of personal days, its dates in either order;
  two groups and profiles, of which `Small` lets one vary; two tenants of different types,
  two calls, `MaxRelease` 2; two seeded Groups, `LastSeedDay` 1.
- *UomScreens*: two Categories, a Functional Role, a Type and a Group; a page with two rows,
  two calls, `MaxVersion` 2; a form with two Types and two roles, `MaxFactor` 1; two texts,
  one with a Group twice and a Base Type not known, `MaxExports` 1.

The bounds named `Max...` and `Last...` are the only ones in guards; the others are sizes
of sets or constraints of an MC module. `CHECK_DEADLOCK FALSE` is set where an instance
ends: `uom_groups`, `uom_re_add` (the Group and the Types deleted on the last day),
`redis` (one firing, and nothing to toggle after it), `users` (a constraint cuts the
behaviour off, and roles and users are removed), `back_office`, `payroll_range`,
`uom_screens`, `uom_form_unassign` (the bounds on saves, days, releases and versions are
reached). Symmetry is used in runs without liveness, over slots, users and rows, which the
specifications treat alike; `SaveClosesItsDialog` is an action property and says the same
of rows renamed.

### Fairness, and what justifies it

- `EditLock!FairSpec`: weak fairness of `Tick`, which `MCRedis!MCSpec` has beside
  `JobsFairness`. Redis expires keys on its own clock.
  Sessions have none: nobody need heartbeat, close or return.
- `MCTimeclock!MCSpec`: weak fairness of `SweepTenant(now)` and of the steps of the sweep
  over all tenants. It is a repeatable BullMQ job (`auto-close.scheduler.ts`, every day at
  00:10). Users, calls and databases have none; that databases answer in the end is a
  premise of `StaleIsSwept`.
- `JobRuns!JobsFairness`: weak fairness of the restart of the server (its process manager),
  of the next command of a call and of a worker in progress (Node goes on with them), and
  of the stall of a job without a worker (BullMQ's stalled check); strong fairness of
  taking a waiting job, since a crash can disable it again and again. Nobody need click,
  and nothing need fire.

## 4. What is proved

For all values of the constants that satisfy the modules' named assumptions:

| theorem | module | says |
|---|---|---|
| `Typing`, `LeaseIsHonoured`, `OneEditorAtATime` | `RedisProofs` | types; `OneSessionPerUser => (Spec => []LeaseHonoured)`; hence no two live editors of a record |
| `ImplementsLeaseLock` | `RedisProofs` | `Spec => LeaseLockSpec` |
| `TimeclockInvariants` | `TimeclockProofs` | `TCSpec => [](TCTypeOK /\ StatusAgrees)` |
| `OneOpenPunchIfDisciplined`, `OverridesAlwaysExclude` | `TimeclockProofs` | `TCSpec => []DisciplinedOneOpenPunch`, `[]OverridesExclude` |
| `UsesTheLock` | `TimeclockProofs` | `TCSpec => LockSpec`: what the time clock does to its locks is what the abstract lock allows |
| `SweepTyping`, `TimeclockTyping` | `TimeclockProofs` | `SweepSpec => []SweepTypeOK`; of the instance that the run `timeclock` checks: its types, `StatusAgrees`, `DisciplinedOneOpenPunch`, `OverridesExclude` |
| `HierarchyIsAcyclic` | `RoleTreeProofs` | `RTSpec => [](RTTypeOK /\ UndisturbedIsAcyclic)` |
| `DepthsSettle` | `RoleTreeProofs` | `RTSpec => []SettledDepthIsNesting` |
| `FactorHistoryIsConsistent`, `SerialGroupIsAlwaysUsable` | `GroupProofs` | `UomSpec => [](UomTypeOK /\ HistoryIsSound)`, `[]SerialGroupIsUsable` |
| `RowsAreAlwaysShown`, `RowsAlwaysAgree` | `GroupProofs` | `ScreensSpec => []RowsAreShown`, `[](ScreensTypeOK /\ RowsAgree)` |
| `GroupsAndScreensTyping` | `GroupProofs` | of the instance that the run `uom_groups` checks: `MCSpec => []GroupsAndScreensTypeOK` |
| `RemovedIsAlwaysUnused` | `UomProofs` | `ReferencesSpec => [](ReferencesTypeOK /\ RemovedIsUnused)` |
| `ShownIsAlwaysStored`, `SaveAlwaysClosesItsDialog` | `UomProofs` | `PagesSpec => [](PagesTypeOK /\ ShownIsStored)`, `SaveClosesItsDialog` |
| `SentIsAlwaysShown` | `UomProofs` | `FormSpec => [](FormTypeOK /\ SentIsShown)` |
| `DialogAlwaysKeepsToItsText` | `UomProofs` | `ImportSpec => [](ImportTypeOK /\ DialogKeepsToItsText)` |
| `UomScreensTyping` | `UomProofs` | of the instance that the run `uom_screens` checks: `MCSpec => []UomScreensTypeOK` |
| `UsersTyping`, `LastAdminIsKept`, `PointersFollowRemovals` | `UserAdminProofs` | `UsersSpec => []UsersTypeOK`, `[]AnAdminRemains`, `[]PointersAreLiving` |
| `LoginTypes`, `LimitAlwaysLocks`, `CodeIsAlwaysGoodOnce` | `AuthProofs` | `LoginSpec => []LoginTypeOK`, `[]LimitLocks`, `[]CodeIsGoodOnce` |
| `LockoutAlwaysLasts`, `SessionIsAlwaysOfLastLogin` | `AuthProofs` | `LoginSpec => LockoutLasts`, `SessionIsOfLastLogin` (of steps) |
| `ImplementsOneTimeCodes` | `AuthProofs` | `LoginSpec => OneTimeCodeSpec` |
| `StaggeredPatternIsTimeOfDay` | `RedisProofs` | for every integer offset the pattern is an hour and a minute that differ from base plus offset by whole days |
| `LoneSyncAllSettles`, `RegisteredPatternsStagger` | `RedisProofs` | `PanelSpec => []LoneSyncSettles`, `[]PatternsStagger` |
| `RunsTyping`, `DoneIsAlwaysRecorded` | `RedisProofs` | `JobsSpec => []RunsTypeOK`, `[](RunsTypeOK /\ DoneIsRecorded)` |
| `ImplementsLifecycle` | `BackOfficeProofs` | `TenantSpec => TenantLifecycleSpec` |
| `TenantTyping`, `OneClient`, `FanoutKeepsStages` | `BackOfficeProofs` | `TenantSpec => []TenantTypeOK`, `[]OneClientPerTenant`, `[]FanoutIsStaged` |
| `SyncAlwaysFollowsSaves` | `BackOfficeProofs` | `SyncSpec => [](SyncTypeOK /\ SyncFollowsSaves)` |
| `EveryHourIsAlwaysCounted` | `BackOfficeProofs` | `PayrollSpec => [](PayrollTypeOK /\ EveryHourIsCounted)` |
| `PartsAreAlwaysAsAsked` | `BackOfficeProofs` | `RosterSpec => [](RosterTypeOK /\ PartsAreAsAsked)` |
| `SeedsAreAlwaysSafe` | `BackOfficeProofs` | `SeedSpec => [](SeedTypeOK /\ SeedsAreSafeToRerun)` |
| `BackOfficeTyping` | `BackOfficeProofs` | of the instance that the run `back_office` checks: `MCSpec => []BackOfficeTypeOK` |

Where a property is kept only under a condition, the theorem is about all behaviours and
the condition is in the property, as a variable of the model (section 3); only
`LeaseIsHonoured` has a premise. No theorem restricts the steps of a specification.

The arguments:

- *EditLock.* `LeaseHonoured` is not inductive: a tick must not end a key before a lease
  that relies on it. The invariant adds that a lease is never longer than the time to
  live of its key (and that a key exists exactly while its time runs). A release by
  another session is harmless because its user is another: here `OneSessionPerUser`
  enters. The refinement needs only the types: each command is a `Take`, a `GiveUp`, a
  `Lapse` or a stutter.
- *Timeclock.* The invariant adds to the two parts of `StatusAgrees` that a row lock and a
  `clockOut` or `override` call name a record that exists (`TargetsExist`), so that a late
  save never changes a row that a concurrent clock-in has yet to create.
  `FlaggedAreStale` needs that `DayOf` is monotone, the assumption of the module, because
  a sweep may use a `todayStart` of earlier. `OneOpenPunchIfDisciplined` adds, while
  `disciplined` holds, that a user with a clock-in in progress has no open punch
  (`ClockInSafe`); `OneCallPerUser` and the absence of a reopening keep that so until the
  create. `OverridesExclude` follows from an invariant about one call: an override that has
  been checked still has the lock of its record, unless that slipped (`HoldsItsLock`). It is
  kept because the abstract lock never changes hands without becoming free in between
  (`NoHandover`), which `UsesTheLock` says of every step of the time clock.
- *RoleTree.* The parent of a live role is live (`ParentsLive`). `Acyclic` says that every
  nonempty set of roles has a member whose parent is outside of it, which is
  well-foundedness without recursion. A reparent keeps it if the moved role is not an
  ancestor of the new parent; the walk establishes that step by step. The invariant adds
  to each walk what it has seen: a set of roles that leads from the new parent up to the
  cursor, closed under `parent` but for the cursor, without the moved role (`Seen`,
  `WalkInv`). Creates of other calls add roles without children and removals delete such
  roles, perhaps the cursor itself, and leave the set as it is; a saved reparent and the
  transfer of children do not, and these are `MovedUnderWalk`. When the cursor runs out the
  set is closed, and a cycle through the moved role would have to live inside of it.
  `DepthsSettle` adds the call stack of `recomputeDescendantDepths` (`StackInv`): its
  activations lead up from a role to its parent, each knows the depth that the children
  of its role are to get, and a role whose depth is wrong is one that an activation has
  yet to reach. When the stack is empty no depth is wrong.
- *UomGroups.* The invariant adds that a Type has at most one open row, that no row ends
  before it begins or begins after today, and that a Group not yet created has no row. A
  save, however stale, either is refused by the keys of the two tables (`Accepted`) or
  does one of two things to a Type: it leaves the history alone and at most drops the
  factor, or it closes the open row, if any, and opens one for the new factor
  (`TypeEffect`). Each part of the invariant is shown to survive these two.
  `SerialInv` says, while `serial` holds, that there is one call and that what it found
  before its transaction is still so (`Established`).
- *UomReferences.* For a row that nothing crossed: a save that holds it finds it live and
  not being removed, and the kinds of referrer that a removal has counted are still
  without one (`ReferenceInv`).
- *ReferencePages.* The calls in progress are those the page can make (`CallsFitPage`);
  unless excused there is one load at most (`LoneLoad`), what it has read so far is what
  is stored (`LoadIsFresh`), and without a load the page shows that (`ShownIsLoaded`). A
  save that was not dismissed is that of the dialog that is open (`SavesOwnDialog`).
- *GroupForm and ImportDialog.* These are about lists: what `filter`, the removal and the
  move of an element do to a list without duplicates (`FormInv`), and that the factors of
  the body in flight are the rows of the form, so that the checks of the body come down to
  those rows (`SameFieldsSameChecks`). Of `ImportDialog`, that an import has
  dealt with the rows up to the present one and has a result for each (`ImportInv`:
  `TextFits`, `JobsFit`, `ReportFits`). The report lists the rows in another order than the
  text; the lemmas `SplitRearranged` and `RearrangedCounts` say that no row is lost or
  counted twice on the way.
- *UserAdmin.* `UsersInv` adds that the calls in progress fit the rows (`CallsFitRows`) and,
  for each of the two properties, that there is one removal at most and what it has
  established: after its count, another living Admin than the user it removes
  (`OthersRemain`); after each transfer, that no row names the user in that column any more
  (`Transferred`). Saves and removals of roles keep both.
- *UserScreens.* `ScreensInv` adds to the types that a page shows rows there are and its
  dialogs are its own (`PageFits`), that until a form is left one timer runs at most and
  is that of the open form (`TimersFit`), and the forms of the properties that survive a
  step: every set of roles closed upwards has a root at the top level
  (`EveryLineHasRoot`, again "no cycle" without recursion), a copy of the flag is that
  of the role (`TwoFactorFollowsRole`), and members have the type they were chosen with
  (`MembersAreTyped`). That a page with rows is shown needs the arithmetic of the number
  of pages.
- *AuthService and LoginPage.* `LoginInv` has for each account whose logins have not
  overlapped (`AccountInv`): one login at most compares, the count it read is the one
  stored and the account is not locked; and while it is not, there were fewer wrong
  passwords than the limit, and no more than the count says.
  For codes (`CodeInv`): the code that waits is one that was sent to that account and not
  accepted yet, and its wrong entries are counted. For pages (`PageInv`): what a form asks
  or waits for is of the account that the page logged in last, unless it went back.
  `ImplementsOneTimeCodes` is a step simulation under `CodeInv`: a code that is sent ends the
  one of its account because a code waits for the account it was sent to; an entry is a
  `Miss` because the attempts stored beside the code are those of the code; and all other
  steps of the server leave the codes alone or `Drop` some.
- *JobScheduler.* `PanelInv` adds that every registered pattern is that of its own schedule
  (`OwnPatterns`), and what a synchronisation that nothing has overlapped knows at each of
  its commands (`LoneSyncKnows`): the flags it read are those there are, what it has not
  removed or upserted yet is still on its lists, and the rest is settled already. The
  arithmetic is `WrappedMinutes`, from the sign of the remainder.
- *JobRuns.* A call that has created its row shares it with no other and answers only after
  the row says success (`RowsAreOwn`); a delivery to come, one without a row yet and a row
  are one delivery each, so there is at most one more of them than stalls
  (`DeliveriesAreBounded`, by cardinalities); and nobody can write the row of a success
  again (`SuccessStays`).
- *Tenants.* `LifecycleInv` adds to the types what a call has established and no other takes
  away (`Established`: a schema once migrated, a row once it looks a client up), and that a
  registered tenant has a schema of some release so far. Registration is then `OpenTenant`,
  a migration of a registered tenant `Upgrade` or a stutter, the first write of the Super
  Admin `Staff`. For `OneClient` the invariant counts the calls that connect: one at most,
  and none with a client open (`ClientInv`). For `FanoutKeepsStages` it adds that a call
  that has migrated its database has the release that runs, so that a tenant registered
  behind a fan-out is never behind it in release; a restart ends all calls, and so keeps
  this (`StagedInv`). For the types, that what a fan-out has left is always an end of the
  order of stages (`StagesInv`).
- *QuickBooksSync.* A user whose jobs did not overlap has one job at a time
  (`OneJobAtATime`), and the sequence that its worker read is still the stored one
  (`ReadIsCurrent`); so an upsert counts one save.
- *Rosters.* One invariant for each kind of row (`GroupInv`, `ProfileInv`, `HolidayInv`): one
  call at most writes the parts of a row; without one they are those asked for, and during
  one they are what its commands so far have made of them. A step leaves other rows alone.
- *SeedScripts.* `SeedInv` adds that what a run is building it has not finished
  (`MakingIsUnfinished`), that everything else is not there or whole, or a run stopped while
  it built it (`PartsAreWhole`), that what the run has looked at is there
  (`LookedAtIsThere`), and that the Group with the past rate is not created again once the
  rate is there (`PriorIsLast`).
- *Payroll.* That the report of a period is the sum of those of its parts is a law of
  finite sums, and holds in every state that is well typed and has finitely many records
  (`RecordsFit`): hours and overtime are sums over disjoint sets of records and of
  weeks, the weeks of the parts are disjoint if the cut is at a Monday (`MondaysCut`),
  and without negative hours the parts have no more overtime than the whole
  (`OvertimeOfBoth`). The lemmas on sums say that a sum exists, takes its terms in any
  order, splits over disjoint sets and grows with its terms. That every booked day is
  there is an invariant of the loop: the days up to the present one have their records
  (`BookingFits`, `BookedFits`). A range that ends before it starts has none.
- *The parts side by side.* A run of several parts has its own specification.
  `PartsDoNotInterfere`, `PartsAreApart` and `ScreensDoNotInterfere` show that it implies
  that of each part, so that what is proved of a part holds in the instance that TLC runs.

The library's induction theorems take an operator as their parameter, which the installed
provers cannot instantiate. What `Filter` does to a list and what a sum is are
nevertheless proved, for every length and every finite set, from the other side: if some
prefix or subset were an exception there would be a least one (`WFMin` over the strict
subsets of a finite set), and it cannot be, given the one before it.

What stays with TLC: the four liveness properties (`AbandonedLockLapses`,
`StaleOpenPunchIsFlagged`, `StaleIsSwept`, `EveryFiringEnds`), since liveness under
fairness and `ENABLED` are beyond the prover. Every other property that a passing run
checks is stated by a theorem. The four violated ones are refuted by TLC's behaviours.

## 5. What is not modelled, and the plan

Not modelled, and not planned:

- Plain CRUD and the HTTP layer: one query each; routing, guards and DTO validation without
  state. The models take their inputs as validated by the DTO and no further: `Payroll` has
  ranges of dates in either order, and `GroupForm` has the checks themselves.
- The arithmetic of the conversion, names and their uniqueness, texts of any kind.
- The dashboard and its layout, and the pages that only show fixtures (profiles, personal
  days, payroll, time-card override, user import, labels).
- `backend/src/uom/shared` and `common/utils`, which the code imports, and
  `prisma/migrations`, which it is deployed with, are not in the repository: what they do
  is taken from how they are used, and marked external in `PROJECT.json`.
- The script `src/init` at the root is obfuscated, and tooling is not the running system.

Next, in this order:

1. Proofs: what the report of `Payroll` says of a single record.
2. Abstract specifications for the account that locks and the page that reloads.
3. The two-factor flag and the removal of a role in one model of `RoleTree` and `UserAdmin`.
4. The screens that show fixtures, once they call the back end.
