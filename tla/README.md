# AdGuard Reward: a verification project

AdGuard Reward is a small Go service with a phone UI. A parent gives a child
minutes of a blocked service ("30 minutes of YouTube"); the service takes the
service out of the `blocked_services` list of each of the child's devices in
AdGuard Home, and puts it back when the time is up. What makes it hard is that
the truth lives in two places: rows in SQLite and lists in AdGuard, which fails,
answers late, and is edited by parents behind the app's back.

The modules here model the parts of the service that keep those two in step,
the parts that guard the door, and the process that carries them from its start
to serving. TLC checks them on small instances, TLAPS proves the central safety
properties for all instances.

## Inventory

| Component | State | Operations | What is hard |
|---|---|---|---|
| grant engine (`internal/grants/grants.go`, `reconcile.go`, `shared.go`) | `timers`, `closed`, under `Engine.mu` | `Create`, `End`, `Extend`, timer callback `expire`, `Reconcile` (at start and every 60 s), `Close` | crash between a row and its AdGuard writes; partial failure; shared devices; stale snapshots; timers racing `Extend` |
| grant rows (`internal/store/grants.go`) | `grants`, `grant_services`, `grant_clients` | `CreateGrant` (overlap rule), `ExtendGrant`, `SetGrantStatus` | what must be durable before AdGuard hears of it |
| AdGuard client (`internal/adguard`) | `rmw` mutex; AdGuard's own client list | `Add/RemoveBlockedServices`, `RenameClient`, `AddClient`, `AdoptBlockedServices`, `MigrateFromGlobal` | GET and POST of a whole object with no compare-and-set; lost and late writes |
| migration offer (`api/migration.go`, `blocked.Offer`) | none | `computeOffer`, `handleMigrationApply` | not under `Engine.mu`; targets computed from an earlier read |
| device renames (`grants/rename.go`, `store/clients.go`, `api/rename.go`) | names in AdGuard, in `child_clients`, in `grant_clients` | `RenameClient` in three layers | two writes without a common transaction, while a grant runs |
| children and adoption (`store/children.go`, `api/children.go`, `api/clients.go`, `grants/clients.go`) | `children`, `child_clients` | `CreateChild`, `UpdateChild`, `DeleteChild`, `CreateClient`, `AdoptClients` | adopt and save are not atomic; baseline under running grants; row ids reused |
| blocked view (`internal/blocked`, `api/blocked.go`) | none | `Compute` | telling a parent why a service is open |
| login (`api/login.go`, `internal/ratelimit`) | `Limiter.ips`, global window, `loginSlot` | `handleLogin`, `Check`, `Fail`, `prune` | bursts that pass the check together; window edges; escalation |
| sessions (`internal/auth`, `store/sessions.go`, `api/sessions.go`) | `sessions` table | `Issue`, `Authenticate`, logout, revoke one / all, sweeper | refresh racing revocation; row ids reused |
| quick buttons (`store/buttons.go`, `api/buttons.go`) | `buttons` table | PUT of the whole list, cascade of a deleted child | a child that goes between check and write; ids that clients hold on to |
| schema migrations (`store/migrate.go`, `migrations/*.sql`) | `schema_migrations`, the tables | one file, one transaction | a crash between statements; a table rebuilt with its rows |
| start and health (`cmd/adguard-reward/main.go`, `internal/health`) | `Prober.last` | startup probe, `Prober.Run` | what is fatal and what is not; a cached answer |
| web client (`web/src`) | polled grants, pending taps | tap, refresh | a tap during a poll |
| discovery, configuration, HTTP plumbing, SPA, deployment | none after start | | |

Interactions. Handlers call the engine, which serialises grant, rename and
adoption work with `Engine.mu` and calls the store and AdGuard while holding it.
Child rows, buttons and sessions go to the store directly, on its one
connection. Migration requests call the AdGuard client without the engine; there
`Client.rmw` keeps writers apart. Timers and the reconcile loop call the engine
from their own goroutines. A parent may edit AdGuard in its own UI at any time.

`PROJECT.json` lists every component with its status, and under `hazards` what
is hard to test, at the line where it bites.

## Modules

| Module | Models | Used by |
|---|---|---|
| `GrantPromise` | what a grant promises a family, abstractly | refined by `Grants` |
| `Grants` | engine, rows, AdGuard lists, process; one step per store or AdGuard call | `GrantsProofs`, `Timers`, `MCGrants`, `MCEndRetry` |
| `Timers` | `Grants` with Go timer handles | `TimersProofs`, `MCTimers` |
| `Rename` | device names in AdGuard, mapping and grants | `RenameProofs`, `MCRename` |
| `BlockedView` | `blocked.Compute` and `blocked.Offer` as pure operators | `Household`, `AdGuardClient` |
| `Household` | children, devices, adoption and the view, beside grants | `HouseholdProofs`, `MCHousehold` |
| `BlockLists` | what a call of the AdGuard client promises: one atomic step | refined by `AdGuardClient` |
| `AdGuardClient` | GET and POST of every writer, migration requests, AdGuard's side | `AdGuardClientProofs`, `MCAdGuardClient` |
| `RateLimit`, `Login` | the limiter's policy, and the login handler over it | `LoginProofs`, `MCLogin` |
| `Sessions` | session rows, concurrent requests, sweeper | `SessionsProofs`, `MCSessions` |
| `Boot` | start, schema migrations, prober | `Buttons` |
| `Buttons` | the button list and children, in the process of `Boot` | `ButtonsProofs`, `MCHome` |
| `GrantsProofs`, `TimersProofs`, `RenameProofs`, `HouseholdProofs`, `AdGuardClientProofs`, `LoginProofs`, `SessionsProofs`, `ButtonsProofs` | inductive invariants and theorems | |

### Grants

The variables come in four groups: the store's rows (`status`, `child`,
`services`, `clients`, `endsAt`), AdGuard (`present`, `global`, `blocked`), the
process (`phase`, `timers`, and the operation holding `Engine.mu`: `pc`, `kind`,
`cur`, `queue`, `snap`, `plan`, `failed`), and the surroundings (`now`,
`faulty`). `owed` is history: the <<client, service>> pairs that the app removed
from a list and that nobody, app or parent, has put back.

An engine method is a chain of steps through `pc`. `Create` is `CreateRow`
(transaction), `UnblockRead`, `UnblockClient` per client, `CreateReturn` (arm).
`End`, a due timer callback and an overdue grant in a pass share `RevertList`,
`RevertClient` per client, `RevertReturn` (status update, `stopTimer`).
`Reconcile` is `ReconcileList`, `ReconcileRead`, then per grant `ReconcileNext`
and either the revert or `UnblockClient`s and `RepairReturn`. `Crash`, `Tick` and
the UI edits may fall between any two steps. While `faulty` holds, any read may
fail and any write may fail with or without having been applied; `FaultsEnd`
ends that for good, for the liveness properties.

`phase` is `boot` until `Start` has returned; no request is served before that
(main.go). `Close` sets `closed`; requests still in flight may run afterwards,
as in the code. Durations and requests are validated by the API before the
engine sees them (`RequestsAssumption`, `DurationsAssumption`).

### Timers

Grants lets a callback come at any time. Timers adds what Go really does: a
handle runs, fires once due (after which `Stop` has no effect and the callback
waits for the mutex) and is gone. A callback deletes the map entry of its grant
whichever handle that holds, so one armed by an `Extend` that raced it runs on,
unknown to `Close`; it re-reads the row and does no harm. Every action is one of
Grants conjoined with what it does to the handles and to the map.

### Rename

Devices have an identity that AdGuard's name merely labels. A rename is
`RenameCheck`, `RenameAdGuard`, `RenameStore` and possibly `RenameBack`, holding
the mutex; `UpdateChild` and the reads of a grant request do not hold it.
`Faults` selects what may go wrong. `severed` counts the faults that part
AdGuard's names from the store's for good (a lost answer, a failed renaming
back, a crash in a rename, a device added meanwhile); the properties of grants
hold as long as it is 0. `had` is history, kept while a rename is under way: the
devices each child had when it began, and those it was given since by a parent's
form or by a device added under one of its names. When a rename ends, a child has
no other (`RenameMakesNoNewOwner`), whatever edits and faults fell into it,
unless it was cut short between AdGuard and the store (`CutShort`). Grant
operations, which hold the mutex
throughout, are single steps without faults: their own interleavings are the
subject of Grants.

### BlockedView and Household

`BlockedView` has the two pure algorithms of `blocked.go`: what a family is
shown for a child (`Compute`), and the clients and lists of a migration
(`Offer`). Slices without duplicates are sets; sorting is left out.

`Household` runs the handlers for children and devices as the code does: read
the store, adopt under `Engine.mu` (`AdoptRead` computes the baseline,
`AdoptWrite` one client at a time, `AdoptReturn`), then save (`ChildSave`); a new
device is `CreateClientRead`, `CreateClientAdd`, `CreateClientMap`. Deleting a child, grant
requests that read the mapping beforehand, grants, their ends and repairs, and
six kinds of edits in AdGuard's UI fall between them. Any write may fail, applied
or not. Row ids of children are given as SQLite gives them, the highest plus
one, so a deleted child's id can come back (`reused`). `promised` is history:
what a device that joined a child was to block from then on.

A blocked view is a request of its own: `ViewChild` reads the child and its
devices, `ViewChildren` every child's, `ViewGrants` the active grants, and
`ViewAnswer` AdGuard's lists, with any of the other steps in between. A failed
read of the children or of the grants makes the answer go on without
(`degraded`), as the code does. `Shown` is what would be answered if AdGuard were
read now.

### AdGuardClient and BlockLists

Each call is `Call`, `Read` (take `rmw`, GET, run the closure; refused, skipped
or going on), for adoption `ReadGlobal`, and `Write` (POST): applied, refused,
applied with the answer lost, or given up while AdGuard may still apply it
(`WriteLate`). AdGuard's side (`Accepts`, `Stored`) is the one of the
repository's fake. A migration request is `MigrationRead`, `MigrationOffer`, then
one call per client until one fails. `UIClient` and `UIGlobal` are a parent's
edits. The engine makes one call at a time, as `Engine.mu` has it; migration
requests run beside it.

`BlockLists` says what callers may rely on: a call takes effect in one step on
the client as AdGuard has it at that moment, touching only what was asked, and
"ok" means it did. AdGuard has no compare-and-set, so the promise is void for a
client that somebody else changed between the call's GET and its POST (`raced`),
and for that client only.

### RateLimit and Login

`RateLimit` has the limiter's operators, each a single step under `Limiter.mu`.
`Login` runs concurrent handlers: `Arrive` (first check), `Acquire` or `GiveUp`,
`Recheck`, AdGuard's answer, `FailReturn` or `LoginReturn`. Three variables are
history for the properties: the times of the wrong passwords of each IP (`bad`)
and of all (`anyBad`), and each IP's last lockout (`sentence`).

### Sessions

A row has a token (unique, the cookie) and an id (reused by SQLite). A request is
`Lookup`, `ReadClock`, `Touch` or `Evict`, then a handler; each is one SQL
statement or clock reading.

### Boot and Buttons

`Boot` is `run` in main.go: `Start`, `StartupProbe`, `migrate` (`ReadApplied`,
then for each file in turn `SkipFile` or `BeginFile`, `ExecStatement` per
statement, `CommitFile`; `Migrated` when the loop is through),
`StartupReconcile`, `Listen`, then `Probe` for ever; a crash, a kill or a failing
step puts the process down, and it is started again. `scan` is the loop: the
files it found recorded, read once, and the one it has come to. The index of
`child_clients`, which 0005 makes anew after dropping the table, is a statement of
its own; other indexes and `button_services` go with their table. The database
is a record; a transaction works on a copy that replaces it at the commit
(SQLite, external). It starts from what a release with the first n files can have left (`Installed`):
any children and mapping, a device with several children from 0005 on, and from
0004 on the buttons of one PUT, less those of children deleted since, with any
`sqlite_sequence` not behind them.

`Buttons` composes that with the handlers: a PUT is `PutRequest`, `PutCheck`,
`BeginReplace`, `InsertButton` per item, `CommitReplace`; children are deleted
(with their buttons) and created between them when the single connection is
free. A process that goes down takes its requests along. The table is a set of
rows, each with its id and its position; the list a family sees is the rows by
position, so the properties speak of rows. `want` (the rows of the last PUT
committed, less those of children deleted since) and `given` (every row ever
committed) are history.

## Runs

| Run | Result | Shows |
|---|---|---|
| `grants_safety` | pass | `NoStrandedUnblock`, `NeverReblockHeld`, `NoUnblockWithoutGrant` and the refinement of `GrantPromise`, with two children sharing one of two devices and all faults |
| `grants_live` | pass | `OverdueReverted`, `DriftRepaired` by the reconciler alone, once faults stop, with devices missing at first, deleted, added and put on the global list |
| `timers` | pass | the timer map agrees with the handles and the rows (`EntryDueAtEnd`, under all faults); in behaviours without a failing call every live grant has its timer (`LiveGrantHasTimer`), and timers and the startup pass suffice (`TimersSuffice`): no race loses a wake-up. After a failed revert the grant has no timer left and only the reconciler retries (`grants.go:235`), which is `grants_live` |
| `end_retry` | violation | what an `End` re-blocked on one client before it failed on another is opened again, not retried, by the reconciler |
| `rename` | pass | refused and rolled-back renames cost no open device and no device of a running grant; under all faults, and with edits falling into it, a rename that is not cut short makes no new owner |
| `rename_lost` | violation | a rename whose answer is lost leaves an open device no grant will re-block |
| `login` | pass | denied logins never reach AdGuard; failure rate bounded in every window; Retry-After names the end of the reason it gives; exact escalation; every login is answered |
| `sessions` | pass | a revoked session is not brought back by a refresh under way; expired sessions go |
| `sessions_revoke_all` | violation | a reused row id makes revoke-all spare the wrong session |
| `household` | pass | a device that joins a child goes on blocking (`JoinedDeviceBlocks`), adoption only adds and never blocks what a grant holds open (`AdoptionOnlyAdds`), and a blocked view made of separate reads explains what the app has opened (`OpenIsExplained`), unless a read failed |
| `adguard` | pass | calls are atomic in the sense of `BlockLists`, a finished migration has kept every block (`MigrationHolds`), `rmw` never blocks itself (`CallsNeverStick`) |
| `home` | pass | no file half applied (`SchemaMatchesRecord`), no mapping lost (`MappingSurvives`), every table, index and column there once `migrate`'s loop is through (`ServesOnlyCurrent`), the process comes to serve, `/healthz` catches up, the buttons are one PUT's under fresh ids |

The three violations are the entries of `findings`; each quotes the line that
says otherwise.

Behaviour that the models show, that no line of the repository rules out or only
loosely, and that the properties are worded around:

- A parent's edit of a client in AdGuard between a call's GET and its POST is
  overwritten, although `clients.go:182` has it that "a parent's concurrent edit
  to an unrelated id survives": it does before the GET and after the POST.
- A POST that timed out and is applied late undoes whatever was written since; it
  may open a service whose grant has ended. The reconciler repairs only active
  grants' drift.
- A migration's target is the list as offered: a block a parent or another
  migration added after the offer is lost, one a grant lifted after it returns.
- While an IP is locked, `Retry-After` does not count the global cap in
  (`limiter.go:100`), so a second refusal may follow.
- A child created after the one with the highest id was deleted gets that id, and
  with it the running grants of its predecessor.
- A rename that is cut short after AdGuard has made it (its answer lost, renaming
  back failed or the process dead) gives the device to a child whose parent put
  the new name on its form after `checkRename`: nothing looks at the mapping again.
- A blocked view that could not read the children or the grants leaves
  `unblocked_by` empty, as `api/blocked.go:31` says it does, and nothing in the
  answer tells it from one with nothing to report. A grant created after the
  grants were read is not in it either.
- A grant's stored name whose device has gone from AdGuard may be given to
  another device by a rename; the grant then acts on that device.

### Bounds

- Grants: two children, two grants, a clock of three instants and duration one
  give overlapping, consecutive, extended and overdue grants; two devices, one
  of them shared, give partial failure and both orders of ending. Reverts and
  repairs treat clients independently, so more clients add no new case. Either run
  starts with any of the devices missing from AdGuard. The safety run has UI
  edits that block, unblock and delete; the liveness run has those that block,
  delete, add and switch to the global list, and one device because its
  properties are about one (grant, client, service) at a time. One service is
  enough for the writes, which treat services independently; the theorems hold
  for every number of services and every choice of edits.
- Timers: one grant, because handles of different grants never meet; four
  instants, durations one and two, and four handles alive at once allow two
  extensions racing a fired callback. When no handle is free, the model does not
  arm; four are not exhausted by fewer than three racing callbacks, and the clock
  ends first.
- Rename: two devices and three names leave a free name to rename to and a
  taken one to be refused; `MaxEvents` = 1 bounds child edits and, counted
  on its own, the faults that part the names: an edit and a fault fall into the
  same rename. `MaxRequests` = 1 grant request is in flight at once, for any
  child. The theorems have no such
  bound. Permutations of devices, names and children are symmetric.
- Login: two failures per IP and three in all, a window and base lockout of two
  ticks, maximum four, reset two, clock to five: a lockout, the longer one
  after it, and a reset all happen. The thresholds keep the relations of
  `Defaults()` (`ThresholdsAssumption`).
- Sessions: two tokens (three in `sessions_revoke_all`) let an id be reused; a
  lifetime of two and a clock to three let sessions expire and be refreshed.
- Household: two devices, one service, two child ids and names, two grants, one
  form and one tap in flight, three edits in all: a grant taken, a form sent
  under it, a sibling's device edited in AdGuard and a child deleted between its
  steps; a view asked for counts as an edit and leaves two to fall between its
  reads. One view is under way at a time: views change nothing.
  AdGuard's global list starts full, and may be emptied by an edit
  (`FullListSpec`). Clients and names are symmetric (child ids are not: they are
  ordered).
- AdGuardClient: two names (a rename needs one free), two ids, one service, one
  migration request, two engine calls and two events (an edit and an edit, a
  POST given up and applied late, or one of each). Names and ids are symmetric.
  The theorems cover any number of each.
- Home: one client, two child ids, one tag, lists of at most two buttons, three
  button ids (some given by the release before), one crash, two events (AdGuard changes, a child deleted, a child
  created) and one PUT in flight: two are never in their transactions together,
  the database having one connection. A second failing child in a list,
  a rolled-back insertion and a reused child id all happen. No symmetry: the run
  checks liveness.

Deadlock checking is off where the system may have nothing left to do within its
bounds: Rename (all devices deleted), Sessions (all tokens issued, clock at its
bound), Household, AdGuardClient and Home (no edits, calls or events left).

### Fairness

- Grants: an operation that holds the mutex continues (its AdGuard calls are
  bounded by `ApplyTimeout`); the reconcile loop's ticker keeps ticking; the
  service is restarted (the unit file has `Restart=on-failure`, compose
  `restart: unless-stopped`); faults end. No fairness of timers, of the clock or
  of parents.
- Timers: due timers fire (Go's runtime) and their callbacks get the mutex
  (strong fairness: Go's mutex hands over to waiters that starve); the startup
  pass runs. The periodic reconciler is not assumed.
- Login: handlers run on, AdGuard's answer is bounded by the HTTP client's
  timeout, and a queued request gets the slot (senders blocked on a Go channel
  are served in order, hence strong fairness of `Acquire`).
- Sessions: the sweeper's ticker keeps ticking.
- Boot and Buttons: the service manager starts the process again and each step
  of the start ends (its calls have timeouts); the prober's ticker keeps ticking.
  No fairness of requests or of AdGuard.

## Proofs

`GrantsProofs` proves, for every set of children, services and clients, every
number of grants, every clock horizon and every choice of UI edits:

- `TypeCorrect`: `TypeOK`, with `OpState`, the shape of the operation that
  holds the mutex (which `pc` goes with which `kind`, when `cur` is a grant).
- `NoUnblockIsStranded`, `SharedDeviceRule`, `UnblocksUnderGrant`: the three
  safety properties of the runs.
- `EngineKeepsPromise`: `Spec` implements `GrantPromise`.

None of them is inductive alone. The invariant `IInv` adds: every pending
unblock of a plan is covered by the current, active grant (`PlanCovered`); while
a revert runs, what the current grant alone keeps open on a client is still in
the plan, unless a failure has been noted (`RevertPending`), which is what makes
the final status update safe; and what is owed is owed on a client AdGuard has
and under an active grant (`OwedPresent`, `OwedCovered`). Each action is one step
of the proof. The refinement maps `opened` to `owed` and needs `OwedCovered` and
`RevertPending` for the step in which a grant leaves force.

`AdGuardClientProofs` proves, for any clients, services, ids and any number of
migration requests, calls and events:

- `ClientTypes`: `TypeOK`, which has the discipline of `Client.rmw` in it.
- `ClientImplementsBlockLists`: `CallsAreAtomic`. The invariant adds that a
  request under way is one a caller can make and its holder has the object the
  closure works on (`SoundCall`), and that what the holder of `rmw` has read is
  what AdGuard still has, unless the client is marked as raced (`Fresh`). Then
  what is posted is what `BlockLists` wants of the client as it is.
- `MigrationsHold`: `MigrationHolds`. The invariant follows each pair of an
  offer: it waits in the request's remaining steps or in its call under way, or
  the request has failed, or the client has it on a list of its own and whoever
  holds `rmw` for that client has read it so (`KeptHolds`).

`RenameProofs` proves, for any devices, names, children, faults and any number of
edits, `RenameTypes`, `NoNewOwner`, and, as long as `severed` is 0,
`OpenDevicesFollowed` and `GrantsKeepTheirDevices`. Between AdGuard's rename and
the store's the two disagree about one name; `Told` is the name the store knows,
and the invariant is stated about it: what is owed or meant is found under `Told`
of its name, and nobody in AdGuard has the old name meanwhile (`OldIsFree`), which
is what makes renaming back succeed. `NoNewOwner` has an invariant of its own,
`HadOK`: while a rename is under way, a child that maps what the store knows a
device as had the device or was given it. The store's transaction and renaming back
both end with AdGuard and the store agreed on the name, so that what a child maps
then is what `HadOK` speaks of.

`SessionsProofs` proves `SessionTypes` and `RevocationIsFinal` for any users,
requests, tokens and clock: a token once issued and gone from the table never
returns, because only `Issue` inserts and its token is new.

`TimersProofs` proves, for any number of grants, timers, extensions and faults:

- `TimersRefine`: `TimerSpec` implements `Spec` of Grants, so that every theorem
  of `GrantsProofs` holds of the engine with its timers in full, and its
  invariant `Control` can be used here.
- `TimersFit` and `EntriesAreDue`: `TimerTypeOK` and `EntryDueAtEnd`. What they
  need is that a handle is blank exactly when it is not in use (`HandlesOK`), so
  that arming never takes a handle some entry still points at, and that an entry
  has a row (`EntryHasRow`), so that creating a row changes no end under one.
- `LiveGrantsAreTimed`: `LiveGrantHasTimer`. The invariant `CalmInv` says which
  live grants the operation at hand has yet to arm (`Awaited`): the one being
  created; at boot all of them until the startup pass has listed them, then those
  in its queue. Nothing is awaited once the engine serves and is idle.

`HouseholdProofs` proves, for any devices, children, grants, forms and taps,
`TypeCorrect`, `JoinedBlocks`, `OpenExplained` and `AdoptionAdds`, the type
invariant and the three properties of the run. The invariant ties what is under
way to the lists: what the app has lifted is on a client AdGuard has and under a
grant in force (`OwedHeld`); a promised block is on the device's own list or a
grant covers it (`PromiseKept`); an adoption's plan makes good all that is due
and spares what a grant holds open (`DueMet`, `PlanSpares`), which rests on the
mutex keeping the grants between the read of the baseline and the writes; and
grants of deleted children are remembered as such (`Orphans`). A view that has
read the grants has every one of them that is still in force and is older than
the read (`ViewOK`); with `OwedHeld` at the moment AdGuard is read, that is
`OpenIsExplained`.

`LoginProofs` proves, for any thresholds satisfying `ThresholdsAssumption`, any
IPs and any number of requests:

- `LoginsRespectTheBudget`. The strengthening is that whoever is between the
  second check and the recorded outcome holds the slot (`SlotHeld`), so no other
  failure is recorded meanwhile, and that the limiter's times are integers, so
  the clock can only let a denial lapse.
- `RetryAfterExact`: `RetryAfterIsExact`, from the types of the times alone and a
  lemma on rounding up to whole seconds.
- `TypeCorrect`: `TypeOK`, with the bounds of the counters and of the lockouts.
- `LockoutsEscalate`: `Escalates`. An entry remembers the last lockout of its IP
  in full, or, once that no longer escalates, possibly nothing (`Remembers`):
  this is what pruning and normalizing have to keep.
- `FailureRate`: `FailureRateBounded`, which says of the times of the wrong
  passwords that any one more than the permitted number is at least a window
  later than the first. The invariant (`Rated`) is about what a window knows of
  those times: its failures are the last ones, the first of them at its start,
  and of those before it all but the last `PerIPFailures` - 2 are a window older
  than its start (`Paced`; `GlobalPaced` with `GlobalFailures` - 1). A window
  that lapses without a lockout has at most `PerIPFailures` - 1 failures, the
  first of them at its start; with one more the IP is locked, for at least a
  window, and the failures that locked it are old when it may try again. `NoLoginWhileDenied` is what rules out a failure recorded in a window
  that is already full.

The doubling of a lockout is an exponentiation, of which the provers know
nothing: `ShiftAssumption` in RateLimit states the two facts used, that powers of
two up to the cap of the shift are positive and that each is twice the one before;
TLC evaluates it.

`ButtonsProofs` proves, for any devices, children, tags, requests, crashes and
events:

- `SchemaRecorded`, `MappingKept`, `OnlyCurrentServed`, about the upgrade that
  `Boot` models, in the composed system. The invariant describes the copy a
  transaction works on after each statement of each file (`Applied`): which
  tables there are, and where the rows of `child_clients` are while file 5
  rebuilds their table; and that a request's transaction touches buttons only
  (`WorkOK`). Of the loop it says that what is recorded is what the loop found
  recorded and what it has passed since (`ScanOK`): a prefix, by
  `SchemaMatchesRecord`, so that it leaves with all files recorded. The six migrations are data: they are facts about a constant
  sequence, worked out once (`Statements`, `TablesOfFive`).
- `TypeCorrect`, `OnePut`, `IdsFresh`: `TypeOK`, with the keys of the tables,
  `ButtonsAreOnePut` and `ButtonIdsFresh`. They are proved together, from the
  invariant `RowsInv`. Of what is committed (`TablesOK`) it says that
  `sqlite_sequence` is never behind an id that was given; of what is not
  (`WritesOK`), that a PUT at its i-th item has written exactly the rows of the
  items before it, numbered on from the committed sequence, and that their
  children are there. So a rollback, at whatever item, takes back ids that nobody
  has seen, and a commit leaves one PUT's list.

`TabAssumption` keeps the names of requests apart from the two other values
`tx.of` has.

Only model-checked: liveness (`OverdueReverted`, `DriftRepaired`,
`TimersSuffice`, `EveryLoginAnswered`, `ExpiredRowGoes`, `EventuallyServes`,
`HealthCatchesUp`), because fairness is out of the provers' reach, and
`CallsNeverStick`, because it is about ENABLED. All other properties of the
passing runs are theorems.

## Not modelled

- Request decoding, validation of a request's own fields, views, cookies, CSRF
  and cache headers, logging.
- Device discovery (`internal/api/clients.go`, the merge of AdGuard's clients and
  leases): string normalisation without state or order of steps.
- Configuration, TLS, the static SPA, deployment: no state after start.
- The web client: it keeps no durable state, and a tap may come at any time in
  Grants and Household.
- `SetBlockedServices` and `Limiter.Prune`: no caller in the program.
- In Grants, Rename and Household a write of the AdGuard client is one step that
  may fail before or after it was applied; the loss of an edit between GET and
  POST, and writes applied late, are in AdGuardClient only.

## Plan

Done: Grants with GrantPromise, Timers, Rename, RateLimit and Login, Sessions,
BlockedView, Household, AdGuardClient with BlockLists, Boot and Buttons; proofs
for each of them. Left, in this order:

1. Late writes in Grants: what the reconciler can and cannot repair of them.
2. The web client's tap, undo and poll against a slow or lost answer.
