# A verification project for yaProject

yaProject collects runtime metrics. An **agent** (`cmd/agent`, `internal/agent`) polls them and
reports them over HTTP to a **server** (`cmd/server`, `internal/server`, `internal/handler`,
`internal/repository`), which keeps gauges and counters in memory and backs them up to a file, or
keeps them in PostgreSQL.

This directory holds TLA+ models of the parts of that program that keep state and run
concurrently, the TLC configurations that check them, and proofs checked by the TLA+ proof system.
Paths below are relative to `src/`. Line numbers refer to the sources this was written against;
`PROJECT.json` maps every definition that models code to its lines.

    tlasany M.tla                                # parse
    tlc -workers 2 -config X.cfg MC_Component    # model-check
    tlapm MProofs.tla                            # check the proofs

## 1. The system

| component | state | operations | interacts by |
|---|---|---|---|
| metric storage, `internal/repository/storage.go` | two slices of rows (name, value), a package-wide mutex | `AddGauge`, `AddCounter` (under the mutex); `GaugeSlice`, `CounterSlice` (without it) | shared memory with handlers and backups |
| metric handlers, `internal/handler/handlers.go` | none of their own | `PostUpdate`, `PostUpdateSyncBackup`, `PostHandler`, `UpdatesGaugesBatch`; `GetHandler`, `PostValue`, `MainPage` | calls on the storage and the producer |
| backup, `internal/repository/backup.go` | the backup file, its `_old` predecessor, producers and consumers | `RestoreFromBackup`, `performBackup`, `WriteEvent`, the periodic and the final backup goroutine | files, the storage, the cancelled context |
| server lifecycle, `cmd/server/main.go`, `internal/server/server.go` | context, wait group, the shared producer | start and restore, signal, shutdown | starts everything, waits for everything |
| worker pool, `internal/agent/worker_pool.go` | buffered channel, `closed` flag, once, wait group | `Submit`, the workers, `Shutdown` | channel, lock |
| agent, `internal/agent/agent.go`, `send_functions.go`, `cmd/agent/main.go` | `pollCounter`, the agent's storage, context | collectors, reporter, `SendWithRetry`, shutdown | shared counter, pool, HTTP |
| PostgreSQL mode, `internal/repository/postgres.go`, `handlers.go:110-362` | two tables, a table of migrations, a pool of connections | updates, a batch in one transaction, migrations | row locks, connections of the pool |
| audit, `internal/server/manager.go`, `observer.go`, `audit*.go` | list of observers, file, HTTP client | `AddObserver`, `NotifyAll`, `Close`, the middleware's goroutine per request | callbacks under a lock |
| request pipeline, `internal/server/crypto.go`, `internal/repository/gzip.go`, `internal/logger` | the private key, loaded at the start | decrypt, decompress, log | middleware chain |
| configuration, `internal/agent/flags.go`, `cmd/server/flags.go` | one structure per program | flags, environment, file | read once at the start |
| object pool, code generator, linter, models, benchmarks | none | - | not part of the running system |

What makes each of them correct, and where it is hard:

* **Storage.** A metric has one row; a call is atomic and its effect is never lost; the lock is
  released on every path. Hard: readers take no lock, and `append` moves the rows to another array
  while they read.
* **Backup and lifecycle.** What the server answered before a shutdown is in the file after it;
  an interrupted backup leaves the complete one before it; a restore invents no value. Hard: three
  goroutines run `performBackup`, whose mutex is a local variable (`backup.go:175`) and so excludes
  nobody; they read the slices without the storage's lock; the shared producer is closed under the
  handlers; any file operation can fail half-way.
* **Worker pool.** An accepted task runs exactly once; after `Shutdown` none is left. Hard: the
  `closed` flag is checked under a lock that is released before the send.
* **Agent.** Polls reach the server's `PollCount`; the agent stops when told to. Hard:
  `pollCounter` is read, incremented and reset by different goroutines with no synchronisation, and
  a request can time out after the server has applied it.
* **PostgreSQL mode.** A request takes effect as a whole or not at all, and its answer says which;
  the migration leaves the data alone, although it runs again at every start (it is looked up under
  one name, `postgres.go:159`, and recorded under another, `:196`). Hard: two batches lock their rows
  in the order of their metrics and can deadlock; each early return has to give back the
  transaction and its connection; a commit can fail after it has happened.
* **Audit.** Each batch that was applied is recorded once by each observer, nothing else is. Hard:
  the notification is a goroutine nobody waits for; the manager's lock is held while the observers
  work, and every request and the shutdown need it.
* **Request pipeline and configuration.** What the agent puts around a batch (compression, then
  encryption) the server takes off in the opposite order, with keys both take from flags,
  environment and file by different rules. Hard: the agent reads its key file for every batch, the
  server once.

`PROJECT.json` lists the hazards one by one, each at the line where it bites, with the properties
that cover it or the reason why none does yet.

## 2. The modules

| module | models | checked by |
|---|---|---|
| `Metrics` | kinds, values, int64 arithmetic, the arguments of a call | every storage run |
| `MetricStore` | **abstract**: a map from metrics to values, calls that take effect once | as a property of `MemStorage` |
| `MemStorage` | `AddGauge`, `AddCounter`, and the unlocked readers `GetHandler`, `PostValue` | `MC_MemStorage` |
| `Backup` | update handlers, restore, the three backups, shutdown, crash, restart | `MC_Backup` |
| `TaskPool` | **abstract**: a task is refused, or runs exactly once | as a property of `WorkerPool` |
| `WorkerPool` | `Submit`, workers, `Shutdown` | `MC_WorkerPool` |
| `Agent` | collectors, reporter, reports with retries, main; composed with `WorkerPool` | `MC_Agent` |
| `BatchStore` | **abstract**: a request takes effect once, as a whole, or never | as a property of `Postgres` |
| `Migrations` | connection, migration and shutdown of the database mode | part of `Postgres` |
| `Postgres` | the handlers of the database mode as transactions; composed with `Migrations` | `MC_Postgres` |
| `Audit` | middleware, notifications, observers, `Close` | `MC_Audit` |
| `Config` | how a setting is computed, and the order of the sources it amounts to for the agent | part of `Delivery` |
| `Delivery` | a report through compression, encryption, hash, middleware and handler; composed with `Config` | `MC_Delivery` |
| `MetricsProofs` | lemmas about values, wrapping sums, rows and folds | `tlapm` |
| `MemStorageProofs`, `BackupProofs`, `WorkerPoolProofs`, `AgentProofs`, `PostgresProofs`, `AuditProofs`, `DeliveryProofs` | theorems | `tlapm` |

### MemStorage

State: `arrays[k]` is the sequence of backing arrays that `append` has allocated for kind `k` (the
slice header points to the last), `length[k]` the length word of the header, `mutex` the lock at
`storage.go:46`. `wpc[c]` is where a goroutine is in `AddGauge` or `AddCounter`: `CallAdd`, `Lock`,
`Lookup` (the search loop), `Load` and `Update` (the two halves of `+=`; a gauge has only the
second), `Grow`, `Publish`, `Fill` (the steps of `append`), `Unlock` (the deferred one). `rpc[r]`
is where a reader is in its handler: `LoadHeader` twice (pointer and length, in either order),
`Examine` (one iteration), `Refetch` and `WriteAnswer` (on a match the handlers call
`GaugeSlice()` a second time and index it), `EndRead`.

A read that races with a write is undefined for Go; it is modelled as what the compiled code can
do on a 64-bit machine: one word at a time, in the order the compiler is free to choose. A read
past the end of an array ends in `fault`, because what it returns belongs to something else. A name
is a string, two words itself: `HalfNamed` is a row whose name is being stored, and a reader that
compares it can use a length without its pointer and end in `fault` too. The search of a writer is one step: it runs under the lock that all writers take.

`held` and the bounds `calls`, `reads` are not program state. `Contents` is the abstraction
function to `MetricStore`: a row counts from the moment its last field is stored.

### Backup

The calls of the storage are atomic for one another, as `MemStorage` shows, but a backup is not one of
them: it reads the slices without the lock. So the storage is kept here in two parts. `rows` are the
slices as their length words tell, and `filling` says which words of the last row `append` has still
to store (`FillRow`); until then its handler has the package's mutex (`MutexFree`). A file is
represented by the storage a restore of it builds (`files[f].rows`) and by `torn`: `RestoreFromBackup`
replays the lines with `AddGauge` and `AddCounter` and stops at the first line it cannot decode, so
appending a line is adding to that storage, unless the file is torn. `cur` and `old` are directory
entries; a goroutine that has a file open goes on writing to it after a rename or a removal, as on
any POSIX file system.

`Start` is `main` up to its wait: restore, `NewProducer`, the goroutines. `Signal`, `CloseServer`,
`Exit`, `Crash` and `StopPeriodic` are what they say. `PostUpdate`, `PostHandler`,
`UpdatesGaugesBatch` and `StoreUpdate`/`WriteUpdate` (the two halves of `PostUpdateSyncBackup`,
which are two critical sections) are the handlers; only the text of a URL can carry NaN or Inf.
`performBackup` is `Begin` (which closes the producer shared with the handlers), `RemoveOld`,
`RenameCur`, `Create`, then the two range loops. A loop starts with the slice: `LoadPointer` and
`LoadLength`, in either order, with anything in between. From the pointer on it has that array:
`Freeze` leaves it the old rows when an `append` moves the slice to a new one, so after the pointer of
the old array it can load the new length. `ReadRow` copies a row as its words are at that moment
(`Words`: a row that is being filled may have no value yet, or no name); `ReadBehind` copies anything,
because the array the loop has ends before its length does; `ReadFaults` and `Fault` are the same read
when it, or a name of which only one word is stored, ends the process. `WriteRow` waits for the mutex,
which `WriteEvent` takes. `EndLoop` comes after the gauges and again after the counters.
`RenameOrCreateFails`, `WriteRowFails`, `WriteUpdateFails` and the failing `os.Remove` in `RemoveOld`
are the error paths.

`good`, `begun`, `wild`, `had`, `atSignal` and `since` are histories for the properties. `good` is the
file of the last complete backup and outlives crashes and restarts; `begun` counts the backups begun
since, in any run; `wild` remembers a read behind an array, after which nothing can be said of the
files.

`Budgets` is a set of records that bound the updates, signals, crashes, starts and faults of a
behaviour; each behaviour has one of them (`budget`), so a run can check several mixes without
checking their product.

### WorkerPool, Agent

`Check` and `Send` are the two steps of `Submit`; sending to the closed channel sets `panicked`,
after which nothing happens. `SetClosed`, `CloseQueue` and `ShutdownReturns` are `Shutdown`; the
`sync.Once` makes later callers wait for the body. `Leave` is the end of a worker's range over the
closed, empty channel.

`Agent` EXTENDS `WorkerPool` with one submitter (the reporter) and one closer (main), so its
steps are steps of the pool or leave it alone (proved, `AgentUsesPool`). A report
reads `pollCounter` when it evaluates the arguments of `SendWithRetry` (`CheckContext`), sends
gauges (`SendGauges`) and counters (`SendCounters`), is repeated while both errors are temporary
(`Decided`), and resets the counter (`ResetCounter`). `CountRead`/`CountWrite` are the halves of
`(*pollCounter)++`. A request ends as `ok`, `lost` (never arrived), `late` (applied, but the answer
did not arrive), `5xx` or `4xx`. `total` is the `PollCount` the server has accumulated.

### Migrations, Postgres

`phase` is where the goroutine of `RunHTTPServer` is: `StartServer`, `Connect` (`GetConnection`),
`LookForTable`, `CreateJournal`, `CheckApplied`, `ExecMigration` and `CommitMigration`
(`applyMigrations`; the commit may be applied and its reply lost), `Serve` (the second `GetConnection`), `Stop`, `ClosePool` and `Leave` (the
deferred calls). `journal` is the table `migrations` and `tables` says whether the tables of the
metrics exist. Errors are logged and the start goes on: `MigrationFails` and the second disjunct of
`Serve` leave nil pools behind; `ConnectFails` and `Leave` panic on them as the code does.

A request is a batch or a single update. `Begin` takes a connection of the pool, waiting for a free
one, and `ExecRow` is one statement of the batch; `Commit` makes `writes[r]` visible. A single update
is `Begin` and `Update`. `Finish` is every way out: answer, deferred `Rollback`, connection back.
`RejectUpdate`, `BeginFails`, `UnknownType` and `ExecFails` are the early returns. PostgreSQL itself
is external: a row is locked from the statement that writes it to the end of the transaction
(`Blockers`), a transaction that waits in a cycle is aborted (`InCycle`), a NULL or a sum out of
range fails (`InRange`), a connection can break (`ConnectionBreaks`), and the reply to a commit can
be lost. Handlers go on after `server.Close`, which does not wait for them.

### Audit

`pc[r]` follows a request through the middleware (`CheckEnabled`, `Handle`, `Answer`) and its
goroutine (`GetAuditData`, `Notify`, `NotifyReturns`). `mu` is the manager's lock. `told[r]` are the
observers whose goroutines for `r` run; they are goroutines of their own, which go on whether or not
`NotifyAll` waits for them (`Waited`), and `NotifyFile` and `PostEvent`/`PostAnswered`/`PostFails` are
their work. `posting` is the event for which the HTTP observer's own lock is held. `LockClose` and `Close` are the manager's `Close`, `Exit` the end of
`main`, which ends every goroutine. The audit server is external; `log["http"]` is what it received.

### Config, Delivery

`Parsed` is `ParseFlags`, `Merged` and `AgentSetting` are `GetAgentConfig`, `ServerSetting` is what
viper makes of flag, environment (the variables with the prefix `METRICS_` first) and default. The
gauges are there from the first `Poll` on, and a batch without a row is not sent (`NothingToSend`).
`body` is the list of layers around the JSON text;
`Rsa(v)` is the encryption for version `v` of the pair of key files, which the operator may replace
(`Rotate`) at any time. `Build` reads the public key, `RestartServer` reads the private one.
`Decrypt`, `Unzip` and `Handle` are the server's middleware and handler, in the order of
`server.go:76-82`; a check that fails answers 400 or 500 and the rest is skipped. `Fitting` says
which kinds of batch are short enough for RSA-OAEP: a batch of one counter is, a compressed batch of
some thirty gauges is not (a 2048-bit key takes 190 bytes). `Receive` is the rest of an attempt of
`SendWithRetry`; the outcomes here are answers or local errors, which are never repeated.

## 3. What the runs check

| run | configuration | properties | shows |
|---|---|---|---|
| `storage_writers` | 2 writers, 2 names, counters of -2..1, 3 calls | `NamesUnique`, `CallsAreAtomic` (refines `MetricStore`), `CallsReturn` (liveness) | racing creations of a metric make one row; calls are atomic, also when a counter wraps; the lock is always released |
| `storage_reads` | 2 writers, 1 reader, 4 names, 4 calls | `MemTypeOK`, `StableReads` | a metric that exists throughout a read is found once, with a value it had meanwhile, although rows move twice |
| `storage_unlocked` | same component | `ThreadSafeReads` is **violated** | the reads are not thread-safe (section 5) |
| `backup_async` | a metric of each kind; all update routes, one of which appends a row, NaN; two updates, or one with a fault, a crash and a restart, or one and a shutdown | `TypeOK`, `FilesHoldPastValues`, `CleanExitKeepsEverything`, `KeepsAGoodCopy` (action property) | an interrupted or failed backup leaves the last complete one in place, until a second backup begins; before a signal a restore sees values the metrics have had, or the zero of a row that was read before its value; at a shutdown where no file operation fails and no loop leaves its array, three simultaneous backups keep every metric that was complete at the signal, a gauge with a value it had since, a counter with at most three of them added up |
| `backup_sync` | 2 clients, synchronous mode, sums that wrap around, a signal, a fault, a crash, a restart | `SyncCountersExact` | file + updates in flight = storage, for counters, across restarts, until a line fails |
| `backup_doubled` | shutdown without updates | `ShutdownBackupIsExact` is **violated** | section 5 |
| `worker_pool` | 2 submitters, 2 closers, 2 workers | `PoolTypeOK`, `RunsEachTaskOnce` (refines `TaskPool`), `ShutdownEnds` (liveness) | accepted tasks run exactly once although a `Submit` races with `Shutdown` |
| `agent` | 2 workers, 2 reports, 1 poll, one retry; requests that succeed, are lost, or are applied without an answer | `AgentTypeOK`, `NeverPanics`, `PollsAreReported`, `ReportsEnd`, `AgentStops` (liveness) | main's order of waiting excludes the panic; a poll is lost only if it was made during a report; the agent ends after the signal |
| `postgres` | 2 requests, 7 bodies, 1 or 2 connections, a fault, a crash, a restart | `TypeOK`, `AnswersTellTheEffect`, `JournalTellsTheTables`, `BatchesAreAtomic` (refines `BatchStore`), `MetricsStay` (action property), `RequestsEnd`, `StopEnds` (liveness) | requests are atomic and their answers true, a request that waits for a row or for a connection of the pool gets on, migrations leave the data alone, the shutdown ends |
| `audit` | 2 requests of any kind, any observers, a fault | `TypeOK`, `OnlyAppliedBatches`, `NothingLost`, `NoClosedObserver`, `RequestsAnswered`, `BatchesRecorded`, `StopEnds` (liveness) | an applied batch is recorded once or knowingly dropped; nobody waits for ever, if the audit server answers |
| `delivery` | 3 reports, 2 rotations, 2048 settings, both storage modes | `TypeOK`, `AgreeingSidesDeliver`, `SeenMismatchRejects` | a batch arrives when the two sides agree on the keys; what the server can see of a disagreement (the key pair always, the hash in the database mode if there is one) it refuses; the rest it stores |
| `delivery_success` | 2 reports, 1 rotation | `SuccessIsDelivery` is **violated** | section 5 |

Every property of a passing run is broken by the mutant of the code that `PROJECT.json` names for
it (a dropped lock, a missing wait, an off-by-one, a swapped file operation, ...).

**Bounds.** `MaxCalls`, `MaxReads`, the records in `Budgets`, `MaxPolls`, `MaxRetries`, `MaxConns`,
`MaxStarts`, `MaxCrashes`, `MaxFaults`, `MaxReports` and `MaxRotations` bound counters in guards; the
numbers of goroutines, requests and names are constants. They are chosen so that the interesting
cases happen:

* two writers and two names: both create the same metric, one waits; four names let a slice pass
  through the capacities 1, 2, 4, so a reader sees its rows moved twice. `HalfRange` is small, so
  sums wrap around.
* `backup_async`: the file of an earlier run gives the storage a gauge and a counter to lose. The
  second name, the empty one, which a batch or a URL may carry, makes an update append a row: to a
  slice whose array is full, with one row in it, so a loop that has the pointer is left behind with a
  row of its own, and one that loads the length afterwards leaves its array. Two updates give a slice
  two moves, or a move and an update of the row that was copied. One update with a failing file
  operation, a crash and a restart at any point of the backups makes a second backup begin behind an
  interrupted one. The third budget is one update before or after the signal, with all three backups.
* `backup_sync`: two updates with a fault, a crash and a restart, or a fault, a shutdown and a
  restart; two clients are needed for two updates in flight.
* `agent`: two workers is the least with which two reports overlap; one retry reaches both sides of
  the retry limit, and the outcomes `ok`, `lost` and `late` both sides of `isRetriableError`, as an
  error that is missing is not temporary (`4xx` and `5xx` are left to the proofs, which are for every
  set of outcomes); the one poll can fall into a report or outside, and between its two halves.
* `postgres`: two requests are the least that can deadlock, with two rows in opposite orders; a pool
  of one connection makes one wait for the other. The bodies include a row written twice, a sum out
  of range, a missing value and an unknown type behind a good row. Two starts are needed for a
  migration that runs again over data.
* `audit`: two requests contend for the lock with each other and with `Close`; one fault lets one
  observer fail where the other succeeds.
* `delivery`: two rotations let the server be two versions behind, and three reports let one come
  before, between and after them. The settings cover every order of the sources for the agent's
  hash key, two different keys and none; a server with and without a key, from each of its sources.

`MCView`, of `backup_sync` and of the behaviours of `backup_async` without a shutdown, identifies
states that differ only in files no path or goroutine leads to. `MCShutdownView`, of those with one,
identifies more, what `CleanExitKeepsEverything` and the steps after a state do not tell apart: of a
file that the path does not lead to only that its writer has to end matters, and all states after a
read behind an array, with a value that cannot be encoded or with nothing in the storage at the signal
are one, because the property says nothing of them. So in `backup_async` the shutdown is about this property; the other three are checked there on
the behaviours without a shutdown, and proved for all.
The symmetry sets contain model values that the component treats alike (the writers, the clients, the
final backup and main's); no configuration that checks a liveness property uses symmetry.

**Fairness.** `MemFairness`: a runnable goroutine runs, and Go's mutex hands over to a waiter that
starves, hence SF for `Lock`. `PoolFairness`: workers run, tasks end, a `Shutdown` in progress goes
on; nobody is obliged to submit or to shut down. `AgentFairness`: each request ends, because the HTTP
client has a timeout; `select` with a tick and a cancelled context both ready picks at random, hence
SF for `StopRuntime` and `StopReporter`. `Postgres!FairSpec`: handlers run, statements end, and
PostgreSQL breaks every deadlock after its timeout (`ExecFails` is part of the weakly fair
`Handler`; weak fairness is enough, because each of the finitely many requests is handled once, so a
connection or row that is free stays free for the last one that waits); nothing is said about breaking connections or crashes. `Audit!Running`: goroutines run,
and a goroutine that has waited for the mutex for a millisecond is served first, hence SF for the
steps that take it; `AuditAnswers`, kept apart because the code does not see to it, says that the
audit server answers every request it received. The signal itself is not fair.

`CHECK_DEADLOCK FALSE` stands where the system may stop: the process has exited, or a bound is used up.

## 4. What is proved

Every safety invariant, action property and refinement that a passing run checks is also a theorem,
for every value of the constants that satisfies the named `ASSUME`s of the modules; TLC evaluates
these in every run. Each theorem follows from an invariant that is inductive; the refinements follow
from one too, step by step.

* `MetricsProofs` holds the lemmas the others share. `WrapAdds`: it does not matter when a sum is
  wrapped, which is what makes replaying a file the same as adding. The folds of the community modules
  are recursive functions on the subsets of a finite set; `FoldsExist`, `FoldsAgree` and `SumTakesAny`
  (a sum may take any element last) are proved from the theorem that strict inclusion of finite sets
  is well founded.
* `MemStorageProofs`:
  * `MemTypeCorrect` and `NamesStayUnique` along `MemInv`. `WriterInv` is the heart: from the end of
    the search until the new row has its name, no row has that name, and `LockInv` keeps every other
    writer out. `ArraysInv` (rows beyond the length are blank, arrays only get longer) and
    `ReaderInv` (a reader that has checked a row number stays inside the arrays) carry the rest.
  * `CallsAreAlwaysAtomic`, the refinement of `MetricStore`, along `AtomicInv`, which adds what a
    writer knows between its search and its unlock (`WriterKnows`: the value it has read is still
    there, the words of a new row that are stored are the call's). Each writer's last store is the
    abstract call, every other step leaves the abstract storage alone.
  * `ReadsAreStable` along `ReadInv`. `StableReads` by itself says nothing of a read under way, so
    `ReaderKnows` does: a row that was complete when the read began has its place and its name in
    every array from the one the reader holds to the last; up to that place the answer is empty, after
    it the answer is one value of those the metric has had. `ArraysUnique` excludes a second one.
* `BackupProofs`:
  * `BackupTypeCorrect` along `TypeInv`. `LoopInv` is what the range loops need: the storage never has
    fewer rows than the length a loop has loaded, and the array a loop is left with has the first of
    them, with the same names; it may have fewer than the loop asks for.
  * `GoodCopyKept` along `RotationInv`: up to the first backup after the last complete one the file
    stays where it is, and in that backup its place follows from where the goroutine is, also when it
    is the one that never ended before a crash or a fault. With the second backup the claim ends.
    `LifeInv` says that before the signal only the periodic backup moves files.
  * `FilesHoldPast` along `HistoryInv` and `PastInv`: the words a loop finds in a row are past values
    or zero, a value that is still missing belongs to a row that appears once, and a backup writes each
    row at most once, into a file that was empty. Without the latter a counter could be written twice
    and add up.
  * `CleanExitKeeps` along `KeptInv`, `FreshInv` and `CoverInv`. A metric that is complete at the signal
    stays in the storage, and the row that is being appended later is another one (`KeptInv`), so it is
    read with its value. The other two are about the file that is there after main's rename: of each counter it holds at most as many values as there are backups that have passed
    it, and as long as a metric is missing from it one of the backups has that row before it.
  * `SyncCountersStayExact` along `SyncInv`, which says the same of the file that the shared producer
    writes, and that finitely many requests wait to be written.
* `WorkerPoolProofs`: `PoolTypeCorrect`; `PoolKeepsItsPromise`, the refinement of `TaskPool`, along
  `PoolInv`: a task is in one place at a time, and a worker that has left saw the channel closed and
  empty.
* `AgentProofs`, along `AgentInv`:
  * `NoPanic`, no `Submit` meets the closed channel. `ShutdownInv` says why: main starts the shutdown
    only after the reporter has returned, and a reporter that has returned has no `Submit` under way.
  * `ReportsEnded`, when `Shutdown` has returned nothing is queued or running: a worker that left
    saw the channel closed and empty, and nobody can fill it again.
  * `PollsReported`, a poll is missing only if it was made during a report. `PollsInv` strengthens
    it: what the counter covers, the argument of a report and the value read by `++` cover as well,
    at the moment each of them is about to replace the counter.
  * `AgentTypeCorrect`, and `AgentUsesPool`: the agent implements `PoolSpec`. With the theorem about
    the pool, `AgentKeepsPoolsPromise`: its reports are run exactly once.
* `PostgresProofs`:
  * `JournalAlwaysTellsTheTables` along `JournalInv`, which adds that `LookForTable` has told the truth
    when `CreateJournal` acts on it, and that the commit writes a record; no handler touches either.
  * `AnswersAlwaysTellTheEffect` along `AnswersInv`: a request that has no answer yet and is not cut
    off has not been applied, so a 400 cannot come after a commit, whatever the bodies, the size of
    the pool and the number of requests.
  * `PostgresTypeCorrect` along `TypeInv`, which counts the connections in use, and
    `MetricsAlwaysStay`: what an upsert leaves is a value.
  * `BatchesAreAlwaysAtomic`, the refinement of `BatchStore`, along `TransactionInv`: no two
    transactions have written one row, and what a transaction has written is, on top of any tables
    that agree with the database in those rows, what its first rows make of them
    (`TransactionsTell`). To say it of the present tables alone would not be inductive, because
    others commit in between. An abstract batch is a fold over its rows; that one more row is one
    more application of it is proved with the lemmas of `MetricsProofs`.
* `AuditProofs`, along `AuditInv`: `NeverWritesToAClosedFile`, because the goroutine of an observer runs
  only while its notification waits for it with the lock (`LockInv`), so `Close` is not at work;
  `RecordsOnlyAppliedBatches` and `NoEventIsLost`, because one event at a time is told, an observer that
  is yet to be told has not recorded it (`ObserversInv`), and only the handler of a batch that
  succeeded leaves names (`NamesInv`); `AuditTypeCorrect`.
* `DeliveryProofs`, along `DeliveryInv`, for any settings, batch sizes, rotations and restarts:
  `AgreeingDeliver`, `SeenMismatchReject`, `DeliveryTypeCorrect`. `BodyInv` is the heart: at each stage
  the layers are exactly those the agent put on less those taken off so far, and `agreed` tells which
  case the server was in; `CountersInv` adds that a batch is not in the storage before it is answered.
  `TwoPassesArePriority` says of every setting, default and empty value that the two passes of the
  agent's configuration amount to environment, flag, file. That is what the code does and not what its
  comments say (section 5).

The attempts also changed what is stated. Not provable, because true of the instances only, were:

* that the rotation always keeps a good copy. A backup that follows an interrupted one removes the last
  complete copy before it has made another, and after the signal three goroutines rename the files.
  `KeepsAGoodCopy` holds from a complete backup until the second one after it begins.
* that a backup takes only rows of the storage. It reads without the lock, so a row can come without its
  value or its name, and from behind an array anything can; `FilesHoldPastValues` admits the zero of
  such a row, says nothing of a row without a name, and both it and `CleanExitKeepsEverything` end at a
  read behind an array (`wild`).
* that a clean exit leaves each counter with a value it had: two or three backups that append to one
  file add up, and an operation that fails can stop the only backup that would have been complete.
  `CleanExitKeepsEverything` has `Sums`, and no faults.
* that after a failing write the file of the synchronous mode is merely behind: with a negative delta
  among the lines that failed it is ahead, and where sums wrap around the order means nothing.
  `SyncCountersExact` is now exact, also after a fault and a restart, in every state in which the
  producer has met no failing line and the file does not end in part of one.

Assumptions that had been left unsaid are named now: the rows of an earlier file are a storage, with one
row per name; there is a file to open; an unencodable value is not an integer; a body is a sequence;
at least one report may be made.

Not proved: liveness under fairness (`CallsReturn`, `ShutdownEnds`, `AgentStops`, `RequestsEnd`,
`RequestsAnswered`, `BatchesRecorded`, both `StopEnds`), which these provers do not reach. TLC checks it.

## 5. Where the code and its comments disagree

Each of these is a run that TLC ends with a counterexample:

1. `storage.go:45` says the mutex makes the operations on the storage thread-safe.
   `GaugeSlice`/`CounterSlice` return the live slice without it: a reader can combine an old array
   with a new length, or see a row's name before its value (`storage_unlocked`). The backups do the
   same (`backup.go:203` and `215`): `performBackup` can write a metric with the value 0 that it never
   had, or a row without its name, and it can read behind an array or end the process there.
2. `performBackup` locks a mutex that is its own local variable (`backup.go:175`). After the signal
   the final backup goroutine and main back up at once; when both open the file before either renames
   it, both append everything and a restore doubles the counters (`backup_doubled`).
3. `SendWithRetry` returns nil after «Успешная отправка», a successful transmission
   (`send_functions.go:319`), when only the counters have arrived: the error of the gauges is dropped.
   With a public key that is the normal case, because a gauge batch is longer than RSA-OAEP takes
   (`delivery_success`).

Read in the code, described here, and not a run of their own:

* `POST /update/gauge/x/NaN` stores NaN, which `json.Marshal` refuses. From then on every backup
  stops at that row, after renaming the previous one away; later gauges and all counters are in no
  current backup, the final one included, and the second such backup removes the last complete one. It
  is in `Backup` (`WriteRow`), and
  `CleanExitKeepsEverything` has to assume that every row can be encoded (`Encodable`).
* A backup that is interrupted leaves its complete predecessor as the `_old` file; the next backup begins
  with removing it (`backup.go:187`), and until that one has ended there is no complete copy, only the
  interrupted file, now the old one. A restart restores from that file meanwhile.
* `flags.go:125` gives the agent's flags the highest priority and line 148 the environment a middle one.
  `ParseFlags` has then already replaced the value of a flag by the environment's, so the environment
  wins, an empty variable included. A flag that is given its default value loses to the file as well.
  `TwoPassesArePriority` proves the order the code has.
* Two workers send overlapping reports that both carry the same `pollCounter`, and the server adds it
  twice. `PollsAreReported` is about lost polls only.
* `PostUpdateSyncBackup` updates the storage and writes the file in two critical sections
  (`handlers.go:444-456`), so of two concurrent updates of a gauge the storage can keep the second
  and the file the first. Counters add up in any order, which is what `SyncCountersExact` checks.
* In synchronous mode `/updates` and `/update/{metric}/{name}/{value}` write nothing to the file
  (`server.go:98-101`), although line 107 speaks of a backup after each update.
* `isRetriableError` names 5xx answers as temporary (`send_functions.go:287-290`) and recognises only
  network errors. It is in `Agent` as the code has it.
* A batch that is refused at an unknown type is answered 400 after the metrics before it have been
  stored (`handlers.go:400`; in the database mode they are rolled back), and in memory a missing value
  panics at that point.
* The in-memory handler never checks the hash, and the database handler skips the check when the header
  is missing (`handlers.go:276`): a batch of an agent without a key is stored by a server with one.
* A database that cannot be reached at the start ends in a nil dereference; a migration that fails
  (its path is relative to the working directory) lets the server run and panic in a deferred `Close`
  at the shutdown (`server.go:58`), in spite of the graceful shutdown of line 126.
* In the database a sum out of the range of BIGINT fails where the storage in memory wraps around;
  two batches that name the same metrics in opposite orders can end one with 500.
* The HTTP audit observer has no timeout and works under the manager's lock: an audit server that
  hangs stops every request (`IsEnabled`) and the shutdown. Main does not wait for notifications, so
  events of the last requests can be lost. `NewAuditManager(true)` is enabled without observers, and
  `auditDataMap` is never filled.
* After the key files have been replaced the server rejects every report until it is restarted.
* The server never reads its configuration file: `cmd/server/flags.go:38` asks for `config.json`, which
  the flag `config` shadows. Its flags `-crypto-key`, `-audit-file`, `-audit-url` and `-pprof` are
  registered with a hyphen and looked up with an underscore or another name, so they have no effect.
* `compressWriter` sets Content-Encoding in `WriteHeader` (`gzip.go:34`), which `GetHandler` does not
  call: its answer is compressed without a label. The JSON handlers set the label also when the
  client does not accept gzip.
* After a write that failed the synchronous handlers' producer answers 500 to every update until the
  next start (`bufio.Writer` keeps its error), though the storage keeps them. If part of a line
  was written, the next run appends behind it and answers 200, and a restore never reads these lines:
  it ends at the first one that is not JSON (`backup.go:126-129`).
* With `restore=false` the server appends to the file of an earlier run.

## 6. What is not modelled

Of the PostgreSQL mode the reads and the ping, which are single queries that change nothing, and
`postgres.go:14-84`, which nothing calls. Of the request pipeline the compression of answers and the
logger. Of a delivery, key files that are missing or malformed (the server ends at the start, the agent
fails each report). Left out for good: `performBackupToPostgres`, `SendMetric` and `Flush`, which have
no caller or no effect;
the object pool, the generated `Reset` methods, the code generator, the linter and the benchmarks,
which the running system does not use; formats (JSON, HTML, compression), which are represented by
their outcome; a port that cannot be bound. `MainPage` is one more unlocked reader and adds no
behaviour to those of `MemStorage`. The decoding errors of the handlers return before anything is
changed and are no steps.

## 7. Plan

1. Done: `Metrics`, `MetricStore`, `MemStorage`; `Backup`; `TaskPool`, `WorkerPool`, `Agent`; the
   first proofs.
2. Done: `Migrations`, `Postgres` with `BatchStore`; `Audit`; `Config`, `Delivery`; their first proofs.
3. Done: proofs of every safety property, action property and refinement that a passing run checks.
4. Left: liveness of the backup goroutines at the shutdown (`wg.Wait` in `main`); the order of gauge
   updates in synchronous mode; the reads of the database mode.
5. Left to prove, as the models grow with these: their type invariants and safety properties.
