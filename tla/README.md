# Verification of clericot

TLA+ models of clericot (a Go web framework on PostgreSQL with row level security,
a River outbox, Redis Streams, Asynq and blob storage), the TLC runs that check
them and the TLAPS proofs about them.  Paths below are relative to the repository.

## The system

| Component | State | Operations | Talks to |
|---|---|---|---|
| Transaction manager `internal/platform/database/tx.go` | pool, transaction in the context | `RunInTx` (root, nested), `GetDB`, `GetTx` | PostgreSQL; calls the tenant hook |
| Tenant session `internal/platform/tenant/tenant.go` | tenant in the context, session setting | `SetTenantSession` | called by `RunInTx` for root transactions |
| Orders `internal/modules/orders` | tables orders, order_items, jobs in river_job | `CreateOrder`, `CancelOrder`, `GetOrderByID`, `SearchOrders` | `RunInTx`, River, audit, token middleware |
| Audit `internal/platform/audit` | jobs in river_job | `StageAuditLog` | River, in the caller's transaction |
| Accounts `internal/modules/auth` | table users | `Register`, `Login`, `GetMe` | `RunInTx`, token service |
| Tenant purge `internal/platform/tenant/worker.go` | tables users, tenants; objects in blob storage | `EnqueuePurgeTenant`, `ProcessTask` | Asynq, `RunInTx`, storage |
| Storage `internal/platform/storage` | bucket | presigned URLs, `Write`, `DeletePrefix` ... | the bucket |
| Event bus `internal/platform/events` | river_job, streams, idempotency keys, dead letters | relay `Work`, the middlewares | River, Redis |
| Cache `internal/platform/cache` | L1 per node, L2 in Redis, flights | `FetchOrCompute`, `Invalidate`, listener | Redis |
| Shutdown `internal/platform/app` | readiness, streams | `Shutdown`, `Register`, `CloseActiveStreams` | HTTP server, workers, pools |
| Resilience `internal/platform/resilience` | breaker state, shared by all callers | breaker, retry policy, round tripper, `Execute` | failsafe-go, an upstream service |
| Token service `internal/platform/auth/token.go` | revocation keys in Redis | `GenerateToken`, `ValidateToken`, `RevokeToken`, the middleware | Redis; called on every request |
| Rate limiter `internal/platform/security/rate_limiter.go` | counters in Redis | `Allow` | Redis |
| Start `internal/platform/database/{db,migrations}.go`, `cmd` | schema, goose's version table | `NewPool`, `MigrateUp` in API, worker and `clericot migrate up` | PostgreSQL |

The API process serves requests as goroutines that share the connection pool; the
worker process runs River jobs and Asynq tasks.  What is hard is between
statements: two requests at READ COMMITTED, a request and a purge task, a
cancelled context and the deferred rollback, a crash between two phases, a
message delivered again.  `PROJECT.json` lists the hazards line by line and the
properties aimed at each.

What makes each part correct:

- transaction manager: a call is all or nothing through nesting, swallowed errors,
  panics and cancellation; the pool never leaks a connection, a transaction or a
  tenant;
- orders: an order, its lines, its event and its audit record appear together;
  answers are true;
- accounts and purge: addresses are unique; a purge scrubs every user and deletes
  every object the tenant had, however often it fails;
- event bus: what was staged is handled once or dead-lettered, duplicates are discarded;
- cache: a node does not serve an invalidated value for longer than its time to live;
- start: nobody serves before his schema is there, and programs that start together do
  not keep each other from starting;
- shutdown: work that was begun ends before the pools close, within the budget;
- search: a client that pages through orders while they change misses and repeats
  none without a cause it could know;
- tokens: a token is refused once it is revoked or expired;
- resilience: only failures open the breaker, and it closes again once they end.

## Modules

| Module | What it is |
|---|---|
| `UnitOfWork` | the promise of `RunInTx`: open calls hold work; the outermost one commits it in a step or not at all |
| `TxManager` | `RunInTx` in detail; refines `UnitOfWork` |
| `TxManagerProofs` | theorems about `TxManager` |
| `MCTxManager` | its instances for TLC |
| `OrderBook` | the promise of the orders module: orders appear whole, each change with its outbox entries |
| `Orders` | the orders service statement by statement; refines `OrderBook` |
| `OrdersProofs` | theorems about `Orders`, the refinement among them |
| `MCOrders` | its instances |
| `TokenService` | tokens, their expiry and revocation, and Redis; composed into `OrderSearch` |
| `OrderSearch` | authenticated clients page through the search while orders change |
| `OrderSearchProofs` | theorems about `OrderSearch` |
| `MCOrderSearch` | its instance |
| `TenantLifecycle` | registration and the purge task on one tenant |
| `TenantLifecycleProofs` | theorems about `TenantLifecycle` |
| `MCTenantLifecycle` | its instances |
| `EventPipeline` | a domain event from its River job through the relay, the stream and the middlewares to its handler |
| `EventPipelineProofs` | theorems about `EventPipeline` |
| `MCEventPipeline` | its instances |
| `CacheEngine` | the two-tier cache: fetches, invalidations, messages and expiry on several nodes |
| `MCCacheEngine` | its instances |
| `Shutdown` | the five phases of the coordinator against running work, with time |
| `ShutdownProofs` | theorems about `Shutdown` |
| `MCShutdown` | its instance |
| `Startup` | API, worker and `migrate up` connect to one database and migrate it at once |
| `StartupProofs` | theorems about `Startup` |
| `MCStartup` | its instance |
| `Resilience` | callers, a retry policy and a circuit breaker in either order |
| `MCResilience` | its instance |
| `PlatformProofs` | theorems about `CacheEngine` and about `Resilience`, which share no state |

### TxManager

Each process makes one outermost call of `RunInTx`.  `pc` is its place: waiting for
a connection (`pool.Begin`), in the tenant hook, in `fn`, at the commit, or in the
deferred function (`rollback` after an error, `unwind` while a panic runs through
the calls).  `stack` holds the open calls: what the transaction had when the
savepoint was set and what the call's `fn` was told is done.  `fn` itself is
arbitrary.  `cut` says from which call inwards the context is done; `CancelContext`
may set it at any time.  `tx` is what the server knows of each pool slot:
open, aborted by a failed statement, or dead with its connection.

PostgreSQL, pgx and pgxpool are external and are modelled by what `RunInTx` relies
on: a failed statement aborts the transaction; `ROLLBACK TO SAVEPOINT` revives it;
`COMMIT` of an aborted transaction rolls back and pgx reports an error; a
statement whose context is done is not sent; one interrupted on the wire costs the
connection; a handle whose `Commit` was tried is closed, and its `Rollback` then
does nothing.  `set_config` with `is_local` true ends with the transaction.

The refinement mapping takes the work of an open call to be what its `fn` was
told is done (`acc`), not what the server has pending: that the two agree at
every commit is what is checked.

### Orders

One action per SQL statement.  The rows a call has written are in `work` until its
commit; `RunInTx` is used by the promise `TxManager` is shown to keep.  A row is a
record: an order header, a line, a cancellation (the update of the status), a job
in river_job.  At READ COMMITTED each statement sees what is committed when it
starts, and the row policies on `orders` and `order_items` decide by that snapshot too:
`Open` is their condition that the tenant is active.  `PurgeTenant` is the commit of a
purge, `TenantLifecycle`'s, which may fall between any two statements: later SELECTs
then find nothing (`Visible`, `ReadLines`), later INSERTs are refused (`Insert`), and an
UPDATE that has started (`StartUpdate`) keeps the row it found.  `RowSecurity` says whether
the policies bind the role of `DATABASE_URL` at all.  The WHERE clauses name the tenant
too, so that only the tenant's status depends on it.  `UpdateStatus` waits for the
transaction that has updated the row.  Any statement may fail; the error `CancelOrder` drops leaves the transaction `broken`,
as PostgreSQL does.  `RiverConfigured` says whether the service has a River client.

Abstracted: amounts, names and times (no property is about them), validation
(a refusal before the transaction is the failure `Fails` at the start).  `SearchOrders` is
in `OrderSearch`.

### TokenService and OrderSearch

`TokenService` has the clock, each token's expiry, the time at which its revocation key
in Redis lapses (`lapse`) and whether Redis answers.  Its operations are whole calls:
`ValidateToken` is one EXISTS after a local check, `RevokeToken` one SET.  `covered` is a
history variable: the last revocation reported success for all the life the token had.

`OrderSearch` EXTENDS it and adds clients that walk through
`GET /v1/orders/search`.  An order gets its time (`BeginOrder`) before its transaction
commits (`CommitOrder`), or never commits; it may be cancelled.  A request is
`Authenticate` (the middleware) and then `ReadPage`, one SELECT:
`Matching` is the WHERE clause with the handler's mapping of empty parameters and zero
amounts, and `Slice` is what `ORDER BY created_at DESC LIMIT n OFFSET k` may return,
without a recursion: the page and the rows before it, in any order among rows of
the same time.  A client adds the limit to its offset until a page is short.
`constant`, `left` and `entered` are history variables: orders that matched during all
of the walk, and those that ceased or began to match meanwhile.

Left out: soft deletion (nothing sets `deleted_at`), signatures (taken to be right), and
the tenant of the `X-Tenant-ID` header, which the service replaces by the principal's, and
the purge of a tenant, after which the policy hides all its orders.

### TenantLifecycle

One tenant.  `Register` is its check, the start of its INSERT (whose snapshot the
row policy uses: it refuses the INSERT once the tenant is deleted), the arrival at the unique index (where it waits for
transactions that hold the address) and its commit.  A purge task is its
UPDATE of the users, whose snapshot fixes the rows and which then waits for another
task that has updated them, the UPDATE of the tenant, the commit, the
listing of the objects and their deletion one by one.  `PurgeFails` is every error
and every crash: what is not committed is gone and Asynq runs the task
from its beginning, `MaxAttempts` times.  `known`, `late` and `stored` are history
variables that only the properties read.

INSERTs take a key share lock on the tenant's row, which the purge's UPDATE of
non-key columns does not wait for: that is why a registration and a purge can
overlap.  Other tenants are absent: every statement carries the tenant, and
`TxManager` covers the session setting.  Deletions are modelled after one listing;
an object uploaded after it may stay, in the model as in the code.  `RowSecurity` is as in
`Orders`: without it the policy hides no user from anybody, and a task that runs again
finds those the first one missed.  The lookups of `Login` and `GetMe`, one SELECT each,
are left out: what they show is what the policy says.

### EventPipeline

Starts where `Orders` ends: each event has a committed River job.  `job`, `attempts`
and `appended` are the relay's side: River fetches the job, `Work` publishes
the message under the event's ID, River completes the job; a process that dies in
between, or an error of `Publish`, makes River run the job again.  `delivered` and
`pending` are the consumer group's: an entry stays in the pending list until it is
acknowledged, and any pending entry may be claimed, since the model does not know
how long it has been idle; a slow handler's entry is claimed like a dead one's.  `pc`, `msg` and
`tries` are the workers': the key (`checking`), the handler (`handling`), the dead
letters (`poisoning`), the acknowledgement (`acking`).  The nesting is that of
`ConfigureSubscriberRouter`: idempotency outside, then Retry, then PoisonQueue.  `handled`
and `struck` are history variables; `struck` holds the events that a
fault hit between the setting of the key and the handler's outcome.

River, Redis Streams and the watermill router are external and modelled by what
relay and middlewares rely on.  Not modelled: trimming of the stream, the key's
24 hours (taken to outlast redelivery), the `NopPublisher`, a subscriber without Redis.
No program of the repository calls `ConfigureSubscriberRouter`; handlers are
therefore arbitrary.

### CacheEngine

One key; its value is the version of the data that `compute` reads.  `entry` holds what
each node's L1 and the shared L2 have, `flight` the computation `singleflight` runs on a
node, `inbox` the invalidations on their way to a node's listener.  A fetch goes
through the steps of `FetchOrCompute` (`pc`, and `val` for the version in hand) and
starts again; a writer changes the data and then goes through `Invalidate` once.  Any
call of Redis may fail: a GET is then a miss, the error of SET is dropped, that of
DEL ends `Invalidate` before it publishes (a DEL that was executed although it
reported an error is as good as one whose message reaches nobody).  A message
reaches any set of nodes.  `excused` is a history variable: the places that hold an
entry that was old when it was stored, or whose invalidation was lost.

Left out: an engine without Redis, `Close`, the formatting of keys.  The values fetches
return are not kept: they are the entries.

### Shutdown

`phase`, `now` (seconds since the signal) and `end` (when the context of the phase
is done) are the coordinator's; `hub`, `sweep` and `told` are `StreamHub`'s map, the
streams `Range` began with and those whose closer was called; `waiting` is the wait
group of phase 3.  `state` and `holds` are the work's: a request, a job or a task
begins while its source takes work, takes and returns connections, and returns when
it likes or never.  Server.Shutdown, Client.Stop, Asynq's server and Pool.Close are
external and modelled by when they return.  `cmd/worker` starts Asynq's server with
`Run`, which waits for the same signal as `main` and calls `Shutdown` itself;
`AsynqHearsSignal` and `ShutdownAsynq` race, and the loser's call returns at once.
`FindsClosed` is work that needs a handle after it was closed, `Exit` cuts what still
runs.  `overdue` and `abandoned` are history variables.

Time passes (`Tick`) only while the coordinator waits for something (`Waits`); the
closers of streams and the `Close` of the other handles are taken to be quick.  Left out:
the Watermill router, which both programs leave nil and whose `Close` has no
deadline here, hijacked connections, and the readiness flag, which nothing waits for.

### Startup

`pc` is where a process is: `NewPool`'s pings, goose's loop (read the version, open
the next migration, apply it and record it, read again), the start of listener or
workers, serving.  `schema` holds the committed versions, with goose's own table as
version 0; `last` is the version of the row recorded last, which is what goose
takes for the version of the database, and which can go back.  `tx` says what an
open migration does: it creates something new, waits for another that does, or repeats
one that is committed, which all four migrations are written to allow.  `Knows`
gives each process the migrations of its own binary.  `Init` is any database that some
release has left.

Goose and PostgreSQL are external.  The row is recorded and committed in one step.
A migration that is repeated may be failed by the commit of any other, since it
grants and alters what that one may have granted and altered.  `river` says whether
River's own tables are in the database.  No program of the repository creates them
(`0003_river_autovacuum.sql` makes `river_job` only), so it never changes; both values are initial
states.  Without them, or while PostgreSQL is away, `riverClient.Start` fails and the
worker exits (`RiverFails`, `cmd/worker/main.go:103`); the API has no River client.  `Dies` is
every exit that is not modelled by itself: a failed statement or listener, a
kill, and a signal, which kills a process that has not yet called `signal.Notify`.
Left out: errors of the configuration, and the creation of River's tables while the
programs start.

### Resilience

`policy` is what the constructors were given and which policy is the outer one: a retry
policy around the breaker asks it before each attempt; a breaker around the retry
policy is asked once a call and hears of the last attempt only.  `state`, `streak`,
`permits` and `delayed` are the breaker's, which all callers share; `at` (the place), `tries`,
`outcome` and `sent` are a call's.  The two predicates are the repository's; the breaker
and the composition of policies are failsafe-go's, external, and modelled by its
documented behaviour.  A result counts in the state the breaker has when it arrives, so
results of calls let through before an outage arrive late in any state.  `GiveUp` is
the end of the caller's context.  `failures` is a history variable and saturates at the
threshold, since no property asks for more.

A round tripper built by `NewHTTPClient` and a function run by `Execute` go through the
same steps; the generic constructors differ in the predicates, which then are
failsafe-go's (any error).  Left out: predicates, `AbortIf` and callbacks that a program
passes in, a negative `MaxRetries` (no limit), and the lengths of delays.

## Runs

| Run | Expect | What it shows |
|---|---|---|
| `tx_manager` | pass | two calls share one connection (one with a tenant, one without), nest 3 deep, issue 3 statements: `AllOrNothing`, `OwnTenantOnly`, `PoolClean`, `ImplementsUnitOfWork`, `EveryCallReturns` |
| `orders` | pass | one order of 2 lines, two cancellations by its tenant, one by another, a reader, and purges of both tenants: `WholeOrders`, `ResultsTruthful`, `ImplementsOrderBook`, `EveryCallReturns` |
| `orders_double_cancel` | violation | two overlapping cancellations both succeed |
| `tenant_lifecycle` | pass | two registrations of one address, one object, two purge tasks of 2 attempts: `EmailUnique`, `RegisterTruthful`, `ScrubComplete`, `StoragePurged`, `EveryCallEnds` |
| `tenant_late_user` | violation | a user whose registration overlaps the purge stays as registered in the deleted tenant |
| `event_pipeline` | pass | two events, two workers, two faults of any kind: `HandledAtMostOnce`, `SettledUnlessStruck`, `PendingDrains` |
| `event_crash` | violation | a worker dies in its handler; the event is acknowledged as a duplicate and never handled |
| `cache_engine` | pass | three fetches and a writer on two nodes: `StaleHasCause`, `OneComputation`, `EventuallyFresh` |
| `shutdown` | pass | a request that may stream, a job and a task: `NothingCutShort`, `WithinBudget`, `Exits` |
| `startup` | pass | API, a worker of the release before and `migrate up` start on a database of any release, with River's tables and without: `SchemaIsPrefix`, `ServesFullSchema`, `RaceHasWinner`, `EventuallyServes` |
| `order_search` | pass | a client pages through three orders that come, change and tie, with a token that expires and is revoked, and a Redis that fails: `MissedHasCause`, `RepeatedHasCause`, `RevokedRefused` |
| `resilience` | pass | two callers, one retry, six policies, three outages or calls given up: `OpensOnFailuresOnly`, `ReturnsTruthfully`, `Recovers` |

Deadlock is checked in the runs of the cache, the search and the resilience policies,
where something can always go on.  It is not in the others: there each call
is made once and the system stops when all have returned.  That nobody waits for ever
is what `EveryCallReturns`, `EveryCallEnds`, `PendingDrains`, `Exits` and `EventuallyServes` say.

Each property of a passing run has a mutant: an operator with a bug one could write
(the setting outlives the transaction, the event is inserted on the pool, the
tenant is marked before its users are scrubbed), under which TLC finds the
property violated.

### Bounds

- `MaxDepth` 3: an inner call inside a nested one, so that a savepoint is rolled back
  into work that is itself rolled back or kept.  `MaxStmts` 3: a statement in each of
  three calls, or a savepoint with a statement before and after.  One connection for
  two calls is the smallest pool that is too small.
- `LineCount` 2: an order can be incomplete after its first line.  Two cancellations
  are the fewest that compete; a third call, of another tenant, must find nothing.
  `RowSecurity` TRUE, here and for `TenantLifecycle`: the value with more behaviour of the
  policies.  The proofs are for both.
- Two registrations compete for an address; two purge tasks overlap; two attempts
  make a retry after a failure at any step; one object is enough to be left behind.
- Two events tell apart keys that are shared from keys that are not; two workers
  compete for an entry; two attempts of a job make a duplicate; two faults exhaust
  `MaxRetries` 1 (3 in the code), or follow a duplicate by a crash.
- One writer makes two versions, the old and the new; two fetches on its node share a flight
  and one on another node shares only L2, so that an old value can come to a node from
  its own flight, from L2 or by a lost message.
- One piece of work of each kind races with the coordinator; a request that does not
  register a stream is an ordinary one.  The timeouts keep the order of the code's (1, 8, 10,
  8, 3 of 25 seconds) but are shorter (1, 2, 3, 2, 1 of 8), and the clock goes one
  second beyond the budget.
- `Newest` 3 (4 in the code): enough for the version to go back by more than one, and for
  a worker that is one release behind; three processes, of which one waits while
  one creates and one repeats; two releases; two faults, so that the transaction another
  waits for dies, and then that other.  `Pings` 2 (10 in the code).
- Three orders: one to be missed or repeated, one ahead of it that comes or goes, and one
  that ties.  Pages of one order make the most pages, a default of 2 (50 in the code) a
  full and a short one; the clock's 3 ticks let a token of life 2 expire, and a key lapse
  before and after it.
- Two callers compete for permits and let a result come late; `FailureThreshold` 2 (5) is
  the least with a streak; `SuccessThreshold` 0, 1 and 2 (1) are the three ways out of
  the half open state; one retry (3).  Three faults: an outage, and a second one or calls
  given up while the breaker recovers from it.

The proofs have no bounds.

### Fairness

`TxManager`: weak fairness of each call's own steps: a goroutine that can run is run.
A cancellation is never assumed to come.  `Orders`: weak fairness of each call's
progress, none of its failures, so that a call waiting for a row returns because
the row is freed and not because the call is given up.  `TenantLifecycle`: weak fairness of
the steps of each registration and of each task, whose first step is that Asynq
hands it to a worker that is up; not of failures or uploads.
`OrderSearch` states safety only and assumes none.  `EventPipeline`: weak fairness of River, of taking entries and of each
worker's steps, not of faults.  `CacheEngine`: weak fairness of the steps of a fetch or
an `Invalidate` that has begun, of a node's listener and of expiry, which otter and Redis
promise; not of failures, new fetches or writes.  `Shutdown`: weak fairness of the
coordinator, of Asynq's timeout, of time, and of giving back a connection once the pool
is being closed (a statement ends); no request, job or task need ever return.  `Startup`: weak fairness of each process, of the
return of the database and of the restart of a daemon that has exited.  The last two are not
in the code: the compose file restarts PostgreSQL, and the golden rules name Kubernetes,
which restarts containers.  `Resilience`: weak fairness of each caller's steps, a new
call included (a breaker nobody asks never closes), and of the breaker's delay; not of
calls given up, outages or their end.  `Recovers` itself supposes that the upstream is up
for good.  None assumes strong fairness.

## Findings

1. `orders/service.go:187`: overlapping calls of `CancelOrder` both succeed
   (`orders_double_cancel`).
2. `tenant/worker.go:95`: a registration that overlaps a purge leaves its user's
   data in the deleted tenant, and the task is over (`tenant_late_user`).  The policy that
   hides it from a second task hides it from readers too, but only where it binds: the
   default `DATABASE_URL` (`config/config.go:29`) connects as the superuser, whom
   `docs/guidelines/distilled-lessons.md:8` says row level security does not hold, although
   `docs/architecture/stack-standards.md:20` has the application connect as `app_user`.
3. `events/middleware.go:23`: the idempotency key is set before the handler runs and
   kept when it does not finish, so an event whose worker dies is lost
   (`event_crash`).  `SettledUnlessStruck` says exactly when that can happen.

What the properties that hold say between the lines, without a run of its own:

- `AllOrNothing` supposes that nested calls have no deadline of their own
  (`NestedTimeouts` FALSE).  With one (`tx.go:60`) the context may end between `fn` and
  the release of the savepoint; the deferred rollback is a no-op on the closed handle,
  the call reports an error, and its work is committed by the root.  When only the
  request's own context ends, the root's commit fails too.
- The router runs middlewares in the order they are added, so PoisonQueue, added last
  (`events/middleware.go:55`), is inside Retry: it sends the message of the first failure to
  the dead letters and reports none, and Retry retries only when that fails.
  `docs/guidelines/golden-rules.md:26` has it route "persistent failures".
  `SettledUnlessStruck` counts a dead letter as an outcome.
- `MissedHasCause` and `RepeatedHasCause` allow what OFFSET cannot avoid (under a status
  filter a cancellation moves later orders up by one, past the page boundary; a new order moves
  them down) and what the missing tie-breaker adds (`orders/repository.go:176`): orders of one
  `created_at`.  Orders that commit late, behind the client's place, make nothing be missed.
- `orders/handler.go:159`: a maximum amount of 0 means no maximum.
- `RevokedRefused` holds while Redis answers: when it does not, `ValidateToken` lets a
  revoked token pass (`token.go:75`), where `docs/architecture/stack-standards.md:76` speaks of
  instant revocation.  `RevokeToken` overwrites a key by one that may lapse sooner, which is
  why `covered` is about the last call; without a Redis client it does nothing and
  reports success.  No program of the repository calls it.
- `OpensOnFailuresOnly` says that a 429 does not trip the breaker.  The comment
  (`resilience.go:24`) says it is ignored; the breaker counts it as a success, so that
  it ends a streak of failures, and may close a half open breaker.  A call the caller gives up
  counts as a failure.
- `ReturnsTruthfully`: `ErrCircuitOpen` means that nothing was sent only when the breaker is the outer
  policy.  Inside a retry policy the attempt before may have been sent, and the breaker's
  own error is retried (`resilience.go:49`).
- `WholeOrders` has a second case.  When a purge commits between the two SELECTs of `GetByID`
  (`orders/repository.go:89`, `:100`), the policy of `order_items` finds the tenant deleted and
  hides its lines: `GetOrderByID` returns the header without lines and no error, where
  `orders/repository.go:85` says it "retrieves an order and its line items".  Without the
  case the invariant fails.  `CancelOrder` does not succeed with such a reading, since the UPDATE
  then finds no row.
- `EventuallyServes` promises the worker only with River's tables.  `README.md:25` to `:47` has one
  start the database, run `migrate up` and then the worker; after these steps River's
  tables are missing, apart from `river_job`, and the worker exits at every start
  (`cmd/worker/main.go:103`), as the second half of the property says.
- `cmd/api/main.go:98` wires the orders module with a nil River client.  With
  `RiverConfigured` FALSE nothing is staged and orders are committed without events or
  audit records; the runs check the module with a client.
- `cache/cache.go:139`: `Invalidate` clears L1 before it deletes from L2; a fetch in
  between puts the old value back into L1, where nothing removes it before its
  2 minutes are over.  It is one of the three causes `StaleHasCause` allows, and
  `EventuallyFresh` says that it ends.
- `RaceHasWinner` says some process gets through, not that all do.
  `docs/architecture/stack-standards.md:21` has migrations run "with Postgres
  advisory locking"; `goose.UpContext` (`migrations.go:35`) takes no lock, so programs
  that start together on a database with pending migrations may exit, and serve only
  once they are started again.  `LoseRace` and `TableExists` fire in the run.
- `NothingCutShort` excepts `abandoned` tasks: when Asynq's own signal handler comes first,
  the coordinator does not wait for tasks in phase 3 and may close storage, Redis and the
  pool under them (`coordinator.go:119`, `cmd/worker/main.go:131`).  Without the
  exception the invariant fails.
- `WithinBudget` excepts `overdue` work: `dbPool.Close()` (`coordinator.go:157`) waits for a
  connection without a deadline, so the 25 seconds of golden rule 13 hold only for
  work that returns its connection.  Without the exception the invariant fails.

## Proofs

`TxManagerProofs` proves, for every set of processes, connections and tenants and
every depth and number of statements:

- `TypeCorrect`, `PoolCleanHolds`: from the inductive invariant `ConnInv`, that is
  `TypeOK`, `PoolClean` and `Shape`.  `Shape` relates a call's `pc` to its stack and
  its connection (no connection before it has begun or after it has returned, a
  stack of at least one call between); without it `PoolClean` is not inductive,
  since nothing would say that the slot a call gives back is its own.
- `OwnTenantOnlyHolds`: from `TenantInv`: a call past the hook has its own tenant set on its
  slot, and everything pending there was executed under it.
- `AllOrNothingHolds`, under `~NestedTimeouts`: from `WorkInv`, which relates what the
  server has pending on a slot to the open calls of the process that holds it.  A
  context that is done is done for all calls (`cut` is 0 or 1); the outermost `mark`
  is empty and each inner one is the `mark` and the `acc` of the call around it; while
  the transaction is open and the request not cancelled, what is pending is the
  innermost `mark` with the innermost `acc`.  The assumption is needed, as said
  above.
- `UnitOfWorkImplemented`, under the same assumption: `ImplementsUnitOfWork` step by step.
  `Accs` is the mapping's view of a stack, one held set of work per open call; its lemmas say
  what beginning, executing, releasing and dropping a call do to it, `HeldStep` which of
  them a step does, and `StepImplements` which step of `UnitOfWork` that is (a stutter
  for statements that only PostgreSQL sees).  The step that commits needs `WorkInv`: only
  there do what was told and what is pending have to agree.
- `NothingLostHolds`, for both values of `NestedTimeouts`: what remains of `AllOrNothing` when nested
  calls have deadlines.  A call that reports success has all it was told is done in the
  database, one that fails before its commit has nothing there.  Its invariant `HeldPending` weakens
  the equations of `WorkInv` to inclusions, since a release that was not sent
  leaves work pending that nobody was told of.

`OrdersProofs` proves, for any calls, tenants and number of lines and for both values of `RowSecurity`, `TypeCorrect`,
`WholeOrdersHolds` and `ResultsTruthfulHolds`, from one invariant per kind of call
(`CreateInv`, `CancelInv`, `ReadInv`).  Each says what the call has written at the place
it is at, and `CreateInv` that its order is in the database with all rows or with none; that is
what makes the second statement of `GetByID` find all lines, or none of a tenant that was purged
(`Shown`).  Tenants only cease to be active, so a cancellation whose UPDATE finds
the row has read all lines before.  No invariant relates two calls: they
share only the database, which grows, and `OwnRows` and `OthersKeep` say that a step of one call
keeps the invariant of the others, since their rows differ.  `OrderBookImplemented` adds
the step simulation: a commit with a River client is the step of `OrderBook` for that
order, everything else a stutter.  `RiverConfigured` is needed: without a client there is no
outbox entry.

`TenantLifecycleProofs` proves, for any registrations, tasks, objects and attempts and for both
values of `RowSecurity`, `TypeCorrect`, `EmailUniqueHolds`, `RegisterTruthfulHolds`, `ScrubCompleteHolds`
and, if the worker has a storage engine, `StoragePurgedHolds`.  `AddressInv` strengthens
`EmailUnique` to transactions that have passed the unique index; `PurgeInv` says
that a task which will end an active tenant scrubs all that were registered when it began,
and that one past its commit works on a deleted tenant.  `StorageInv`
adds that what a task has still to delete of the tenant's objects is among what it
has listed.

`OrderSearchProofs` proves, for any orders, clients, requests, page sizes and times,
`TypeCorrect`, `MissedHasCauseHolds`, `RepeatedHasCauseHolds` and `RevokedRefusedHolds`.  `MissInv`
is about the middle of a walk: an order that has matched throughout and has not been shown
has at least as many matching orders before it as the walk's offset, unless there is
a cause (`RepeatInv` likewise for those shown).  Two lemmas about `Slice` carry the induction:
`BehindSlice` and `OnSlice` say where an order of the page, or behind it, stands in the
whole.  `KeyInv` relates a revocation that covers a token to the key in Redis.

`EventPipelineProofs` proves, for every set of events and workers and every number of
attempts, retries and faults, `TypeCorrect` and `HandledAtMostOnceHolds`, from
`IInv`: an attempt appends at most one entry (`RelayInv`), a worker that is not idle
has an entry (`HandInv`), and an event that is or was handled has its key in Redis
(`KeyInv`), without which a second worker could find the key free.  `EventsKept` is the
safety that `SettledUnlessStruck` rests on: a committed event is with River, in the
stream, in the pending list or with a handler until it is handled, dead or struck; one
that was published is so even if River then gives its job up.  `Accounted` is inductive with `IInv`: a key in
Redis belongs to an event that is being handled, has its outcome or was struck; an entry
that was read leaves the pending list only when its event has a key.

`PlatformProofs` holds the theorems of two libraries, one after the other.  About
`CacheEngine` it proves, for every set of nodes, fetches and writers,
`StaleHasCauseHolds` and `OneComputationHolds`.  They are inductive together with
`CacheShape`, the part of the types their steps need: a place that gets a new entry
either gets a current one or is excused, one that `UpdateData` makes old has that writer
coming, and each step of `Invalidate` removes the entry it stops coming to.

About `Resilience` it proves, for any callers, policies and faults, `ResilienceTypeCorrect`,
`OpensOnFailuresOnlyHolds`, `ReturnsTruthfullyHolds` and `HalfOpenNeverStuck`, from `ResilienceInv`.
`OpensOnFailuresOnly` relates the breaker to failures it has yet to hear of, because
attempts fail before they are recorded: `FailuresCounted` says that below the threshold its
streak and the calls in `Unrecorded` are no more than the failures so far.  `CallSound` says at
each place of a call what its attempts have come to, in either order of the policies.
`HalfOpenNeverStuck` is the safety `Recovers` rests on: every permit of a half open breaker
is there or held by a call `InFlight`, whichever way calls end.

`ShutdownProofs` proves, for any work and any timeouts whose sum is within the budget,
`NothingCutShortHolds` and `WithinBudgetHolds`.  The invariant adds `Order` (what has
been waited for in which phase), `Timely` (each phase ends by the sum of the timeouts so
far) and `Late` (what still runs behind the coordinator is overdue or abandoned); the
last is what makes closed handles and the exit harmless to everything else.

`StartupProofs` proves, for any processes, releases, number of migrations and faults,
`TypeCorrect`, `SchemaIsPrefixHolds`, `ServesFullSchemaHolds` and `RaceHasWinnerHolds`.
`IInv` adds
`Reads` (the version a process has read is committed, so its successor extends the prefix)
and `Winner`.  `RaceHasWinner` alone is not inductive: a process may be about to fail.
`Winner` says that without a fault some process is `Healthy`, that is, will not fail for
anything committed so far; only a commit makes others unhealthy, and the process that
commits is healthy.

Assumptions on the constants are the ASSUMEs of the modules the proofs extend, which TLC
evaluates in their passing runs.  Each step lemma has one case per action.

Only model-checked: liveness (`EveryCallReturns`, `EveryCallEnds`, `SettledUnlessStruck`, `PendingDrains`,
`EventuallyFresh`, `Exits`, `EventuallyServes`, `Recovers`), since the prover
reaches neither fairness nor ENABLED; and that the findings' properties fail.  Every safety
property, action property and refinement of the passing runs is a theorem.  Four have a
hypothesis on a constant that the model can also have otherwise, without which they are
false: `AllOrNothingHolds` and `UnitOfWorkImplemented` (`~NestedTimeouts`), `OrderBookImplemented`
(`RiverConfigured`) and `StoragePurgedHolds` (`StorageConfigured`).

## Not modelled

- The rate limiter: one call of a library, with no caller in the repository.
- Health checks: a flag that is set once, and a library's checks.
- Cryptography: pure functions over library primitives.
- Amounts and quantities of orders.  They are data to every property here; their
  numeric edge is that `orders/repository.go:73` cuts a quantity to 32 bits after
  the total was computed with all of it.
- The HTTP layer, configuration, telemetry, notifications (one library call each), the
  scaffolding tool and test support: no state and no interleaving of their own.
- Parts of modelled components are named in the sections above.
