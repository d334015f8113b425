# Conduit in TLA+

A model of Conduit: what its server, workers, scheduler, locks and API do to the tables in
Postgres, to each other and to themselves, checked with TLC on small instances. Every safety
and step property that TLC checks is also proved with TLAPS, for every instance; liveness is
model-checked only.

## 1. The system

Conduit keeps jobs in one Postgres table, which is the source of truth. Everything else only
proposes work:

| Part | State | Operations that change it | Hard behaviours |
|---|---|---|---|
| Job store (`internal/store/store.go`) | a row per job: state, attempt, scheduled_at, lease, token, completed_at | create, claim, renew, complete, fail, release, cancel, requeue, reap, delete | each statement is atomic, a caller's sequence of them is not |
| Job service (`internal/service`) | none | Enqueue, Cancel, Claim, Heartbeat, Complete, Fail | Fail reads, decides, then writes; Enqueue looks up, inserts, looks up again |
| Reconciler (`internal/reconciler`) | a one-slot wake channel, its interval | reap, claim for the pool, sweep retention | a wake during a pass; stopping while it waits for the pool |
| Job worker and pool (`cmd/server`, `internal/worker`) | queue, semaphore, claims in memory | submit, run, renew, record, stop | stalls, crashes, lost leases, shutdown |
| Worker API (`internal/api/worker.go`) | long polls | claim, heartbeat, complete, fail | lost answers, repeated calls, silent workers |
| Client API (`internal/api/handler.go`) | none | enqueue, cancel, requeue, list | two clients with one idempotency key; pages read while rows come and go |
| API keys (`internal/api/auth.go`, `internal/store/keys.go`) | a row per key | issue, revoke, admit | a key revoked between the middleware's two questions |
| Postgres transport (`internal/queue/postgres.go`, `waker.go`) | a listening session, a broadcast channel | notify, wake | lost notifications, a wake between a check and a wait |
| Kafka transport (`internal/queue/kafka.go`) | the topic | publish, handle | late, repeated, lost messages that carry an old copy of the row |
| Scheduler and cron (`internal/scheduler`, `internal/store/schedules.go`) | a row per schedule | create, delete, fire, advance | replicas that fire the same instant, crashes between enqueue and advance, calendar edges |
| Circuit breaker (`internal/circuitbreaker`) | state and two counters per task | Allow, RecordSuccess, RecordFailure | reports that come late or never |
| Executors and retry (`internal/webhook`, `internal/etl`, `internal/retry`) | none | run a job, classify its failure, compute a delay | failures that pass taken for final ones, caps and jitter |
| Advisory lock (`internal/lock/postgres.go`) | a session and the set `held` | Acquire, Release, discard | timeouts whose effect is unknown, a session shared by all jobs |
| Redlock (`internal/lock/redlock.go`) | a key per Redis node | Acquire, Release | partial wins, answers lost and calls that arrive late, drift, restarted nodes |
| Migrations (`internal/store/migrate.go`) | a row per applied file | migrate | two releases at a time, a session lost between two files |
| Start-up and shutdown (`cmd/server/main.go`, `internal/config`) | the parts that are running | bootstrap, run, stop | early returns, stops that time out, the order in which parts end, what is left behind |

How they meet: Enqueue stores a PENDING row and notifies. The reconciler or a long poll claims
the row (RUNNING, a fresh lease token, attempt + 1). A pool slot asks the breaker and the lock,
runs the handler, renews the lease, and reports with the token. A lease that runs out is reaped.
Retention deletes finished rows. The scheduler enqueues through the same service. Under Kafka a
message, not the reconciler, may bring the job to the pool, and Run claims it itself.

## 2. Modules

| Module | Models | Shape |
|---|---|---|
| `JobStore` | the jobs table | for each SQL statement a guard (WHERE) and a function on a row (SET) |
| `JobLifecycle` | the abstract promise: states and attempts seen from outside, and which jobs are chosen for deletion | abstract specification |
| `JobWorkers` | clients, reconciler, pool slots, remote workers, time | extends `JobStore`, refines `JobLifecycle` |
| `KafkaDispatch` | the Kafka transport around `JobWorkers` | extends `JobWorkers`, adds the topic and messages in hand |
| `JobTable` | the table as clients see it: tenant, key, creation time, and retention as the subselect and delete it is | workers appear as the steps of `JobLifecycle` |
| `JobAPI`, `JobList` | calls that change the table; walks over its pages | extend `JobTable` |
| `Auth` | API keys and the middleware | one step per question to the database |
| `Wakeups` | notification, listener, Waker, long polls, the reconciler's loop | one instance |
| `WorkerPool` | pool, its two feeders, shutdown up to the end of `pgPool.Close` | one process |
| `Instance` | `Wakeups` and `WorkerPool` | composition |
| `Scheduler` | schedules table, replicas, fires | all replicas |
| `Cron` | parsing and the search for the next occurrence | the loop of `Next` as a state machine |
| `CronSchedules` | `Cron` and `Scheduler` | composition |
| `CircuitBreaker` | one breaker and the executions sharing it | one process |
| `Webhook`, `Etl` | what a handler makes of a job and of its answer | pure operators |
| `Execution` | jobs of one task, claim after claim: breaker, handler, retry policy and backoff, claims lost and reaped | extends the three above |
| `AdvisoryLock`, `Redlock` | the two lock managers | several processes and the server or the nodes |
| `JobLocks` | the lock manager `CONDUIT_LOCK` selects | composition |
| `Migrate` | pods that migrate one database | one step per statement |
| `Config` | the settings that decide what runs: parsing, defaults, validation | pure operators |
| `Server` | `Migrate`, `Config` and the life of an instance | composition |
| `...Proofs` | theorems (section 6) | extend the modules they are about |
| `MC...` | values of the constants | for TLC only; `MCJobAPI` composes `Auth`, `JobAPI` and `JobList` |

Definitions keep the source's names; `PROJECT.json` maps each to its lines. A definition
introduced by a comment "Mutant:" is a deliberately wrong version of the one that follows. No
specification uses it; it is substituted to see that a property notices.

### How state and actions correspond to the code

*Time.* `JobStore` keeps of a timestamp only what statements compare with `NOW()`:
`scheduled_at` is due or future, a lease is live or expired, `completed_at` recent or old. Time
steps happen at any moment, which covers every lease length, backoff, retention age and clock
skew. `Redlock` counts ticks down instead: a key has the ticks it has left by its node's clock,
a caller the ticks of validity.

*Statements and handlers.* One SQL statement is one step. A handler that runs several is several
steps (`FailRead` and `FailWrite`; `CheckTransition` and `ClaimFetched`; `Lookup`, `CreateJob`,
`LookupAgain`, `AdvanceSchedule`). A statement on a batch, reaping or retention, is one step per
row in `JobWorkers`, which allows more interleavings than the code. `DeleteFinished` is the
exception to "one statement, one step": under READ COMMITTED its subselect and its delete see
different moments. It is two steps everywhere, with the rows picked in between (`sweep`) and a
third step for a statement that fails. `JobLifecycle` has the same two: `Choose` takes finished
jobs only, `Prune` deletes what was chosen, whatever it has become. That is as much as the code
promises (finding 9).

*Claiming.* `ClaimNextJob` orders by priority and age, but skips rows another transaction has
locked, so any due row may be the answer; the model lets it be. The same freedom covers the
queue, tenant and name filters.

*Tokens.* `newLeaseToken` and Redlock's `generateToken` draw 128 random bits. The model draws
any token that no row and no worker refers to. One nobody refers to behaves as one never used,
so TLC needs only one token more than jobs and workers can hold at once.

*Crashes.* `Crash` forgets a worker's claim at any step and leaves the row alone. It also stands
for a remote worker that disappears and for a pool that is shut down.

*Contexts.* In `WorkerPool` no statement succeeds on a cancelled context, which is how pgx
behaves; signal, reconciler and pool contexts are the ones `run` passes. A Run that returns
settles its job, gives it back, or leaves it RUNNING: because its statement failed and was only
logged, because the handler panicked and the pool recovered, or because `scheduled_at` is too far
ahead. `pgPool.Close`, the last deferred call, waits for every connection that is out.

*What is left behind.* `run` does not wait for everything it starts. In `Server` the Kafka
consumer, Enqueue's publishing goroutines, and the jobs and requests of a stop that timed out or
of an early return go on while the deferred calls run (`Straggles`), until they finish or the
process ends.

*Compositions.* `JobLocks`, `Instance`, `CronSchedules` and `MCJobAPI` put side by side parts
that share no state, or of which each allows for anything the other may do. A variable
(`cfgLock`, `facet`), chosen initially, says which of them moves; each header says why nothing
is lost. `Server`, `Execution`, `KafkaDispatch` and `JobAPI` are compositions in which the parts
do interact.

*Cron.* The calendar is real, with leap years, but a day has two hours of two minutes so that
four years remain a small search; the theorems have days of any length. In `Scheduler` an
expression is a period in minutes and the search horizon a constant.

*Data.* Webhook URLs, answers and ETL specifications are records of the facts the handlers
decide by. What the SQL lexer makes of an extract is its verdict.

## 3. Runs

"Pass" runs finish without error; "violation" runs exhibit a disagreement between the code and
what a document, comment or test says (section 5).

| Run | Question | Distinct states |
|---|---|---|
| `jobs_safety` | Do workers that stall, crash, lose leases and report late, on two jobs with budgets one and two, ever share, overspend or overwrite a claim, and do all statements together implement `JobLifecycle`? | 531,358 |
| `jobs_liveness` | Are abandoned claims recovered, and do jobs settle? | 26,335 |
| `kafka_claims` | With two slots and a remote worker, do messages delivered up to twice, at any time, upset the claim? | 264,560 |
| `kafka_replay` | Does a replayed message respect the attempt budget? | violation |
| `instance_claims` | Is a notification ever slept through, does losing all of them lose a job while the pool has room, is a claim ever mislaid on its way to a slot, is a drain complete, does shutdown end? | 358,884 |
| `pool_drain` | Is a job that finishes after the signal recorded? | violation |
| `cron_schedules` | One job per fire, none lost, no schedule moved back, every due schedule fired? Does the search skip only instants that do not match, and return? | 376,435 |
| `execution_outcomes` | Does a refusal cost an attempt, is a job given up only for what it deserves, do retries back off, are the breaker's transitions earned, and does it close again? | 239,278 |
| `breaker_wedge` | The same closing with the thresholds `cmd/server` configures | violation |
| `job_locks` | Advisory lock: do `held` and the server agree, are neighbours' locks kept, do instances exclude each other? Redlock: is Expiry honest, do two valid locks exclude each other? | 3,851,155 |
| `server_startup` | Two releases roll over one another while sessions, processes, start-ups and stops fail: are files applied once and in order, is what uses a part ended before it, does a pod serve an unmigrated schema or without the lock it asked for, does it serve in the end? | 124,684 |
| `client_view` | Does what concurrent clients are told stay true: who is admitted, which job a key names, which job is gone, what a walk over the pages contains? | 1,078,814 |

Eight more configurations are kept for the record of the findings in section 5. Each makes TLC
violate every property it names (`tlc -continue` shows all of them); none belongs to the regular
runs:

| Configuration | Module | Property |
|---|---|---|
| `Kafka_backoff.cfg` | `MCKafkaDispatch` | `BackoffHonored` |
| `WorkerPool_docs.cfg` | `WorkerPool` | `NoSendOnClosed`, `RejectedGoBack` |
| `Cron_leapday.cfg` | `MCCronSchedules` | `FourYearsSearched`, `DueSchedulesFire` |
| `Scheduler_retention.cfg` | `MCCronSchedules` | `ExactlyOneJob` |
| `Execution_docs.cfg` | `Execution` | `OneProbe`, `OutagesAreRetried` |
| `AdvisoryLock_rerun.cfg` | `MCJobLocks` | `LiveLocksExclude` |
| `Redlock_docs.cfg` | `Redlock` | `CrashedNodeExcludes`, `HoldersExclude` |
| `JobAPI_retention.cfg` | `MCJobAPI` | `DeletesOnlyFinished` |

### Bounds

- *Jobs and workers* (`JobWorkers`). Statements touch one row; two jobs show that one does not
  disturb the other. Budgets one and two put the first, the last and an intermediate attempt
  within reach. A slot and a remote worker give an owner and a worker that has lost the claim.
  `kafka_claims` has a third, about to take it, on one job. The theorems have any number of
  both.
- `MaxDeliveries` = 2: a message and one repetition.
- `Instance`: `QueueSize` = `Concurrency` = `BatchSize` = 1 reach every limit with few jobs;
  with three claims and a message all places are full and the reconciler still has one in hand.
  `MaxReturns` = 1: a job becomes available again once, which keeps jobs that return for ever
  from starving another; the code's order by age does that.
- `CronSchedules`: schedules of period two, three and four become due together and again before
  the `Horizon`; one crash or failed statement falls anywhere; the fire budget (two) is smaller
  than the number of schedules. `Starts` and `Expressions`: ends of months and years, both kinds
  of February, 2100, fields that interact, fields the parser refuses.
- `Execution`: two executions share a breaker with thresholds of two, so that each counter has a
  value before its last. A base of 1 s, a maximum of 3.5 s and a multiplier of 2 give delays below
  and at the cap; jitter takes them to both sides. `Unlucky` is one of the two callers: only its
  claims are lost. With both (1,516,483 states, ten minutes) the properties hold as well.
- `JobLocks`: three faults and six sessions are enough for a discard, a death and another
  discard, with a session to spare. Redlock has three nodes, the smallest majority that survives
  a loss, a TTL of three ticks of which drift takes one, and
  `MaxMishaps` = 1: one restart or one call that arrives late. `SlowNodes` is the first node. With
  calls late on any node (8,781,667 states, eight minutes) the properties hold as well.
- `Server`: two pods, of which the newer has one file more; two faults, which fall on sessions,
  processes, start-ups and stops. The environments cover both transports, all locks, an init
  container or none, values that Validate refuses, and values nothing checks that stop the server
  at each of the points where it can.
- `MCJobAPI`: two clients with one idempotency key and two tenants; three jobs of which two are
  created at one time, so that a cursor has to break a tie, and one may be retried; limits that
  are refused or defaulted, full and not full.

Symmetry is used for tokens, slots, Redlock's callers, tenants and API callers, only in runs
without liveness. Deadlock is checked except where the system may stop: all jobs deleted
(`JobWorkers`, `KafkaDispatch`), and the process ended (`WorkerPool` by itself).

### Fairness

- `JobWorkers`: time passes, so a lease nobody renews expires; some reconciler's timer keeps
  reaping and claiming; a goroutine in Run takes its next step; handlers return. Clients and
  remote workers owe nothing. The property excludes a breaker or lock that refuses for ever.
- `Instance`: goroutines, the reconciler's timer and the shutdown timer step, and the
  reconciler's claims do not fail for ever (strong fairness, because a failing claim ends the
  pass). Handlers, listener, Kafka and clients owe nothing; so the queue may stay full, and
  `SubmitBlocking` is owed no room. `pgPool.Close` returns when no job runs, or when the signal
  has cancelled the statements of those that do; otherwise a job may keep a connection for ever.
- `CronSchedules`: each replica's ticker fires and its goroutine goes on. That the loop of
  `Next` ends needs no fairness here: `SkipsOnlyMisses` says each round ends it or moves the
  candidate on towards the limit.
- `Execution`: the clock runs, jobs of the task keep coming, leases expire and are reaped,
  handlers return, a job that the breaker would admit again and again gets as far as that, and
  one that is admitted again and again is not kept from succeeding for ever. The last two (strong
  fairness) exclude that every claim is lost.
- `Server`: a pod's start-up and its run take their next step; a pod that waits for the
  migration lock gets it if it is free again and again, which Postgres' queue of waiters
  ensures. A Close that has been called gives out no connection any more, so it returns when
  those that are out come back (strong fairness, because what is left behind comes and goes).
  Signals and faults are not owed, nor is the end of what `run` leaves behind.

## 4. What the properties say

- *Claims.* `OneOwner`, `ZombiesAreFenced`: the lease token is enough. However late a worker is,
  it changes nothing once it has lost the row. `AbandonedClaimsRecovered`, `EveryJobSettles`.
- *Budget.* `ExecutionBudget` is about handlers started, not about the column. The claim never
  looks at the budget; that Fail, the reaper and the release agree keeps it.
- *Lifecycle.* `ImplementsLifecycle`: seen from outside a job only moves as `JobLifecycle`
  allows, and its row goes only if a sweep chose it while it was finished.
- *Kafka.* `ClaimDecides`: what holds of claims holds with messages. `MessagesDoNotSteal`.
- *Dispatch.* `NobodySleepsThrough`: neither a long poll nor the reconciler waits on a channel
  that a notification it has not seen will never write to. `EveryPendingClaimed` holds with
  every notification lost; only a queue that stays full for good keeps a job waiting.
- *Shutdown.* `NoClaimMislaid`: a claim is in one place, and only the Run that executes it gives
  it up while the instance serves. `DrainIsComplete`. `ShutdownEnds`: whatever handlers do, save
  that `pgPool.Close` may wait for a job nobody cancelled or for a lock session opened late.
- *Schedules.* `ExactlyOneJob`, `NoLostFire`, `AdvancesOnlyForward`, `DueSchedulesFire`.
  `SkipsOnlyMisses` compares each jump of the cron search with the definition of a match, minute
  by minute; `FieldsInBounds` is about what the parser lets through.
- *Execution.* `RefusalsAreFree`: however often breaker and lock turn a job away, its attempts
  are its executions and the claims that were lost. `DeadDeserved`: a job
  that can never succeed is given up at once, one that could only for what the endpoint or
  resolver answered or after its last attempt. `BackoffGrows`: each delay exceeds the one before
  until the cap, and jitter keeps it between the base and the cap. `TransitionsEarned`,
  `Recovers`: the breaker opens and closes on consecutive outcomes, and closes in the end.
- *Locks.* `LocksTracked`, `InstancesExclude`, `NeighboursKept`; `ExpiryHonest`,
  `RedlockExcludes`. `InstancesExclude` is about processes that have not executed one job twice
  at a time, `RedlockExcludes` about locks whose Expiry has not come and for which a quorum of
  nodes has neither restarted nor been reached by a late undo; findings 7 and 8 are what happens
  otherwise. `NeighboursKept` is about a session that lives: one that breaks takes every lock on
  it along.
- *Server.* `AppliedAsRecorded`: files are applied once, in order, with their records.
  `UsersStopFirst`: what uses a part is ended before it, wherever `run` returns, and only what
  `run` leaves behind may meet a closed part. `ServesMigrated`. `ServesInTheEnd`: a pod whose
  settings can work serves again and again, or hangs in `pgPool.Close`.
- *Clients.* `AdmittedRightly`: keys issued and revoked between the middleware's two questions
  open no other way in. `AnswersAgree`: one idempotency key names one job as long as it exists.
  `LostOnlyToRetention`: Enqueue misses the duplicate it was told of only if retention took it
  in between. `AbsentIsFinal`: a 404 stays true. `PagesComplete`: a walk shows every job that
  matched throughout, none twice and none of another tenant. `CompletedSweepIsSafe`: retention
  of COMPLETED jobs deletes no live work, although its delete does not look at the state again;
  retention of DEAD jobs does (finding 9).

## 5. Findings

Those with a run are quoted line by line in `PROJECT.json`; the others are shown by the
configuration named.

1. *Kafka.* A message handled after a failed attempt resets the attempt counter, because Run
   claims from the message's copy (`cmd/server/main.go:615`, run `kafka_replay`);
   `internal/queue/kafka.go:51` calls a replay harmless. It ignores the row's backoff too
   (`Kafka_backoff.cfg`), against the comment at `cmd/server/main.go:567`.
2. *Shutdown.* Work that finishes after SIGTERM is not recorded, because it is written with the
   cancelled context (`cmd/server/main.go:656`, run `pool_drain`). A claim the pool rejects is
   not released, for the same reason (`internal/reconciler/reconciler.go:203`, `RejectedGoBack`
   in `WorkerPool_docs.cfg`). The reaper recovers both, at the cost of an attempt, and of a
   second execution in the first case.
3. *Pool.* The Kafka consumer is not stopped before Stop closes the channel it sends on
   (`internal/worker/pool.go:75`, `NoSendOnClosed` in `WorkerPool_docs.cfg`); the comment at
   `pool.go:69` promises an answer.
4. *Schedules.* A due schedule for which cron finds no following occurrence is not advanced and
   never fires (`internal/scheduler/scheduler.go:161`). Cron's limit of 4 * 365 days, a day
   short of the four years its comment (`scheduler.go:320`) names, makes `0 0 29 2 *` such a
   schedule. `Cron_leapday.cfg` shows both.
5. *Retention and schedules.* A fire repeated after retention deleted its job makes a second job
   (`scheduler.go:179`, `Scheduler_retention.cfg`), where `docs/SCHEDULES.md:116` promises one.
   It takes a retention age shorter than the repeating replica's delay.
6. *Breaker.* With the configured thresholds one success ends admission before the second that
   would close the breaker, and it stays half-open for ever
   (`internal/circuitbreaker/circuitbreaker.go:64`, run `breaker_wedge`). It also admits several
   probes at once (`OneProbe` in `Execution_docs.cfg`), where `docs/ARCHITECTURE.md:250` says
   one.
7. *Advisory lock.* `held` is keyed by resource only, so a late Release of one execution unlocks
   the lock a second execution of the same job in the same process has taken anew
   (`internal/lock/postgres.go:103`, `AdvisoryLock_rerun.cfg`). The lease token still protects
   the row.
8. *Redlock.* `docs/FEATURES.md:274` says that others cannot reach a quorum when a node crashes.
   A node that comes back without its keys gives them one (`CrashedNodeExcludes` in
   `Redlock_docs.cfg`). Nothing renews the keys, so a job longer than the TTL runs beside
   another execution (`HoldersExclude`), against the comment at `cmd/server/main.go:593`. Here
   too the lease token protects the row.
9. *Retention and requeue.* `DeleteFinished` chooses rows in a subselect and its delete does not
   look at their state again, so a DEAD job that a client requeues in between is deleted with
   its new run ahead of it (`internal/store/store.go:447`, `JobAPI_retention.cfg`).
10. *Webhook.* `internal/retry/backoff.go:9` keeps ErrNoRetry for permanent failures ("bad
    input, missing record, etc"). A resolver that fails for a moment is one of them in the
    webhook executor, so the job is dead at its first attempt (`OutagesAreRetried` in
    `Execution_docs.cfg`).

Met while modelling, without a configuration: `docs/decisions/0005` line 25 says a 4xx is not
retried, the code retries 408 and 429; `MaxRedirects` = N follows N − 1 redirects; the first
retry waits twice `BaseDelay`, because the exponent starts at the attempt just made; a log level,
DSN, pool size, broker list, `CONDUIT_TRUSTED_PROXIES` or address that cannot work passes Validate
and ends the server at each start. A Redlock retry keeps the token of the attempt before it, so an
undo of that attempt that arrives late deletes the retry's key. "Callers should stop the worker
pool first" (`internal/lock/postgres.go:123`), but after a drain that timed out jobs still run:
one that takes its lock after `advisory.Close` opens a session again, which nobody closes, and
`pgPool.Close` then waits for it. It also waits for a job that holds a connection after a server
error, since nothing cancels that job. The models do what the code does.

## 6. Theorems

All are for every value of the constants that the named assumptions allow: any number of jobs,
workers, nodes, files and faults. An assumption says what the code or its environment ensures
(a budget of at least one, a batch of at least one, NULL is not a token, sets that are counted
are finite), and TLC evaluates it in the runs. Between them the theorems state every invariant
and every action property of the runs.

Each proof has the same plan: an inductive invariant, one lemma for the initial states, one per
action, a lemma that joins them, and a theorem per property. What follows is why each invariant
is stronger than the property it is for.

### `JobWorkersProofs`

From `StoreAssumption` (every job has a budget of at least one, NULL is not a token) and
`WorkersAssumption` (pool slots are not remote workers, both are finite sets, there is a null
job):

- `Invariance`: `IInv`, the conjunction of the types, `LeaseColumns`, `AttemptBudget`,
  `FailDecisionCurrent` and three facts about memory: FAILED is never written (`FailedUnused`),
  a busy worker's claim names a job and a token (`ClaimsNamed`), and no two workers hold one
  token (`TokensDistinct`).
- `OneOwnerHolds`, `AttemptBudgetHolds`, `LeaseColumnsHold`, `FailDecisionHolds`, `TypeCorrect`
  follow from it.
- `ZombiesFenced`: each step of a worker that has lost its claim leaves the row.
- `Refinement` (`ImplementsLifecycle`): initial states map to initial states, every step to a step
  of `JobLifecycle` or a stutter. Only sweeps change the set of picked rows (`OnlySweepsSweep`);
  picking is `Choose`, deleting and failing are `Prune` (`SweepStep`).
- `ExecutionBudgetHolds`: a handler starts no more often than the budget allows.

`FailDecisionCurrent` is not inductive alone. It survives because a step that keeps a row's
token keeps its attempt, and because a claim draws a token no worker holds, so nobody who has
read the row before owns it afterwards. `AttemptBudget` needs `FailDecisionCurrent` for the
retry that Fail writes, and its own third part, a RUNNING row has an attempt, for the one a
release gives back. `OneOwner` is not inductive; it follows from `TokensDistinct`, which rests
on the freshness of tokens. All actions but the claim rewrite at most one row, and one lemma
(`Step`, to a `GoodRow`) carries the conjuncts for these; the claim has a step per conjunct.

The execution budget is about handlers that started; a claim may be lost while it waits in the
queue and its handler may start all the same. `BInv` adds to `IInv` that an attempt pays for
each: handlers started plus claims waiting to start do not exceed what was charged to the row
(`StartsCharged`), that a claim made before the last requeue owns nothing (`EarlierLost`), and
that a job not yet enqueued has been charged nothing (`NewUncharged`). A refusal gives its
attempt back and stops waiting in one step; this is where `OneOwner` is needed, for otherwise an
attempt could be given back twice. Waiting claims are counted, hence the finite sets of workers.

### `KafkaProofs`

`KafkaInvariance`, `ClaimDecidesHolds`, `MessagesSpareClaims`. `KInv` is `IInv` and that a
message in hand names a job. A message's claim writes attempt 1, whatever the row said: that
preserves `IInv`, and is why `ExecutionBudget` does not follow under Kafka (finding 1).

How far finding 1 reaches is proved as well:

- `KafkaAlmostLifecycle`: every step under Kafka is a step of `JobLifecycle` or a message's claim
  that sets the attempt counter to 1. Whatever the lifecycle promises and does not count
  attempts for, it promises under Kafka too.
- `OnlyMessagesComeEarly`: a claim is made before its row is due only by a message. Without Kafka
  none is (`PostgresHonorsBackoff`).

### `InstanceProofs`

From `InstanceAssumption` and `PoolAssumption`: `ClaimsAreKept` (`NoClaimMislaid`),
`DrainsAreComplete`, `WakeupsAreSeen` (`NobodySleepsThrough`), `ReconcilerNeverPanics`.
`InstanceImplements`: the instance implements `WorkerPool` and `Wakeups`, so what is proved of
either holds of it.

`PoolInv` follows a claim through the process: as long as its row is RUNNING it is in one place
(the reconciler's hand, the queue, the dispatch goroutine's hand, a slot), and in no place twice
(`Tracked`). A drain is complete because the dispatch goroutine leaves a live context only when
the channel is closed and empty (`StopsInOrder`), and because what is left RUNNING was rejected or
given up by its Run, not just accepted (`LeftOnlyRejected`). `NobodySleepsThrough` is about those
who sleep; `LookedIsTold` says the same from the moment they found nothing, because what is
notified between the look and the wait has to reach them too.

### `SchedulerProofs`

From `SchedulerAssumption` and `CronAssumption` (days and hours are not empty, a field has at
least one part, as strings.Split ensures, and Next is called with real dates):

- `SchedInvariance`, `OneJobPerFire`, `NoFireIsLost`. `SInv` says that keys and jobs agree, that
  an instant a schedule has passed has its key, and that a replica about to advance a schedule
  past an instant has seen the key for it, whoever made it. The specification proved about has
  no retention (finding 5).
- `RetentionLosesNoFire` (`NoLostFire`) and `RetentionMovesForward` (`AdvancesOnlyForward`) are
  about `RetentionSpec`, in which retention deletes keys at any moment. `SInv` does not survive
  that; `FiredInv` says the same of the instants a job was ever made for, and those only grow. Of
  the promises about fires, finding 5 costs the upper bound alone.
- `SchedulesMoveForward` (`AdvancesOnlyForward`). The conditional UPDATE matches only the instant
  it was computed from; that the new one is later than it and than the clock is what the loop of
  nextAfter has to return. Its recursion is unfolded by a descent on what is left of the horizon
  (`LoopComputes`, `LoopReturns`), to a closed form (`NextAfterIs`): the first occurrence after
  the clock.
- `FieldsAreInBounds`, `NextIsEarliest` (`SkipsOnlyMisses`), `SearchInvariance`. For each kind of
  jump the fields it decides by stay as they are for all the minutes it passes over: `LaterInMonth`,
  `LaterInDay`, `LaterInHour`, by division with remainder. The invariant is that the candidate is a
  real date, which a jump to the first of a month, or over the end of a day, has to keep.
- `SchedulesImplement`: the composition implements `Scheduler`.

### `ExecutionProofs`

From `BreakerAssumption`, `ExecutionAssumption` and `WebhookAssumption`, for any integers as
thresholds, delays, multiplier and jitter:

- `BreakerInvariance` (`TypeOK` and `CountsConsecutive`) and `TransitionsEarnedHolds` for the
  breaker alone, `TransitionsStayEarned` for the executions that share it.
- `WedgedForEver` and `EnoughProbesNeverWedge` are the two sides of finding 6. A half-open breaker
  that admits no more, with no request under way that could report, stays so for ever; it never
  gets there when `HalfOpenRequests` is at least `SuccessThreshold` (`cmd/server` has 1 and 2).
- `ExecInvariance`, `AttemptsAccountedFor` (`RefusalsAreFree`), `DeathIsDeserved`
  (`DeadDeserved`). `JobOK` adds to both that a PENDING job has an attempt left, that only a
  RUNNING job has a claim somebody holds, and which attempt the last delay is of. The lemmas under
  it go through the executors' decisions: a webhook that is sound fails for good only by what the
  endpoint or the resolver answered, an ETL specification fails for good exactly when it is
  unsound.
- `RetriesBackOff` (`BackoffGrows`). The loop of Delay repeats one assignment; that iteration
  exists and is unique by induction (`IteratesExist`), grows until it meets the cap
  (`GrownGrows`), and jitter adds less than the step to the next delay or the cap cuts it off
  (`DelaysGrow`). It is less because rand.Float64 stays below 1.

### `JobLocksProofs`

From `LockAssumption`, for the advisory lock: `LockInvariance`, `LocksAreTracked`,
`InstanceExclusion`, `NeighboursAreKept`. `LInv` is `LocksTracked` with what makes it inductive:
sessions belong to one process, dead ones hold nothing, the server grants a lock to one session,
an execution runs under its process's own session, and the history of double executions is
complete.

From `RedlockAssumption` (drift is less than the TTL), for Redlock: `RedInvariance`,
`ExpiryIsHonest`, `RedlockExclusion`, `ReleaseIsSparing`. The heart of `RedInv` is `Covered`: a
node that is counted, has not restarted and was not reached by a late undo has the caller's key
for at least as long as the caller believes in. Exclusion then is the intersection of two
majorities, for the default quorum; a smaller one can be configured and excludes nothing.

`DeploymentImplementsLocks` and `DeploymentExcludes`: a deployment, which has one of the two,
behaves as both are specified.

### `ServerProofs`

From `MigrateAssumption`:

- `MigInvariance`, `ReadIsCurrent`, `AppliedIsRecorded`, `MigratedUpToDate` for migrations alone.
  The list of applied files is read once and used for the whole loop; that it stays current
  (`ReadStaysCurrent`) rests on the session lock (`Serialised`), and that files are applied in
  order on releases that extend one another.
- `ServerInvariance`, `RolloutRecordsApplied` (`AppliedAsRecorded`), `UsedPartsEndLast`
  (`UsersStopFirst`) and `ServersAreMigrated` (`ServesMigrated`) for servers that start, fail,
  serve and end around them. run can return from any stage, so `UsersStopFirst` is about what it
  has deferred by then. `EndsInOrder` says so: of two parts in the list of ends still to run, the
  user comes before the used. `ToBeEnded` says that all but what `run` may leave behind is in that
  list, `HasAll` that until `run` returns nothing is missing. A defer puts a part nobody uses yet
  in front, an end takes the first away (`PushInOrder`, `CloseInOrder`), and the orderly shutdown
  goes before the deferred ends (`ServeInOrder`). `Checked` keeps what bootstrap and run have
  verified on the way, which later migrations cannot undo.

### `APIProofs`

From `AuthAssumption`, `TableAssumption` and `ListAssumption`, for the three parts `client_view`
composes:

- `AdmissionIsRight` (`AdmittedRightly`). Between the middleware's two questions keys come and
  go; `HistoryTrue` ties what has happened since a request came to the table.
- `EnqueueIsIdempotent` (`AnswersAgree`), `DuplicateIsFound` (`LostOnlyToRetention`),
  `NotFoundIsFinal` (`AbsentIsFinal`), `CompletedSweepDeletesNoWork` (`CompletedSweepIsSafe`).
  `CallInv` has the unique index (`UniqueKeys`), what each handler knows between two statements
  (`Told`) and that what a sweep of COMPLETED jobs has picked stays COMPLETED or goes
  (`PickedFinished`). No such thing holds of DEAD jobs (finding 9).
- `WalksAreComplete` (`PagesComplete`). `CursorDivides`: what a walk has returned and what it has
  yet to return lie on either side of its cursor, in the order (created_at, id) that breaks every
  tie. A page of the first rows past the cursor moves it over the page and nothing else.
- `ClientsImplementCalls` and `WalksStandCalls`: for clients that call and walk at a time over one
  table (`ClientsSpec`), what is proved of the calls holds, and the walks are complete. The run
  checks each while the other stands still; that this loses nothing is what these two show.
- `CallsKeepLifecycle`: calls, workers and sweeps take every job through `JobLifecycle`, the
  specification `JobWorkers` refines, so both tables keep one promise.

## 7. Only model-checked

Liveness is outside the prover, as is everything with ENABLED: `AbandonedClaimsRecovered`,
`EveryJobSettles`, `EveryPendingClaimed`, `ShutdownEnds`, `DueSchedulesFire`, `Recovers` and
`ServesInTheEnd` are checked by TLC on the instances above. So are the violations of section 5.

## 8. Not modelled

- Kafka's offsets and rebalances: their effect, late and repeated delivery, is modelled; the
  protocol is the library's.
- The lexer that inspects an extract's SQL works on characters; `Etl` has its verdict. Request
  bodies, headers and the rows an ETL job moves are data nothing here decides by.
- Settings with a plain value are constants of the modules that use them; of the checks on the
  others `Config` has one verdict.
- Metrics, logging, tracing, request decoration and the readiness probe: nothing they do changes
  state that another part reads.
- `CountByState`, `ListKeys` and reads by id: no state.
- A breaker is in memory: a process that dies loses its counters. `Execution` loses the claim and
  keeps the counters, because the jobs of the task are shared by breakers of several processes,
  of which it has one.
