# Verification of the distributed job scheduler

This directory holds TLA+ models of the scheduler in `src/`, the TLC
configurations that check them on small instances, and TLAPS proofs of the
theorems that hold for every size of the system.

    tlasany M.tla                          parse a module
    tlc -workers 4 -config X.cfg M         check the run X (M is named in section 3)
    tlapm MProofs.tla                      check the proofs of a module

`PROJECT.json` is the index: components, runs, the source lines behind every
definition, mutants, findings, hazards and theorems.

## 1. The system

Users create jobs in queues through an HTTP API. Worker processes poll
PostgreSQL, claim jobs, execute them and write down how they ended. One of the
worker processes, elected through a key in Redis, also turns cron templates into
jobs and takes back the jobs of workers that stopped sending heartbeats.
Processes never talk to each other: **every interaction goes through rows of
PostgreSQL and one Redis key**, so what matters is which statements lock which
rows, which statements check what they overwrite, and what a process remembers
across an `await`.

### 1.1 Inventory

| Component | Source | State it keeps | Operations | What makes it correct |
|---|---|---|---|---|
| Worker: poll, claim, execute | `apps/worker/src/worker/worker.service.ts` | `jobs`, `queues.current_running`, `job_executions`, `dead_letter_queue`; in memory `currentLoad`, `isPolling` | `poll` (every 5 s), `processQueue`, `executeJob`, `handleJobFailure` | one executor per job; limits respected; no slot leaked; retries within the budget; every job settles |
| Worker: registration, heartbeat | same, `main.ts` | `workers` | `onModuleInit`, `startHeartbeat` | a live worker is not taken for dead |
| Worker: graceful shutdown | same | in memory | `onModuleDestroy` | no job left behind |
| Orphan detection | `apps/worker/src/scheduler/scheduler.service.ts` | `workers.status`, `jobs`, `queues.current_running`, `job_executions` | `detectOrphans` | what a dead worker held comes back, exactly once |
| Leader election | same | Redis key `scheduler:leader`; in memory `isLeader` | `tryAcquireLeader` (every 10 s), `onModuleDestroy` | a wrong belief ends; two leaders do no harm |
| Cron materialization | same | `scheduled_jobs.next_run_at`, `jobs` | `materializeJobs` (every 15 s) | each occurrence at most once; no schedule stalls |
| Jobs API: cancel, requeue | `apps/api/src/jobs/jobs.service.ts` | `jobs`, `dead_letter_queue` | `POST /jobs/:id/cancel`, `POST /jobs/:id/requeue` | cancelled stays cancelled; status and dead letter queue agree |
| Jobs API: create, batch, schedule | same, its DTOs and pipes | `jobs`, `batches`, `scheduled_jobs` | `createJob`, `createBatch`, `createScheduledJob` | one job per idempotency key; batch and jobs together |
| Batch progress | `worker.service.ts` | `batches` | part of completion and failure | counters equal what happened; the batch ends |
| Rate limit | `worker.service.ts` | `jobs.claimed_at` | part of the claim | at most `rate_limit_per_second` claims in a second |
| Queues API | `apps/api/src/queues` | `queues` | create, update, remove, pause, resume | names unique; nothing left without its queue |
| Projects and tenancy | `apps/api/src/projects` | `projects`, `project_members` | create, update, remove | a project with queues stays |
| Authentication | `apps/api/src/auth` | `users`; stateless tokens | register, login, refresh | a valid refresh token, presented, renews |
| Events gateway | `apps/api/src/events` | rooms per socket | connect, subscribe, unsubscribe, disconnect | a socket follows only its own organization's queues, and knows which |
| Web dashboard | `apps/web/src` | tokens in `localStorage`; `isAuthenticated` of the loaded page | sign in and out, requests through the interceptors | parallel requests renew an expired token; a page of a queue ends when nobody is signed in |
| Metrics | `apps/api/src/metrics` | none | counts | |

### 1.2 What is hard here

* Two workers and a detector act on one job row; some of their writes are
  conditional (`updateMany` with owner and status), others are not
  (`executeJob` sets `running`, the release of a claim, `detectOrphans`,
  `cancelJob`).
* A crash can fall between any two transactions of an execution.
* A heartbeat may be late although its worker lives and goes on executing.
* Two processes may believe to be leader at the same time, with clocks of their own, and
  one process may have two passes under way, because `setInterval` does not wait.
* Each `await` on the database may fail, and `executeJob` reacts in a different
  way depending on how far it had got.
* `current_running` and the counters of a batch are kept by hand, beside the rows they count;
  the latter are read without a lock and compared with a `total_jobs` that jobs which join the batch later do not change.
* API handlers check first and write later, in statements of their own; what saves them
  is a unique index or a foreign key.
* In the browser several requests meet an expired token at once, and the router's
  guard is computed once per page load.

Every place where one of these bites is listed under `hazards` in
`PROJECT.json`, with the properties that watch it or the reason why none does.

## 2. Modules

| Module | What it is |
|---|---|
| `JobLifecycle` | The core: workers, orphan detectors and the API over the tables `jobs`, `queues`, `workers`, `job_executions` and `dead_letter_queue`, transaction by transaction. |
| `JobBoard` | What `JobLifecycle` promises: jobs are waiting, held, done, dead or withdrawn; limits and dependencies are respected; done is for ever. |
| `Settlement` | The transactions of `JobLifecycle` statement by statement, with the row locks they take, and the progress of a batch. |
| `Scheduler` | `SchedulerService`: leader election over a Redis lease and materialization of cron templates. |
| `Schedule` | What `Scheduler` promises: every occurrence is consumed by one step that makes one job. |
| `Submission` | The API that writes projects, queues, jobs, batches and schedules, statement by statement. |
| `Session` | Tokens: the API that issues them, the browser that stores and renews them, the router. |
| `Gateway` | socket.io clients and the rooms of queues. |
| `MCJobLifecycle`, `MCSettlement`, `MCScheduler`, `MCSubmission`, `MCGateway` | Values of the constants for TLC. |
| `JobLifecycleProofs` | Theorems about `JobLifecycle` that hold whatever fails. |
| `JobExclusionProofs` | Theorems about it that hold when no live worker is taken for dead. |
| `JobSlotsProofs` | Theorems about it that hold when, moreover, nobody cancels: exact counters, the lifecycle, dependencies, and that it implements `JobBoard`. |
| `SettlementProofs` | What the locks of `Settlement` protect: the counters of a batch, and that nobody waits in a circle. |
| `SchedulerProofs` | `Scheduler` implements `Schedule`. |
| `SubmissionProofs` | Keys, batches and the tree of projects, queues and jobs. |
| `SessionProofs` | A refresh token that is presented and not too old is honoured, however many requests present it. |
| `GatewayProofs` | Who is in which room, and knows it. |

How they fit together: `JobLifecycle` starts from rows as `Submission` and `Scheduler`
leave them; `Scheduler` takes a whole `detectOrphans` as one step, which is `OrphanList` to
`OrphanCommit` of `JobLifecycle`, and `JobLifecycle` lets any number of
processes detect, which is what `Scheduler` shows may happen; `Settlement`
looks into the transactions that are single actions of `JobLifecycle`. `JobLifecycle` instantiates
`JobBoard` as `Board`, with the state of the board computed from `jobs.status`
(`BoardState`), and `Scheduler` instantiates `Schedule` as `Cron`, with the same variables:
`ImplementsBoard` and `ImplementsSchedule` are the abstract specifications as properties.

### 2.1 State of JobLifecycle

| Variables | Code |
|---|---|
| `status`, `claimedBy`, `attemptCount`, `due` | `jobs.status`, `claimed_by_worker_id`, `attempt_count`, and whether `run_at` has passed |
| `dlq` | rows of `dead_letter_queue` (`job_id` is unique) |
| `currentRunning`, `isPaused` | the columns of `queues` |
| `workerStatus`, `stale` | `workers.status`; whether `last_heartbeat_at` is older than 30 s |
| `proc` | whether the process runs |
| `poll` | the queues a `poll()` under way has still to process (`isPolling` and the local list) |
| `pc`, `runner`, `attempt`, `row` | each call of `executeJob`: where it is, in which process, the `attempt_count` that the claim returned to it, its row of `job_executions` |
| `claims` | numbers the executions of a job; a bound |
| `cancelling` | `POST /jobs/:id/cancel` requests between the check and the write of `cancelJob` |
| `phase`, `suspects`, `target`, `scan`, `scanAttempts` | a pass of `detectOrphans` in each process: where it is, the list it has still to look at, the worker it looks at, and what its `findMany` returned |
| `dbErrors` | a bound |

`currentLoad` is `Load(w)`, the number of executions of the worker that have not
returned: the code increments it when `executeJob` starts and decrements it in
its `finally`. `queue.concurrency_limit`, `max_attempts`, the dependencies and
the worker's capacity are constants.

### 2.2 Actions of JobLifecycle

| Actions | Code |
|---|---|
| `Register`, `Heartbeat`, `HeartbeatLapses`, `Crash` | `onModuleInit`, `startHeartbeat`; late beats; the end of the process |
| `RunAtPasses` | time |
| `PollStart`, `PollBreak` | `poll()`: load check, list of the queues, loop exit when full |
| `ProcessQueue`, `ProcessQueueError` | the transaction of `processQueue` and the start of `executeJob` for each job returned; its rollback |
| `CreateExecution`, `StartJob`, `RunHandler`, `Complete`, `LoseOwnership`, `CloseLost` | `executeJob`, one await after the other |
| `Retry`, `DeadLetter`, `FailureRejected` | the transaction of `handleJobFailure` and the ways it rolls back |
| `Release` | the transaction that gives a claim back when no execution row exists |
| `RunError` | the request an execution awaits fails; `OnError` says where the code goes |
| `OrphanList`, `OrphanCheck`, `OrphanMark`, `OrphanCommit`, `OrphanAbort` | `detectOrphans`: list; unlocked re-read; lock of the worker's row and unlocked `findMany`; writes and commit; rollback |
| `SetPaused`, `CancelCheck`, `CancelWrite`, `Requeue` | the API |

**Atomicity.** An action is a transaction, or an autocommitted statement,
together with the local code up to the next `await`. PostgreSQL runs at READ
COMMITTED, so this is right only where locks make it so:

* *claim*: the first statement is `SELECT ... FOR UPDATE` on the queue's row,
  and every other transaction that changes `current_running` updates that row;
  the `UPDATE ... FOR UPDATE SKIP LOCKED` re-checks the rows it locks.
  `SKIP LOCKED` may pass over rows another statement holds: `ClaimSet` may leave
  out the jobs that are `Contended`. It leaves out no other eligible job as long
  as there is room. Only a queue whose row exists and that has room reaches the
  `UPDATE`; otherwise the claim takes the empty set.
* *completion and failure*: the first statement that matters is a conditional
  `updateMany`, which locks the job's row and decides; the rest follows under
  that lock.
* *release*: writes that look at nothing, so the transaction acts as if it
  happened at its commit.
* *requeueJob*: two requests for one job meet at the delete of the row of the
  dead letter queue, and the second rolls back.
* *detectOrphans* and *cancelJob* read without a lock and write later. They are
  split. A detector that updated the worker's row holds its lock until it
  commits: `RowLocked` blocks the heartbeat and the other detectors meanwhile.

Aborts by PostgreSQL (deadlock), by Prisma (5 s limit of a transaction) and lost
connections before the commit are failed requests: `ProcessQueueError`,
`RunError`, `OrphanAbort`. `MaxDbErrors` bounds their number, and `Fallible` says which of
the three kinds a run lets fail. `Settlement` looks at the deadlocks themselves.

**What is abstracted.** The order of the claim (`priority`, `run_at`) is any
order; the delay of a retry is "not due yet" until `RunAtPasses`; a handler only
succeeds or throws (type `fail`). The queues have no `rate_limit_per_second`
(the column is optional; see section 6) and the jobs no batch, whose counters are in `Settlement`.
`setInterval` does not wait for a `materializeJobs` that is still running, so one
process may have two passes of `detectOrphans` under way; they act on the tables as
two detectors do.

### 2.3 Settlement

One action is one SQL statement. A transaction's writes take effect at its commit;
until then `lock` says which transaction holds which row, and a statement that
needs a row somebody else holds is not enabled: it waits. Plain `SELECT`s (the `batch.findUnique`
of a completion, the `findMany` of `detectOrphans`) neither wait nor lock.

| Variables | Code |
|---|---|
| `status`, `claimedBy`, `attempts`, `currentRunning` | as in `JobLifecycle`; `claimed` and `running` are one status, `queued` and `scheduled` too |
| `completedJobs`, `failedJobs`, `batchStatus` | the row of `batches` |
| `run`, `outcome`, `seen` | where the transaction that ends an attempt is, whether as a success or a failure, and the row of the batch (counters and status) it read and will write back |
| `claiming` | the queue whose row a claim has locked |
| `target`, `todo`, `taken` | a detector's transaction: its worker, the jobs it has still to write, those it has written |

`Jobs` are all rows with the batch's `batch_id`: those `createBatch` made and those that `createJob` added later, in any
queue. `TotalJobs` is `batches.total_jobs`, which only `createBatch` writes, and `Finished` compares with it. The update
of the batch is the last statement before the commit, so its row lock waits for nobody and cannot close a circle; it is one step with the commit.

| Actions | Code |
|---|---|
| `ClaimLock`, `ClaimCommit` | `SELECT ... FOR UPDATE` of the queue; `UPDATE ... SKIP LOCKED` and commit |
| `SettleJob`, `SettleQueue`, `ReadBatch` | the conditional `updateMany`, the release of the slot, the read of the batch, in `executeJob` and `handleJobFailure` alike |
| `CompleteCounted`, `DeadLetterCounted`, `Retry` | the write of the batch and the commit |
| `SettleAborts` | a rollback: after a success the failure path runs, after a failure nothing does |
| `OrphanBegin`, `OrphanMark`, `OrphanJob`, `OrphanQueue`, `OrphanCommit`, `OrphanAborts` | `detectOrphans`: job after job, each followed by its queue |

### 2.4 Scheduler

| Variables | Code |
|---|---|
| `key` | `scheduler:leader` in Redis: its value, or `Nobody` |
| `isLeader`, `election` | the flag of each process; the command its `tryAcquireLeader` awaits |
| `clock`, `proc` | `new Date()` of each process; whether it runs |
| `nextRun`, `created` | `scheduled_jobs.next_run_at`; how many jobs were made for each occurrence (not in the database) |
| `pass`, `now`, `rows` | each `materializeJobs` under way: where it is, the time it read first, the rows it holds locked |
| `stranded` | some dead worker has jobs nobody took back |

| Actions | Code |
|---|---|
| `SetNx`, `Get`, `Expire`, `RedisError` | `tryAcquireLeader`, one command each; an error gives the belief up |
| `KeyExpires` | the 15 s of the lease. A live leader renews it every 10 s, so its lease lapses at most `MaxLapses` times |
| `Start`, `Crash`, `Close`, `WorkerDies`, `Tick` | processes and time; `Close` is `onModuleDestroy`, which deletes the key whoever it belongs to (a `DEL` that fails leaves the key, as `Crash` does) |
| `Begin`, `Select`, `Materialize` (`Commit`, `Reject`), `DbError`, `DetectOrphans` | `materializeJobs`, from the check of the flag to `detectOrphans` |

A template in `BadCron` has an expression that no longer parses (`next_run_at` becomes
9999-12-31); one in `Poison` has a `job_template` that `tx.job.create` refuses. An
occurrence is the value of `next_run_at`; occurrences that pass unnoticed are skipped,
because the next one is computed from `now`.

### 2.5 Submission

Every request is a call of a handler; `pc` is the statement it is about to send, and one
action is one statement or transaction. `Arrive` is the validation in front of the handler
(`CreateJobValidationPipe`, the DTOs), `Check` the `findFirst` of the project or queue the request
names. Then: `CreateProject`, `UpdateProject`, `RemoveProject`; `CheckName`, `CreateQueue`, `UpdateQueue`
(pause and resume too), `RemoveQueue`; `FindKey`, `InsertJob`, `Refetch` (`createJob`);
`InsertBatch`, `InsertJobs` (`createBatch`); `CreateScheduledJob`; `CutShort`, a failed statement or
a process that stops. The unique keys and foreign keys of `schema.prisma` decide what an insert
or a delete does at that moment (`Taken`, `Insertable`, `InUse`, `Restrained`). An idempotency key is absent,
empty, or a name: the code treats the empty one as absent when it looks and as
present when it writes. A project made by the API has a member for ever, so its removal fails; the
projects that were there before (`OldProjects`) can be removed.

A body may name a second row, `ref`: the batch a job is to join (`createJob` writes `dto.batch_id`, a foreign key) or
the retry policy of a queue; `Unknown` is an id no row has. Any batch will do, of whatever queue and however old
(`References`), and joining it does not change its row. Ids are random, so no body names a batch before it is
there (`Nameable`). `UpdateQueue` writes the name the body has, without the check `createQueue` makes: the unique
index alone decides (`Updatable`, `Renamed`). Job rows are told apart by the request that makes them (`id`, `n`), which is not
the batch they belong to.

### 2.6 Session

A token pair is the user it was signed for and the time; it is stored and removed
as a whole. `Issue`, `ValidAccess`, `Refreshable` and `Admits` are the API (`auth.service.ts`,
`jwt.strategy.ts`), the rest the browser: `Load`, `Back`, `Logout`, `Submit` and its three ends are
pages and router, `Send` to `CallLost` a request through the interceptors of `api.ts`. `authed` is
`isAuthenticated`, computed in `Load` only. The paths are `/` (the dashboard), `/queue` (`QueueDetail`) and `/login`;
`Routed` is the guard of the first two, which share a layout, and `Follow` a link between them. `Send` is a request
somebody causes, by opening a page or by a click; `Poll` is the same request when the page of a queue makes it by
itself (`refetchInterval: 5000`); the dashboard has no such interval. Setting `location.href` (`leaving`) lets other
callbacks run until the page is unloaded.

### 2.7 Gateway

`Connect` and `Disconnect` are the hooks of the same name, `Subscribe` is
`handleSubscribeQueue` up to its `await`, `Subscribed` and `SubscribeFails` what comes after,
`Unsubscribe` runs to its end at once. `told` is the last answer a client got to what it
asked of a queue, `'error'` included (that answer names no queue; a client that awaits the answer to each event knows which one it is to), `rooms` where socket.io has it; a socket that is gone has left its rooms, and its `join` does nothing. The handlers take an undecorated
`client` beside `@MessageBody`; what Nest passes for it is the library's, and the model takes the socket, which is what
the body uses it as.

**Definitions named `Slip...`** are no part of the model. Each is the definition
that follows it with a plausible mistake: a dropped guard, a missing `GREATEST`,
an off-by-one, a write outside its transaction. Putting it in the place of the
original makes TLC report the property that `PROJECT.json` pairs with it.

## 3. Runs

### 3.1 Runs that pass

| Run | Module | Environment | Properties |
|---|---|---|---|
| `crashes` | `MCJobLifecycle` | 2 jobs, retries; a worker that may crash at any step and two other workers that both detect orphans; one failed request | `Exclusion`, `SlotsCoverWork`, `OneExecutor`, `SlotsExact`, `AttemptsNumberedOnce`, `LifecycleFollowed` |
| `suspicion` | `MCJobLifecycle` | 1 job, 2 queues; everything at once: cancel, pause, requeue, one crash, one failed request, a live worker taken for dead | `TypeOK`, `DeadLetterHasEntry`, `SlotsWithinLimit`, `CompletedHasRecord`, `LoadWithinCapacity` |
| `settles` | `MCJobLifecycle` | 3 jobs in a queue of limit 1, one depends on another, retries, a worker may crash at any step, one claim or pass of a detector may fail; fairness | `DependencyOrder`, `EventuallySettles`, `OrphansRecovered`, `ImplementsBoard` |
| `scheduling` | `MCScheduler` | 2 processes, 2 templates (one with a bad expression); a lapse of the lease, a failed request, a dead worker, a crash, a close; fairness | `TypeOK`, `AtMostOnce`, `ImplementsSchedule`, `SchedulesAdvance`, `OrphansLookedFor`, `StaleBeliefHeals` |
| `submission` | `MCSubmission` | 4 requests on a project, the queue one of them makes, and its rows; one is cut short | `TypeOK`, `KeyedOnce`, `KeyedAnswered`, `BatchWhole`, `TreeIntact` |
| `batches` | `MCSettlement` | a batch created with 1 job, which another job of the same queue has joined; one of them throws; 2 workers, one may crash; a detector; one transaction is rolled back; fairness | `TypeOK`, `BatchTellsTruth`, `NoDeadlock`, `BatchEnds` |
| `clients` | `Session` | 2 users, 2 requests at once, tokens that expire, one lost request or answer; fairness | `TypeOK`, `RefreshHonoured`, `NobodyWatches` |
| `rooms` | `MCGateway` | 2 sockets, a queue of each of 2 organizations, 3 subscriptions waiting at once | `TypeOK`, `RoomsAuthorized`, `AnswersTrue` |

What they show:

* *Jobs, whatever fails and whoever is suspected* (`suspicion`): the counter of a queue stays between
  zero and its limit, a worker runs no more than its capacity, a dead-lettered job has its row, a
  completed job has a completed execution.
* *Jobs, when no live worker is taken for dead and nobody cancels* (`crashes`): one executor per job, every job in work
  has a slot, and the counter is exact, although two detectors may treat one dead worker at once; every step
  follows the documented lifecycle. For `Exclusion`, `OneExecutor`, `SlotsCoverWork` and `AttemptsNumberedOnce` the
  proofs cover cancellations too.
* *Jobs in the end* (`settles`): dependencies hold and stay, what a dead process held comes back, every
  job is completed or dead-lettered, and the whole implements `JobBoard`. A failed request inside an execution is left
  out here: if it hits the update to `running`, the job stays claimed by a live worker for ever (see
  `hazards`); what it can do to safety is checked in `crashes`.
* *Schedules*: two leaders do no harm, because a row is locked from its selection to
  the commit that moves it on. The election only saves work; what it must give, and does, is
  that some live process goes on materializing and looking for orphans, and that a wrong belief ends.
* *Requests*: the unique index and the refetch make one job out of any number of requests for one key; the jobs `createBatch` was given are
  all there or none is, whatever jobs have joined by `batch_id`; every other race, renaming a queue included, ends in an error answer and never in
  a row without its parent or in two queues of one name.
* *Batches*: the counters are read without a lock, but after the queue's row was locked in the same
  transaction, which orders the transactions of one queue: there every job that ends is counted, joined ones too. The status
  becomes final when as many have ended as the batch was created with, so it can be final before
  all its jobs are, and its counters go on growing. `NoDeadlock` holds although the detector
  locks jobs and queues alternately, because the jobs of a dead worker are locked by nobody else. Both lean on
  their assumptions: with a worker in `Lapsing`, `NoDeadlock` fails and PostgreSQL has to abort a transaction; with
  the jobs of a batch in several queues updates get lost. `BatchTellsTruth` says of that case only that the row never tells of more than
  happened; `BatchEnds` fails in it, because the older status is written back too.
* *Browser*: refresh tokens are stateless, so requests that renew in parallel never invalidate each other's. What is stored is not
  as safe: a request whose own token is absent or too old, or whose refresh gets no answer, removes whatever pair is stored by then,
  a fresh one too. The guard goes stale with a logout; the page of a queue, opened by nobody, ends with its next poll. The
  dashboard fetches only when it is opened, and an answer still under way may satisfy that, so nothing of the kind is claimed of it.
* *Rooms*: a late answer to a subscription cannot put a socket into a room it may not be in. It can put a client into a
  room against its last wish (subscribe, then unsubscribe before the answer), but the last
  answer it gets says so. An `'error'` says nothing of rooms: a second subscription that fails leaves the client in the room of the first.

**Bounds.** In `JobLifecycle`, `MaxClaims` is 2 or 3: two claims of a job are the first execution
and a second one that meets its leftovers; the third shows that a retry after a
requeue starts from clean rows. Two workers make worker meet worker and worker meet
detector; `crashes` has three, because two detectors can only meet over the
body of a third process. In `settles` the limit of the
queue is below the number of jobs, so a slot that is not given back stops the
queue and shows up in `EventuallySettles`. One failed request per behaviour puts
a failure at each await in turn. `suspicion` has one job, because its properties
speak of one job, of one queue at its limit (1), or of one worker at its capacity (1), which a
worker exceeds when it claims again a job that it still executes; the second queue
lets a poll go on after a claim, and three claims by two workers let an old execution meet two later ones.
A worker process that restarts registers a new id, so a
crashed worker never comes back; another worker plays the restarted process.

In `scheduling` the clocks have two instants, so each template has an occurrence that both processes
can be after, and one process can be ahead; one lapse and one crash let the key
change hands between any two commands. `Overlap` is 1 there: passes of two processes meet as those of one would,
and the theorem holds for any `Overlap`. In `submission` one request
makes the queue, one makes a project or is another of the rest, and two more race (to rename the queue or give its name away, to join a batch the other made, for a key): two are enough for a race for a key, the other requests
put the removal of the queue between its steps. In `batches` two jobs are the least that
share a counter, and with `TotalJobs` 1 one of them is beyond `total_jobs`; with `MaxAttempts` 2 the failing one is retried, lost or
dead-lettered. What holds with several queues is a theorem. In `clients`
an access token lasts one instant and a refresh token two, of three, so a session is renewed and runs out. In `rooms`
three waiting subscriptions let a socket have two for one queue while another socket has one. Workers, detectors, requests, sockets
are symmetric only where no constant and no fairness distinguishes them.

**Deadlock** is checked in `crashes` and `settles`. In `suspicion` and `batches` all processes that could go on may be
down; `scheduling` and `clients` end when their clocks and bounds do; requests and sockets simply end.

**Fairness.** No fairness is assumed of crashes, failures, late heartbeats of live
processes, lost messages or users (except that a cancel that has begun is written). What is assumed:

* `JobLifecycle`: `setInterval` keeps each live process polling (5 s)
  and materializing and detecting (15 s); an `await` is answered or fails; time
  passes, so a job becomes due and a dead process becomes stale. That *some* live
  process detects orphans is weak fairness of the disjunction over processes, which `Scheduler` justifies.
  The liveness runs keep one worker that does not crash; the code promises nothing without one.
* `Scheduler`: each timer fires, each awaited answer arrives, clocks advance, and a lease that no
  live process renews expires. Weak fairness is enough, as nobody can disable what a process is about to do.
* `Settlement`: a statement that waits for a row gets it in the end. PostgreSQL queues the waiters of
  a row, so a row that is free again and again is granted: strong fairness. A poll that recurs does not skip a job for ever
  (`SKIP LOCKED` only passes over rows that are locked at that moment).
* `Session`: the page of a queue polls every 5 s while its tab is visible, requests are answered or lost, a page that is being left is
  unloaded. Nothing is assumed of the dashboard.

### 3.2 Runs that end in a violation

Each shows the shortest way in which the code departs from what a document
of the repository says; `findings` in `PROJECT.json` quotes the line.

| Run | Property | What happens |
|---|---|---|
| `v_slot_leak` | `SlotsReturned` | a cancellation lands on a job that was claimed after its check and is running; its execution finds no ownership at either end, and when nothing is under way any more the slot is still taken |
| `v_retry_budget` | `RetryBudget` | a crash uses up an attempt, though the requirements say it does not |
| `v_offline_worker` | `OrphansRecovered` | a worker marked offline goes on claiming; when it dies nobody requeues its jobs |
| `v_poison_template` | `OrphansLookedFor` | a template no job can be made of rolls back every pass before `detectOrphans`; the jobs of a dead worker stay with it |

More are known from modelling and kept as hazards only: a job cancelled between claim and
start runs after all; a late heartbeat lets two workers execute one job; a failed update to `running`
leaves a job claimed for ever; with jobs of one batch in two queues, a settlement writes back the batch as it read it before
another's and puts a final batch back to pending for ever; a batch is final before the jobs that joined it are; a used key inside a batch
is an error and leaves an empty pending batch, where `requirements.md:29` wants the existing job returned. Others the models show, which no document
decides: the empty idempotency key collides with itself; a project made by the API can never be
removed; after a first login the guard of `/` sends the user back to the login page until
a reload; a refresh that is answered after a logout stores the old tokens again; a request whose refresh fails removes tokens that
another request or a new login has stored since.

## 4. Proofs

Every safety invariant and safety action property that a passing run checks is also a theorem, for
jobs, queues, workers, processes, requests, sockets, failures and clock values as many as they like.
What a theorem assumes is the types of the constants (`ConstantsAssumption`, `SchedulerAssumption`,
`SubmissionAssumption`, `SettlementAssumption`, `SessionAssumption`, `GatewayAssumption`, which TLC
evaluates on every run; the sets of jobs are finite, and identifiers of different kinds of things
differ) and the environment that the heading or the theorem names. Each strengthened invariant was
checked by TLC before it was proved.

### 4.1 `JobLifecycleProofs`, for every environment

* `TypeCorrect`: `Spec => []TypeOK`.
* `LimitRespected`: `[]SlotsWithinLimit`. A claim takes at most
  `Limit - currentRunning` jobs under the queue's lock, and `Monus`
  (`GREATEST(0, ...)`) keeps every release at or above zero.
* `DeadLetterRecorded`: `[]DeadLetterHasEntry`, inductive together with
  the types: the writes of `'dead-letter'` and of the row are one transaction, and only
  `requeueJob`, which also changes the status, deletes the row.
* `CapacityRespected`: `[]LoadWithinCapacity`. Executions start in `Claim` only, which takes at most
  `WorkerRoom(w)` jobs; the proof counts the new executions of a worker as the jobs claimed.
* `HistoryKept` and `CompletionRecorded`: `[]CompletedHasRecord`. The invariant `History` adds that an
  execution nobody has started yet has no row (`Fresh`) and that an execution whose row is final
  does not run any more (`RecordsFinal`), so no later error path rewrites what `Complete` wrote.

### 4.2 `JobExclusionProofs`, when `FalseSuspects = {}`

* `ExclusionHolds`: `Spec => []Exclusion`. `OneExecutor` is not inductive. A
  claim needs to know that nobody executes the job it takes, and what it sees
  is only the row: so `LiveHoldsJob` says that whoever executes a job owns its row, in
  a status that cannot be claimed. A detector takes jobs away from their owner: so
  `SuspectsAreDown` says that the owner is dead, hence executes nothing, and
  `ScanHoldsJob` that what the detector read is still so when it writes, although it
  holds no lock on those rows. `OneMarker` (from the lock of the worker's row) keeps a
  second detector from writing on top of it, and `DeadIsIdle` keeps `requeueJob` away from jobs in work.
  `Exclusion` is the conjunction, and TLC checks it in `crashes`.
* `AtMostOneExecutor` follows from it.
* `WorkHasSlots`: `[]SlotsCoverWork`, from `Exclusion`: the set of jobs in
  work (`InWork`: active, or executed, or about to be requeued by a detector) never
  has more members than `current_running`. Jobs that a cancellation hit while they
  were held stay in it until their execution ends, which is why it is not just the
  set of active jobs: their slot leaks, which is the safe side.
* `WorkWithinLimit`: with `LimitRespected`, no more jobs of a queue are in work
  than its limit.
* `AttemptsStayNumbered`: `[]AttemptsNumberedOnce`, when nobody requeues by hand either
  (`Requeueable = {}`: `requeueJob` sets `attempt_count` back to 0, so numbers do recur after it). A
  live execution has the number of its job's row and one above all other recorded ones
  (`LiveIsLast`), recorded ones never exceed the row (`HistoryBelow`), and what a detector has read
  is still the row's number (`ScanIsCurrent`). The row's number goes down only by `Release`, which
  happens before the execution is recorded.

### 4.3 `JobSlotsProofs`, when `FalseSuspects = {}` and `Cancellable = {}`

Both hypotheses are needed: `v_slot_leak` is the counterexample with a cancellation, and `cancelJob`
can overwrite a job that has just been completed. `MoveStep` sums every action up as one of five moves of statuses and
counters (`JobMove`); the rest follows from the moves.

* `AlwaysSettled`: the invariant `Settled` (types, `Exclusion`, nothing cancelled).
* `SlotsStayExact`: `[]SlotsExact`: each move changes `current_running` by the number of jobs that
  it makes or unmakes active, and `GREATEST(0, ...)` never cuts anything off.
* `LifecycleKept`: `LifecycleFollowed`, an action property.
* `DependenciesFirst`: `[]DependencyOrder`: a claim needs the dependency completed, and completed is
  for ever.
* `LifecycleImplementsBoard`: `Spec => ImplementsBoard`. The initial state maps to that of `JobBoard`
  and each move to a step of it or to none. The limit of the board counts held jobs, which
  `SlotsExact` equates with the counter that the claim reads.

### 4.4 `SettlementProofs`, when `Lapsing = {}`

* `TypeCorrect` needs no hypothesis.
* `LocksProtect`: `[](TypeOK /\ Locked)`. `Held`: a settlement past its first statement has its job
  locked, still owns it, and from the second on has the queue locked. `Passes`: the worker a
  detector treats is dead, its row is locked, and the jobs it has read are still this worker's and
  running, locked or not. `DeadRunNothing` is why: who could change them is dead. `Holders`: who may have a row of each table locked.
* `BatchIsTruthful`: `[]BatchTellsTruth`, for any jobs in any queues and any `TotalJobs`. Each settlement
  writes one more than the row was when it read it, and the row was at most what had ended; ended jobs stay ended, and its own
  is not among them yet. So a step ends one job and writes one more than it read, or ends none and leaves the row alone (`Counted`). When all jobs are in one queue the row is exact: whoever has read the batch
  holds that queue's row, so there is one reader, and what it read is the row (`ReadsAreCurrent`).
* `NobodyWaitsForever`: `[]NoDeadlock`, when there is one queue or one detector. A circle holds no
  settlement that has its queue, as that one waits for nothing; so a queue in it is held by a detector. A
  detector does not wait for a job, as jobs of a dead worker are locked by nobody else. So it
  waits for the queue of another detector, and that takes two of each.

Each hypothesis is needed; TLC finds the counterexamples when the constants are changed. A live
worker in `Lapsing` breaks both: the detector writes over a job that has completed since, and
waits for a job whose settlement waits for its queue. With jobs in two queues the counters need not
be exact, and `BatchEnds` fails. Two detectors over the
bodies of two workers, each with jobs in two queues, lock the queues in opposite orders.

### 4.5 `SchedulerProofs`

* `TypeCorrect`.
* `SchedulerImplementsSchedule`: `Spec => ImplementsSchedule`. The inductive invariant is `RowsHeldOnce`: a
  row that a pass holds is held by no other, still has the `next_run_at` the pass read, and that is not after the `now` of the
  pass. `Select` takes only unlocked rows (`FOR UPDATE SKIP LOCKED`), and only the
  holder changes them. So `Commit` consumes an occurrence that is still the
  current one and moves on to a later one, which is `Fire` of `Schedule`; every other step leaves both variables alone. `isLeader`
  and the key do not occur in the argument: the election is not what prevents duplicates.
* `OccurrenceOnce`: `[]AtMostOnce`, because `Schedule` keeps it.

### 4.6 `SubmissionProofs`

One invariant, `Inv`, carries all five: `TypeCorrect`, `SubmittedOnce` (`KeyedOnce`), `RaceCostsNothing`
(`KeyedAnswered`), `BatchesWhole` (`BatchWhole`) and `TreeStaysIntact` (`TreeIntact`). Between its
check and its write a handler knows nothing for certain: a queue it found may be gone. But a queue
that is gone never comes back, a job that is there stays and keeps its key, and so does a batch, so the insert either succeeds or meets the
unique key or a foreign key: `AnswerHasKey` says a keyed submission was answered with the
job of its key, or its queue is gone for good or its batch was never there (a body names a batch that is there or an
id that never will be: `RefsNamed`). `KeysUnique` and `NamesUnique` are the unique indexes, the latter kept by renames too
(`RenamedKeeps`). `JobsOfBatch` says that the jobs a batch was created with, known by the request that made them and not by their
`batch_id`, appear with its answer.

### 4.7 `SessionProofs`

`TypeCorrect`, and `RacesKeepSession`: `Spec => RefreshHonoured`, an action property. The invariant
`PairsOwned` says that every pair that is stored or carried by a request belongs to an account the
API has; so a refresh is refused only because of its age. It says what a presented token is worth, and nothing of the pair
in `localStorage`, which another request may remove.

### 4.8 `GatewayProofs`

`TypeCorrect`, `OnlyOwnRooms` and `ClientsKnow`, from one inductive conjunction of the last two with the types and
`Untold` (nobody is told anything before the connection is open, so that a socket starts in no room and with no
answer). A late answer is harmless because it compares the organization with a user that never
changes, and joins and tells in one step; an `'error'` is told without a change of rooms, so after it the client knows nothing, and
`AnswersTrue` says so.

### 4.9 Only model-checked

The liveness properties: `EventuallySettles`, `OrphansRecovered`, `SchedulesAdvance`,
`OrphansLookedFor`, `StaleBeliefHeals`, `BatchEnds`, `NobodyWatches`. Fairness and `ENABLED`
are beyond the prover. The four violations of section 3.2 are counterexamples and have nothing to prove.

## 5. Plan

1. Theorems: `LifecycleFollowed` and `DependencyOrder` in the form that survives cancellations (a cancelled job is
   not worked on by a later claim); `AttemptsNumberedOnce` between two requeues by hand.
2. The safety steps behind the liveness properties: in every state that `EventuallySettles` and
   `OrphansRecovered` wait in, which rows and processes the next helpful action finds.
3. `Settlement` against `JobLifecycle`: the slots of a queue are exact statement by statement too, and a
   commit of `Settlement` is a move of `JobMove`.
4. A commit whose answer is lost, in `Settlement`; cancel and requeue of a batch's jobs there.
5. `RateLimit`, `WorkerShutdown` (for the day the hooks are enabled), a `concurrency_limit` that is changed under running jobs.

## 6. Not modelled

* Rate limit: it counts `claimed_at` of the last second, a matter of real time; it only makes
  a claim smaller, which `SKIP LOCKED` may do as well.
* Graceful shutdown of the worker: `main.ts` enables no shutdown hooks, so `onModuleDestroy` does not run
  on a signal; `Crash` is what happens.
* A lost answer to a commit. Changes of `concurrency_limit` while jobs run.
* Tenancy: the queries of the API have the organization in their conditions, except `requeueJob` (`jobs.service.ts:181`), which looks
  by id alone. `Submission` has one organization; `Gateway` has several,
  because there the comparison is separated from its effect. Registration of organizations and roles, races of two registrations.
* The status of a batch of no jobs, which `createBatch` accepts: only the settlement of a job writes it, so it stays pending.
* Cancel and requeue of a batch's jobs in `Settlement`: neither writes the batch.
* `job_logs`, lists and getters, metrics, the Redis adapter (nothing is broadcast), and what the dashboard renders: reads, or
  rows nobody acts on.
* `.agents/.../proposed_*.ts`: drafts of the worker and scheduler services that nothing compiles or imports.
