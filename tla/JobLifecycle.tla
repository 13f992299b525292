---------------------------- MODULE JobLifecycle ----------------------------
(***************************************************************************)
(* The life of a job, from the row the API created to a final status, as   *)
(* the worker processes (worker.service.ts), the orphan detector of the    *)
(* leading process (scheduler.service.ts, detectOrphans) and the API       *)
(* (jobs.service.ts, queues.service.ts) move it through PostgreSQL.        *)
(*                                                                         *)
(* One action is one database transaction, or one autocommitted statement, *)
(* together with the process-local code that runs from it to the next      *)
(* await.  A transaction is atomic here when the row locks it takes first  *)
(* (READ COMMITTED, SELECT ... FOR UPDATE, conditional UPDATE) make it so; *)
(* where the code reads a row without locking it and writes it later, the  *)
(* read and the write are two actions.                                     *)
(*                                                                         *)
(* A definition named Slip... is no part of the model: it is the definition*)
(* that follows it with a plausible mistake in it, and shows that some     *)
(* property would notice.                                                  *)
(***************************************************************************)
EXTENDS Integers, FiniteSets

CONSTANTS
  Jobs,           \* the rows of table jobs
  Queues,         \* the rows of table queues
  Workers,        \* worker ids; a process that restarts registers a new id
  None,           \* the NULL of claimed_by_worker_id
  QueueOf,        \* jobs.queue_id
  Deps,           \* job_dependencies: the jobs a job waits for
  MaxAttempts,    \* jobs.max_attempts
  Limit,          \* queues.concurrency_limit
  Capacity,       \* WorkerService.concurrencyCapacity
  FailJobs        \* the jobs of type 'fail', whose handler throws

CONSTANTS         \* what the environment may do, and the bounds on it
  MaxClaims,      \* bound: how often a job is claimed in a behaviour
  MaxDbErrors,    \* bound: how many database requests fail in a behaviour
  Fallible,       \* which may fail: those of a "claim", of a "run", of a "pass"
  Crashable,      \* workers whose process may stop (SIGTERM and SIGKILL alike)
  FalseSuspects,  \* workers whose heartbeat may lapse while they are alive
  Detectors,      \* processes that may hold leadership and look for orphans
  Cancellable,    \* jobs a user may cancel
  Pausable,       \* queues a user may pause
  Requeueable     \* jobs a user may requeue from the dead letter queue

ASSUME ConstantsAssumption ==
  /\ None \notin Workers
  /\ IsFiniteSet(Jobs)
  /\ QueueOf \in [Jobs -> Queues]
  /\ Deps \in [Jobs -> SUBSET Jobs]
  /\ MaxAttempts \in [Jobs -> Nat \ {0}]
  /\ Limit \in [Queues -> Nat]
  /\ Capacity \in Nat \ {0}
  /\ MaxClaims \in Nat
  /\ MaxDbErrors \in Nat /\ Fallible \subseteq {"claim", "run", "pass"}
  /\ FailJobs \subseteq Jobs /\ Cancellable \subseteq Jobs /\ Requeueable \subseteq Jobs
  /\ Crashable \subseteq Workers /\ FalseSuspects \subseteq Workers /\ Detectors \subseteq Workers
  /\ Pausable \subseteq Queues

VARIABLES
  status,         \* jobs.status
  claimedBy,      \* jobs.claimed_by_worker_id
  attemptCount,   \* jobs.attempt_count
  due,            \* jobs.run_at <= now()
  dlq,            \* the jobs that have a row in dead_letter_queue
  currentRunning, \* queues.current_running
  isPaused,       \* queues.is_paused
  workerStatus,   \* workers.status, "absent" before the row exists
  stale,          \* workers.last_heartbeat_at < now() - 30 s
  proc,           \* the worker process itself: not started, up or down
  poll,           \* queues the running poll() has not processed yet; {}: no poll
  claims,         \* how often each job was claimed (numbers its executions)
  pc,             \* where each execution, a call of executeJob, has got to
  runner,         \* the worker that runs the execution
  attempt,        \* attempt_count of the row the claim RETURNED to it
  row,            \* its row of job_executions
  cancelling,     \* jobs whose DELETE request has passed its status check
  phase,          \* where each detector's detectOrphans pass has got to
  suspects,       \* deadWorkers it has still to look at
  target,         \* the worker it is looking at
  scan,           \* what its findMany said of each job: status, or "absent"
  scanAttempts,   \* and the attempt_count it said
  dbErrors        \* database requests that have failed so far

jobVars    == <<status, claimedBy, attemptCount, due, dlq>>
queueVars  == <<currentRunning, isPaused>>
workerVars == <<workerStatus, stale, proc>>
runVars    == <<claims, pc, runner, attempt, row>>
orphanVars == <<phase, suspects, target, scan, scanAttempts>>
vars == <<jobVars, queueVars, workerVars, poll, runVars, cancelling, orphanVars, dbErrors>>

JobStatus == {"queued", "scheduled", "claimed", "running",
              "completed", "dead-letter", "cancelled"}
RunState  == {"none", "creating", "starting", "handling", "committing",
              "failing", "lost", "releasing", "ended"}

(* The n-th time job j is claimed, the execution is <<j, n>>.              *)
Runs     == Jobs \X (1 .. MaxClaims)
JobOf(r) == r[1]

(* An execution is live from the claim until executeJob returns, which is  *)
(* when the worker's currentLoad goes down again.                          *)
Live(r)     == pc[r] \notin {"none", "ended"}
LiveRuns(w) == {r \in Runs : runner[r] = w /\ Live(r)}
SlipLoad(w) == Cardinality({r \in LiveRuns(w) : claimedBy[JobOf(r)] = w})   \* asked of table jobs
Load(w)     == Cardinality(LiveRuns(w))

Active(j)     == status[j] \in {"claimed", "running"}
ActiveIn(q)   == {j \in Jobs : QueueOf[j] = q /\ Active(j)}
NothingHeld   == [j \in Jobs |-> "absent"]
NoAttempts    == [j \in Jobs |-> 0]

SlipMonus(a, b) == a - b                    \* no GREATEST
Monus(a, b)     == IF a > b THEN a - b ELSE 0

SlipJobsOfAnyStatus(w) == {j \in Jobs : claimedBy[j] = w}
SlipJobsRunning(w)     == {j \in Jobs : claimedBy[j] = w /\ status[j] = "running"}
JobsRunBy(w)           == {j \in Jobs : claimedBy[j] = w /\ Active(j)}

-----------------------------------------------------------------------------
Init ==
  /\ status \in [Jobs -> {"queued", "scheduled"}]
  /\ due = [j \in Jobs |-> status[j] = "queued"]
  /\ claimedBy = [j \in Jobs |-> None]
  /\ attemptCount = [j \in Jobs |-> 0]
  /\ dlq = {}
  /\ currentRunning = [q \in Queues |-> 0]
  /\ isPaused = [q \in Queues |-> FALSE]
  /\ workerStatus = [w \in Workers |-> "absent"]
  /\ stale = [w \in Workers |-> FALSE]
  /\ proc = [w \in Workers |-> "new"]
  /\ poll = [w \in Workers |-> {}]
  /\ claims = [j \in Jobs |-> 0]
  /\ pc = [r \in Runs |-> "none"]
  /\ runner = [r \in Runs |-> None]
  /\ attempt = [r \in Runs |-> 0]
  /\ row = [r \in Runs |-> "none"]
  /\ cancelling = {}
  /\ phase = [s \in Detectors |-> "idle"]
  /\ suspects = [s \in Detectors |-> {}]
  /\ target = [s \in Detectors |-> None]
  /\ scan = [s \in Detectors |-> NothingHeld]
  /\ scanAttempts = [s \in Detectors |-> NoAttempts]
  /\ dbErrors = 0

-----------------------------------------------------------------------------
(* Time and the fate of processes.                                         *)

(* onModuleInit: the row of the worker is created 'active'.                *)
Register(w) ==
  /\ proc[w] = "new"
  /\ proc' = [proc EXCEPT ![w] = "up"]
  /\ workerStatus' = [workerStatus EXCEPT ![w] = "active"]
  /\ UNCHANGED <<jobVars, queueVars, stale, poll, runVars, cancelling, orphanVars, dbErrors>>

(* A detector that has updated the worker's row holds its lock until its   *)
(* transaction ends.                                                       *)
SlipRowLocked(w) == FALSE                   \* findMany before worker.update
RowLocked(w)     == \E s \in Detectors : phase[s] = "marked" /\ target[s] = w

(* startHeartbeat sets last_heartbeat_at and never the status, so a worker *)
(* that was marked offline stays offline.                                  *)
Heartbeat(w) ==
  /\ proc[w] = "up" /\ stale[w] /\ ~RowLocked(w)
  /\ stale' = [stale EXCEPT ![w] = FALSE]
  /\ UNCHANGED <<jobVars, queueVars, workerStatus, proc, poll, runVars, cancelling, orphanVars, dbErrors>>

HeartbeatLapses(w) ==
  /\ proc[w] = "down" \/ (proc[w] = "up" /\ w \in FalseSuspects)
  /\ ~stale[w]
  /\ stale' = [stale EXCEPT ![w] = TRUE]
  /\ UNCHANGED <<jobVars, queueVars, workerStatus, proc, poll, runVars, cancelling, orphanVars, dbErrors>>

(* The process stops.  main.ts enables no shutdown hooks, so a SIGTERM     *)
(* stops it as a SIGKILL does: its executions and its poll vanish, and a   *)
(* transaction of its detector is rolled back.                             *)
Crash(w) ==
  /\ proc[w] = "up" /\ w \in Crashable
  /\ proc' = [proc EXCEPT ![w] = "down"]
  /\ poll' = [poll EXCEPT ![w] = {}]
  /\ pc' = [r \in Runs |-> IF r \in LiveRuns(w) THEN "ended" ELSE pc[r]]
  /\ phase' = [s \in Detectors |-> IF s = w THEN "idle" ELSE phase[s]]
  /\ suspects' = [s \in Detectors |-> IF s = w THEN {} ELSE suspects[s]]
  /\ target' = [s \in Detectors |-> IF s = w THEN None ELSE target[s]]
  /\ scan' = [s \in Detectors |-> IF s = w THEN NothingHeld ELSE scan[s]]
  /\ scanAttempts' = [s \in Detectors |-> IF s = w THEN NoAttempts ELSE scanAttempts[s]]
  /\ UNCHANGED <<jobVars, queueVars, workerStatus, stale, claims, runner, attempt, row,
                 cancelling, dbErrors>>

(* A job becomes due when its run_at passes.                               *)
RunAtPasses(j) ==
  /\ ~due[j]
  /\ due' = [due EXCEPT ![j] = TRUE]
  /\ UNCHANGED <<status, claimedBy, attemptCount, dlq, queueVars, workerVars, poll, runVars,
                 cancelling, orphanVars, dbErrors>>

-----------------------------------------------------------------------------
(* The worker's poll: poll() and processQueue().                           *)

PollStart(w) ==
  /\ proc[w] = "up" /\ poll[w] = {}
  /\ Load(w) < Capacity
  /\ poll' = [poll EXCEPT ![w] = {q \in Queues : ~isPaused[q]}]
  /\ UNCHANGED <<jobVars, queueVars, workerVars, runVars, cancelling, orphanVars, dbErrors>>

(* The loop over the queues stops when the worker is full.                 *)
PollBreak(w) ==
  /\ proc[w] = "up" /\ poll[w] # {}
  /\ Load(w) >= Capacity
  /\ poll' = [poll EXCEPT ![w] = {}]
  /\ UNCHANGED <<jobVars, queueVars, workerVars, runVars, cancelling, orphanVars, dbErrors>>

SlipClaimable == {"queued", "scheduled", "claimed"}
Claimable     == {"queued", "scheduled"}

SlipDepsDone(j) == \A d \in Deps[j] : status[d] \notin {"queued", "claimed", "running"}
DepsDone(j)     == \A d \in Deps[j] : status[d] = "completed"

Eligible(q) ==
  {j \in Jobs : /\ QueueOf[j] = q
                /\ status[j] \in Claimable
                /\ due[j]
                /\ DepsDone(j)
                /\ claims[j] < MaxClaims}

(* Rows another statement may hold locked at this moment, which SKIP       *)
(* LOCKED passes over: those with a write under way.                       *)
Contended(j) ==
  \/ j \in cancelling
  \/ \E s \in Detectors : scan[s][j] # "absent"
  \/ \E r \in Runs : JobOf(r) = j /\ pc[r] \in {"starting", "releasing"}

WorkerRoom(w)    == Capacity - Load(w)
SlipQueueRoom(q) == Limit[q] - currentRunning[q] + 1
QueueRoom(q)     == Limit[q] - currentRunning[q]
Room(w, q)       == IF WorkerRoom(w) < QueueRoom(q) THEN WorkerRoom(w) ELSE QueueRoom(q)

(* What the claiming UPDATE may take: LIMIT rows, or fewer when only       *)
(* locked rows are left.  ORDER BY is abstracted to any choice.            *)
ClaimSet(w, q, S) ==
  /\ S \subseteq Eligible(q)
  /\ S # {} => Cardinality(S) <= Room(w, q)
  /\ Cardinality(S) < Room(w, q) => \A j \in Eligible(q) \ S : Contended(j)

SlipTakeSlots(q, n) == currentRunning' = [currentRunning EXCEPT ![q] = IF n = 0 THEN @ ELSE @ + 1]
TakeSlots(q, n)     == currentRunning' = [currentRunning EXCEPT ![q] = @ + n]

NewRuns(S) == {<<j, claims[j] + 1>> : j \in S}

(* The claim transaction, under the lock of the queue's row, and the start *)
(* of an execution for each job it returned.                               *)
Claim(w, q, S) ==
  /\ ClaimSet(w, q, S)
  /\ status' = [j \in Jobs |-> IF j \in S THEN "claimed" ELSE status[j]]
  /\ claimedBy' = [j \in Jobs |-> IF j \in S THEN w ELSE claimedBy[j]]
  /\ attemptCount' = [j \in Jobs |-> IF j \in S THEN attemptCount[j] + 1 ELSE attemptCount[j]]
  /\ TakeSlots(q, Cardinality(S))
  /\ claims' = [j \in Jobs |-> IF j \in S THEN claims[j] + 1 ELSE claims[j]]
  /\ pc' = [r \in Runs |-> IF r \in NewRuns(S) THEN "creating" ELSE pc[r]]
  /\ runner' = [r \in Runs |-> IF r \in NewRuns(S) THEN w ELSE runner[r]]
  /\ attempt' = [r \in Runs |-> IF r \in NewRuns(S) THEN attemptCount[JobOf(r)] + 1 ELSE attempt[r]]
  /\ UNCHANGED <<due, dlq, isPaused, row>>

(* is_paused was read by PollStart and is not read again here.             *)
ProcessQueue(w, q) ==
  /\ proc[w] = "up" /\ q \in poll[w]
  /\ Load(w) < Capacity
  /\ poll' = [poll EXCEPT ![w] = @ \ {q}]
  /\ \E S \in SUBSET Eligible(q) : Claim(w, q, S)
  /\ UNCHANGED <<workerVars, cancelling, orphanVars, dbErrors>>

DbFails(part) ==
  /\ part \in Fallible /\ dbErrors < MaxDbErrors
  /\ dbErrors' = dbErrors + 1

(* The claim transaction fails: rolled back, logged, next queue.           *)
ProcessQueueError(w, q) ==
  /\ proc[w] = "up" /\ q \in poll[w]
  /\ Load(w) < Capacity
  /\ DbFails("claim")
  /\ poll' = [poll EXCEPT ![w] = @ \ {q}]
  /\ UNCHANGED <<jobVars, queueVars, workerVars, runVars, cancelling, orphanVars>>

-----------------------------------------------------------------------------
(* One execution of a job: executeJob() and handleJobFailure().            *)

Advance(r, to) == pc' = [pc EXCEPT ![r] = to]

ReleaseSlots(q, n) == currentRunning' = [currentRunning EXCEPT ![q] = Monus(@, n)]

(* The WHERE of the two updateMany calls that finish an attempt.           *)
Owns(r) == claimedBy[JobOf(r)] = runner[r] /\ status[JobOf(r)] = "running"

CreateExecution(r) ==
  /\ pc[r] = "creating"
  /\ row' = [row EXCEPT ![r] = "running"]
  /\ Advance(r, "starting")
  /\ UNCHANGED <<jobVars, queueVars, workerVars, poll, claims, runner, attempt,
                 cancelling, orphanVars, dbErrors>>

(* The job is set 'running' whatever its status and owner are by now.      *)
StartJob(r) ==
  /\ pc[r] = "starting"
  /\ status' = [status EXCEPT ![JobOf(r)] = "running"]
  /\ Advance(r, "handling")
  /\ UNCHANGED <<claimedBy, attemptCount, due, dlq, queueVars, workerVars, poll, claims,
                 runner, attempt, row, cancelling, orphanVars, dbErrors>>

RunHandler(r) ==
  /\ pc[r] = "handling"
  /\ Advance(r, IF JobOf(r) \in FailJobs THEN "failing" ELSE "committing")
  /\ UNCHANGED <<jobVars, queueVars, workerVars, poll, claims, runner, attempt, row,
                 cancelling, orphanVars, dbErrors>>

Complete(r) ==
  /\ pc[r] = "committing" /\ Owns(r)
  /\ status' = [status EXCEPT ![JobOf(r)] = "completed"]
  /\ row' = [row EXCEPT ![r] = "completed"]
  /\ ReleaseSlots(QueueOf[JobOf(r)], 1)
  /\ Advance(r, "ended")
  /\ UNCHANGED <<claimedBy, attemptCount, due, dlq, isPaused, workerVars, poll, claims,
                 runner, attempt, cancelling, orphanVars, dbErrors>>

(* 'Lost ownership of job': the transaction is rolled back, and then only  *)
(* the execution's own row is closed.                                      *)
LoseOwnership(r) ==
  /\ pc[r] = "committing" /\ ~Owns(r)
  /\ Advance(r, "lost")
  /\ UNCHANGED <<jobVars, queueVars, workerVars, poll, claims, runner, attempt, row,
                 cancelling, orphanVars, dbErrors>>

SlipCloseLost(r) ==                         \* closes by job_id
  /\ pc[r] = "lost"
  /\ row' = [x \in Runs |-> IF JobOf(x) = JobOf(r) THEN "failed" ELSE row[x]]
  /\ Advance(r, "ended")
  /\ UNCHANGED <<jobVars, queueVars, workerVars, poll, claims, runner, attempt,
                 cancelling, orphanVars, dbErrors>>

CloseLost(r) ==
  /\ pc[r] = "lost"
  /\ row' = [row EXCEPT ![r] = "failed"]
  /\ Advance(r, "ended")
  /\ UNCHANGED <<jobVars, queueVars, workerVars, poll, claims, runner, attempt,
                 cancelling, orphanVars, dbErrors>>

OutOfAttempts(r) == attempt[r] >= MaxAttempts[JobOf(r)]

Retry(r) ==
  /\ pc[r] = "failing" /\ Owns(r) /\ ~OutOfAttempts(r)
  /\ status' = [status EXCEPT ![JobOf(r)] = "scheduled"]
  /\ due' = [due EXCEPT ![JobOf(r)] = FALSE]
  /\ claimedBy' = [claimedBy EXCEPT ![JobOf(r)] = None]
  /\ row' = [row EXCEPT ![r] = "failed"]
  /\ ReleaseSlots(QueueOf[JobOf(r)], 1)
  /\ Advance(r, "ended")
  /\ UNCHANGED <<attemptCount, dlq, isPaused, workerVars, poll, claims, runner, attempt,
                 cancelling, orphanVars, dbErrors>>

DeadLetter(r) ==
  /\ pc[r] = "failing" /\ Owns(r) /\ OutOfAttempts(r)
  /\ JobOf(r) \notin dlq
  /\ status' = [status EXCEPT ![JobOf(r)] = "dead-letter"]
  /\ claimedBy' = [claimedBy EXCEPT ![JobOf(r)] = None]
  /\ dlq' = dlq \cup {JobOf(r)}
  /\ row' = [row EXCEPT ![r] = "failed"]
  /\ ReleaseSlots(QueueOf[JobOf(r)], 1)
  /\ Advance(r, "ended")
  /\ UNCHANGED <<attemptCount, due, isPaused, workerVars, poll, claims, runner, attempt,
                 cancelling, orphanVars, dbErrors>>

(* The failure transaction rolls back, because ownership was lost or       *)
(* because dead_letter_queue.job_id is unique; the error is swallowed.     *)
FailureRejected(r) ==
  /\ pc[r] = "failing"
  /\ ~Owns(r) \/ (OutOfAttempts(r) /\ JobOf(r) \in dlq)
  /\ Advance(r, "ended")
  /\ UNCHANGED <<jobVars, queueVars, workerVars, poll, claims, runner, attempt, row,
                 cancelling, orphanVars, dbErrors>>

(* No execution row could be created: the claim is given back, whatever    *)
(* the status and the owner of the job are by now.                         *)
Release(r) ==
  /\ pc[r] = "releasing"
  /\ status' = [status EXCEPT ![JobOf(r)] = "queued"]
  /\ claimedBy' = [claimedBy EXCEPT ![JobOf(r)] = None]
  /\ attemptCount' = [attemptCount EXCEPT ![JobOf(r)] = Monus(attempt[r], 1)]
  /\ ReleaseSlots(QueueOf[JobOf(r)], 1)
  /\ Advance(r, "ended")
  /\ UNCHANGED <<due, dlq, isPaused, workerVars, poll, claims, runner, attempt, row,
                 cancelling, orphanVars, dbErrors>>

(* Where executeJob goes when the database request it awaits fails.        *)
OnError(state) == CASE state = "creating" -> "releasing"
                    [] state \in {"starting", "committing"} -> "failing"
                    [] state \in {"lost", "failing", "releasing"} -> "ended"

RunError(r) ==
  /\ pc[r] \in {"creating", "starting", "committing", "lost", "failing", "releasing"}
  /\ DbFails("run")
  /\ Advance(r, OnError(pc[r]))
  /\ UNCHANGED <<jobVars, queueVars, workerVars, poll, claims, runner, attempt, row,
                 cancelling, orphanVars>>

-----------------------------------------------------------------------------
(* detectOrphans(), run by the process that believes it is the leader.     *)

SlipSuspected == {w \in Workers : workerStatus[w] = "active"}
Suspected     == {w \in Workers : workerStatus[w] = "active" /\ stale[w]}

PassPhase(rest) == IF rest = {} THEN "idle" ELSE "listed"

OrphanList(s) ==
  /\ proc[s] = "up" /\ phase[s] = "idle"
  /\ Suspected # {}
  /\ suspects' = [suspects EXCEPT ![s] = Suspected]
  /\ phase' = [phase EXCEPT ![s] = "listed"]
  /\ UNCHANGED <<jobVars, queueVars, workerVars, poll, runVars, cancelling, target, scan,
                 scanAttempts, dbErrors>>

(* The status is read again, without a lock; the heartbeat is not.         *)
OrphanCheck(s, w) ==
  /\ phase[s] = "listed" /\ w \in suspects[s]
  /\ suspects' = [suspects EXCEPT ![s] = @ \ {w}]
  /\ IF workerStatus[w] = "active"
       THEN /\ phase' = [phase EXCEPT ![s] = "checked"]
            /\ target' = [target EXCEPT ![s] = w]
       ELSE /\ phase' = [phase EXCEPT ![s] = PassPhase(suspects[s] \ {w})]
            /\ UNCHANGED target
  /\ UNCHANGED <<jobVars, queueVars, workerVars, poll, runVars, cancelling, scan,
                 scanAttempts, dbErrors>>

(* worker.update takes the lock of the worker's row, waiting for another   *)
(* detector that holds it; then findMany reads the jobs, without locks.    *)
SlipOrphanMark(s) ==                        \* 'offline' is written on its own
  /\ phase[s] = "checked"
  /\ ~RowLocked(target[s])
  /\ phase' = [phase EXCEPT ![s] = "marked"]
  /\ workerStatus' = [workerStatus EXCEPT ![target[s]] = "offline"]
  /\ scan' = [scan EXCEPT ![s] =
                [j \in Jobs |-> IF j \in JobsRunBy(target[s]) THEN status[j] ELSE "absent"]]
  /\ scanAttempts' = [scanAttempts EXCEPT ![s] =
                [j \in Jobs |-> IF j \in JobsRunBy(target[s]) THEN attemptCount[j] ELSE 0]]
  /\ UNCHANGED <<jobVars, queueVars, stale, proc, poll, runVars, cancelling, suspects, target,
                 dbErrors>>

OrphanMark(s) ==
  /\ phase[s] = "checked"
  /\ ~RowLocked(target[s])
  /\ phase' = [phase EXCEPT ![s] = "marked"]
  /\ scan' = [scan EXCEPT ![s] =
                [j \in Jobs |-> IF j \in JobsRunBy(target[s]) THEN status[j] ELSE "absent"]]
  /\ scanAttempts' = [scanAttempts EXCEPT ![s] =
                [j \in Jobs |-> IF j \in JobsRunBy(target[s]) THEN attemptCount[j] ELSE 0]]
  /\ UNCHANGED <<jobVars, queueVars, workerVars, poll, runVars, cancelling, suspects, target,
                 dbErrors>>

SlipAttemptsBack(s, j) == Monus(scanAttempts[s][j], 1)
AttemptsBack(s, j)     == scanAttempts[s][j]

Scanned(s) == {j \in Jobs : scan[s][j] # "absent"}

EndPass(s) ==
  /\ phase' = [phase EXCEPT ![s] = PassPhase(suspects[s])]
  /\ target' = [target EXCEPT ![s] = None]
  /\ scan' = [scan EXCEPT ![s] = NothingHeld]
  /\ scanAttempts' = [scanAttempts EXCEPT ![s] = NoAttempts]
  /\ UNCHANGED suspects

(* The rows found are written, whatever has become of them meanwhile.      *)
OrphanCommit(s) ==
  /\ phase[s] = "marked"
  /\ workerStatus' = [workerStatus EXCEPT ![target[s]] = "offline"]
  /\ status' = [j \in Jobs |-> IF j \in Scanned(s) THEN "queued" ELSE status[j]]
  /\ claimedBy' = [j \in Jobs |-> IF j \in Scanned(s) THEN None ELSE claimedBy[j]]
  /\ attemptCount' = [j \in Jobs |-> IF j \in Scanned(s) THEN AttemptsBack(s, j) ELSE attemptCount[j]]
  /\ currentRunning' = [q \in Queues |->
       Monus(currentRunning[q], Cardinality({j \in Scanned(s) : QueueOf[j] = q}))]
  /\ row' = [r \in Runs |->
       IF scan[s][JobOf(r)] = "running" /\ runner[r] = target[s] /\ row[r] = "running"
         THEN "failed" ELSE row[r]]
  /\ EndPass(s)
  /\ UNCHANGED <<due, dlq, isPaused, stale, proc, poll, claims, pc, runner, attempt,
                 cancelling, dbErrors>>

(* The transaction is rolled back; detectOrphans goes on to the next one.  *)
OrphanAbort(s) ==
  /\ phase[s] \in {"checked", "marked"}
  /\ DbFails("pass")
  /\ EndPass(s)
  /\ UNCHANGED <<jobVars, queueVars, workerVars, poll, runVars, cancelling>>

-----------------------------------------------------------------------------
(* The API.                                                                *)

SetPaused(q, paused) ==
  /\ q \in Pausable /\ isPaused[q] # paused
  /\ isPaused' = [isPaused EXCEPT ![q] = paused]
  /\ UNCHANGED <<jobVars, currentRunning, workerVars, poll, runVars, cancelling, orphanVars,
                 dbErrors>>

(* cancelJob reads the status, and in another statement writes 'cancelled'.*)
CancelCheck(j) ==
  /\ j \in Cancellable \ cancelling
  /\ status[j] \in {"queued", "scheduled"}
  /\ cancelling' = cancelling \cup {j}
  /\ UNCHANGED <<jobVars, queueVars, workerVars, poll, runVars, orphanVars, dbErrors>>

CancelWrite(j) ==
  /\ j \in cancelling
  /\ status' = [status EXCEPT ![j] = "cancelled"]
  /\ cancelling' = cancelling \ {j}
  /\ UNCHANGED <<claimedBy, attemptCount, due, dlq, queueVars, workerVars, poll, runVars,
                 orphanVars, dbErrors>>

(* requeueJob: a concurrent request for the same job fails on the delete   *)
(* and rolls back, so check and write are one step.                        *)
SlipRequeue(j) ==                           \* the job keeps its status
  /\ j \in Requeueable \cap dlq
  /\ attemptCount' = [attemptCount EXCEPT ![j] = 0]
  /\ due' = [due EXCEPT ![j] = TRUE]
  /\ dlq' = dlq \ {j}
  /\ UNCHANGED <<status, claimedBy, queueVars, workerVars, poll, runVars, cancelling,
                 orphanVars, dbErrors>>

Requeue(j) ==
  /\ j \in Requeueable \cap dlq
  /\ status' = [status EXCEPT ![j] = "queued"]
  /\ attemptCount' = [attemptCount EXCEPT ![j] = 0]
  /\ due' = [due EXCEPT ![j] = TRUE]
  /\ dlq' = dlq \ {j}
  /\ UNCHANGED <<claimedBy, queueVars, workerVars, poll, runVars, cancelling, orphanVars,
                 dbErrors>>

-----------------------------------------------------------------------------
RunStep(r) ==
  \/ CreateExecution(r) \/ StartJob(r) \/ RunHandler(r)
  \/ Complete(r) \/ LoseOwnership(r) \/ CloseLost(r)
  \/ Retry(r) \/ DeadLetter(r) \/ FailureRejected(r) \/ Release(r)

PollStep(w) == PollStart(w) \/ PollBreak(w) \/ \E q \in Queues : ProcessQueue(w, q)

OrphanStep(s) == (\E w \in Workers : OrphanCheck(s, w)) \/ OrphanMark(s) \/ OrphanCommit(s)

Next ==
  \/ \E w \in Workers :
       \/ Register(w) \/ Heartbeat(w) \/ HeartbeatLapses(w) \/ Crash(w)
       \/ PollStep(w)
       \/ \E q \in Queues : ProcessQueueError(w, q)
  \/ \E r \in Runs : RunStep(r) \/ RunError(r)
  \/ \E s \in Detectors : OrphanList(s) \/ OrphanStep(s) \/ OrphanAbort(s)
  \/ \E q \in Queues, paused \in BOOLEAN : SetPaused(q, paused)
  \/ \E j \in Jobs : RunAtPasses(j) \/ CancelCheck(j) \/ CancelWrite(j) \/ Requeue(j)

Spec == Init /\ [][Next]_vars

(* setInterval keeps every live process polling, an await that is answered *)
(* continues, time passes, a process that died is not seen again, and some *)
(* live process is the leader sooner or later (scheduler.service.ts).      *)
Fairness ==
  /\ \A w \in Workers : /\ WF_vars(Register(w))
                        /\ WF_vars(PollStep(w))
                        /\ WF_vars(proc[w] = "down" /\ HeartbeatLapses(w))
  /\ \A r \in Runs : WF_vars(RunStep(r))
  /\ WF_vars(\E s \in Detectors : OrphanList(s))
  /\ \A s \in Detectors : WF_vars(OrphanStep(s))
  /\ \A j \in Jobs : WF_vars(RunAtPasses(j)) /\ WF_vars(CancelWrite(j))

FairSpec == Spec /\ Fairness

-----------------------------------------------------------------------------
(* Correctness.                                                            *)

(* Every variable has its type.                                            *)
TypeOK ==
  /\ status \in [Jobs -> JobStatus]
  /\ claimedBy \in [Jobs -> Workers \cup {None}]
  /\ attemptCount \in [Jobs -> Nat]
  /\ due \in [Jobs -> BOOLEAN]
  /\ dlq \subseteq Jobs
  /\ currentRunning \in [Queues -> Nat]
  /\ isPaused \in [Queues -> BOOLEAN]
  /\ workerStatus \in [Workers -> {"absent", "active", "offline"}]
  /\ stale \in [Workers -> BOOLEAN]
  /\ proc \in [Workers -> {"new", "up", "down"}]
  /\ poll \in [Workers -> SUBSET Queues]
  /\ claims \in [Jobs -> 0 .. MaxClaims]
  /\ pc \in [Runs -> RunState]
  /\ runner \in [Runs -> Workers \cup {None}]
  /\ attempt \in [Runs -> Nat]
  /\ row \in [Runs -> {"none", "running", "completed", "failed"}]
  /\ cancelling \subseteq Jobs
  /\ phase \in [Detectors -> {"idle", "listed", "checked", "marked"}]
  /\ suspects \in [Detectors -> SUBSET Workers]
  /\ target \in [Detectors -> Workers \cup {None}]
  /\ scan \in [Detectors -> [Jobs -> {"absent", "claimed", "running"}]]
  /\ scanAttempts \in [Detectors -> [Jobs -> Nat]]
  /\ dbErrors \in 0 .. MaxDbErrors

(* Whatever fails and whoever is suspected, a job that is shown as         *)
(* dead-letter has a row in the dead letter queue, so a user can requeue   *)
(* it (handleJobFailure and requeueJob change both together).              *)
DeadLetterHasEntry == \A j \in Jobs : status[j] = "dead-letter" => j \in dlq

(* Whatever fails and whoever is suspected, current_running stays within   *)
(* the limit of the queue: claims are serialised by the queue's row lock.  *)
SlotsWithinLimit == \A q \in Queues : currentRunning[q] \in 0 .. Limit[q]

(* A worker never runs more than concurrencyCapacity executions at once,   *)
(* however its claims and the ends of its executions interleave.           *)
LoadWithinCapacity == \A w \in Workers : Cardinality(LiveRuns(w)) <= Capacity

(* Whatever fails and whoever is suspected, a completed job has a completed*)
(* execution record to show for it, through every requeue and reclaim.     *)
CompletedHasRecord ==
  \A j \in Jobs : status[j] = "completed" =>
    \E r \in Runs : JobOf(r) = j /\ row[r] = "completed"

(* "Exactly one worker executes a job": a job never has two live           *)
(* executions, as long as no live worker is taken for dead.                *)
OneExecutor ==
  \A r1, r2 \in Runs : JobOf(r1) = JobOf(r2) /\ Live(r1) /\ Live(r2) => r1 = r2

(* The jobs of a queue that somebody works on, or will give back.          *)
Executing(j) == \E r \in Runs : JobOf(r) = j /\ Live(r)
BeingTaken(j) == \E s \in Detectors : scan[s][j] # "absent"
InWork(q) == {j \in Jobs : QueueOf[j] = q /\ (Active(j) \/ Executing(j) \/ BeingTaken(j))}

(* Every job that is claimed or running, that has a live execution, or that*)
(* a detector is about to requeue, has a slot of its queue.  So the limit  *)
(* of the queue bounds what really runs, crashes, failed requests and      *)
(* cancellations included.                                                 *)
SlotsCoverWork == \A q \in Queues : Cardinality(InWork(q)) <= currentRunning[q]

(* Why a job has one executor at most when no live worker is suspected.    *)
StaleIsDown == \A w \in Workers : stale[w] => proc[w] = "down"
SuspectsAreDown ==
  \A s \in Detectors :
    /\ \A w \in suspects[s] : proc[w] = "down"
    /\ phase[s] \in {"checked", "marked"} => target[s] \in Workers /\ proc[target[s]] = "down"
LiveHoldsJob ==
  \A r \in Runs : Live(r) =>
    /\ runner[r] \in Workers /\ proc[runner[r]] = "up"
    /\ status[JobOf(r)] \in {"claimed", "running", "cancelled"}
    /\ claimedBy[JobOf(r)] = runner[r]
ScanHoldsJob ==
  \A s \in Detectors, j \in Jobs : scan[s][j] # "absent" =>
    /\ phase[s] = "marked"
    /\ status[j] \in {"claimed", "running", "cancelled"}
    /\ claimedBy[j] = target[s]
OneMarker ==
  \A s1, s2 \in Detectors :
    phase[s1] = "marked" /\ phase[s2] = "marked" /\ target[s1] = target[s2] => s1 = s2
DeadIsIdle ==
  \A j \in dlq : status[j] \in {"dead-letter", "cancelled"} /\ ~Executing(j) /\ ~BeingTaken(j)

(* A live execution, or a detector that is about to requeue the job, is the*)
(* only one that holds it, through every path of executeJob, detectOrphans,*)
(* cancelJob and requeueJob: the invariant that makes OneExecutor hold.    *)
Exclusion ==
  /\ StaleIsDown /\ SuspectsAreDown /\ OneMarker
  /\ LiveHoldsJob /\ ScanHoldsJob /\ DeadIsIdle
  /\ OneExecutor

(* "A derived count, kept in sync transactionally": current_running is the *)
(* number of claimed and running jobs of the queue; no slot leaks.         *)
SlotsExact == \A q \in Queues : currentRunning[q] = Cardinality(ActiveIn(q))

(* "A derived count, kept in sync transactionally", said of a queue where  *)
(* nothing is under way any more: every slot that was taken was given back.*)
SlotsReturned == \A q \in Queues : InWork(q) = {} => currentRunning[q] = 0

(* The history of a job that nobody requeued by hand numbers each of its   *)
(* recorded attempts once.                                                 *)
AttemptsNumberedOnce ==
  \A r1, r2 \in Runs :
    /\ JobOf(r1) = JobOf(r2)
    /\ row[r1] # "none" /\ row[r2] # "none"
    /\ attempt[r1] = attempt[r2]
    => r1 = r2

(* A job is executing or executed only when what it depends on is, and     *)
(* stays, completed.                                                       *)
DependencyOrder ==
  \A j \in Jobs : (Active(j) \/ status[j] = "completed") =>
    \A d \in Deps[j] : status[d] = "completed"

(* A job is dead-lettered only after max_attempts executions of it failed: *)
(* giving back a claim or losing a worker does not use up its budget.      *)
RetryBudget ==
  \A j \in Jobs : status[j] = "dead-letter" =>
    Cardinality({r \in Runs : JobOf(r) = j /\ row[r] = "failed"}) >= MaxAttempts[j]

(* The lifecycle the documents draw, but for the move of a scheduled job   *)
(* to queued: a claim takes a due scheduled job as it is.                  *)
Edges ==
  ({"queued", "scheduled"} \X {"claimed", "cancelled"})
    \cup ({"claimed"} \X {"running", "queued"})
    \cup ({"running"} \X {"completed", "scheduled", "dead-letter", "queued"})
    \cup {<<"dead-letter", "queued">>}

(* No step takes a job along an edge the documented lifecycle lacks; in    *)
(* particular completed is final.                                          *)
LifecycleFollowed ==
  [][\A j \in Jobs : status'[j] # status[j] => <<status[j], status'[j]>> \in Edges]_vars

(* Every job is eventually completed or dead-lettered for good.            *)
EventuallySettles == <>[](\A j \in Jobs : status[j] \in {"completed", "dead-letter"})

(* A job held by a process that died does not stay with it.                *)
OrphansRecovered ==
  \A w \in Workers, j \in Jobs :
    (proc[w] = "down" /\ claimedBy[j] = w /\ Active(j)) ~> ~(claimedBy[j] = w /\ Active(j))

(* What the jobs look like on the abstract board, and the board's promise. *)
OnBoard(s) ==
  CASE s \in {"queued", "scheduled"} -> "waiting"
    [] s \in {"claimed", "running"} -> "held"
    [] s = "completed" -> "done"
    [] s = "dead-letter" -> "dead"
    [] s = "cancelled" -> "withdrawn"
BoardState == [j \in Jobs |-> OnBoard(status[j])]
Board == INSTANCE JobBoard WITH state <- BoardState
ImplementsBoard == Board!Spec
=============================================================================
