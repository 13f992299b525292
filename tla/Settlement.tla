----------------------------- MODULE Settlement -----------------------------
(***************************************************************************)
(* The transactions of JobLifecycle, statement by statement: which rows    *)
(* they lock in which order (job, queue, batch), and how the jobs of a     *)
(* batch count themselves in its row (worker.service.ts, detectOrphans of  *)
(* scheduler.service.ts).                                                  *)
(*                                                                         *)
(* One action is one statement.  A transaction's writes are applied when   *)
(* it commits; until then the rows it wrote or selected FOR UPDATE are     *)
(* locked, and a statement that needs a locked row waits.  A plain SELECT  *)
(* neither waits nor locks.  `claimed' and `running', and `queued' and     *)
(* `scheduled', are one status here.                                       *)
(***************************************************************************)
EXTENDS Integers, FiniteSets

CONSTANTS
  Jobs,           \* the jobs of one batch, those included that joined it by batch_id
  TotalJobs,      \* batches.total_jobs: how many createBatch was given
  Queues, Workers,
  Detectors,      \* processes that look for orphans
  QueueOf,        \* jobs.queue_id
  Limit,          \* concurrency_limit of each queue
  MaxAttempts,    \* max_attempts of every job
  FailJobs,       \* jobs whose handler throws
  Crashable,      \* workers that may stop
  Lapsing,        \* workers whose heartbeat may stop while they run
  MaxErrors,      \* bound: transactions that fail for no reason of theirs
  None

Runs   == Workers \X Jobs        \* the executions, each with its transaction
RowIds == Jobs \cup Queues \cup Workers

ASSUME SettlementAssumption ==
  /\ QueueOf \in [Jobs -> Queues] /\ Limit \in [Queues -> Nat]
  /\ MaxAttempts \in Nat \ {0} /\ MaxErrors \in Nat
  /\ FailJobs \subseteq Jobs /\ Crashable \cup Lapsing \subseteq Workers
  /\ IsFiniteSet(Jobs) /\ TotalJobs \in Nat
  \* a row is of one table, and a transaction of one process
  /\ Jobs \cap Queues = {} /\ (Jobs \cup Queues) \cap Workers = {}
  /\ Runs \cap (Workers \cup Detectors) = {} /\ Workers \cap Detectors = {}
  /\ None \notin Queues \cup Workers \cup Detectors \cup Runs

VARIABLES
  status, claimedBy, attempts,      \* of each job
  currentRunning,                   \* of each queue
  completedJobs, failedJobs, batchStatus,
  lock,           \* the transaction that has each job, queue or worker row locked
  alive, offline, \* workers: the process, and workers.status
  run,            \* where the execution <<w, j>> has got to in its transaction
  outcome,        \* whether it is to be settled as a success or a failure
  seen,           \* the row of the batch as it read it
  claiming,       \* the queue each worker's claim transaction has locked
  target,         \* the worker a detector's transaction is about
  todo,           \* jobs its findMany returned and it has not written yet
  taken,          \* jobs it has written
  errors

jobVars   == <<status, claimedBy, attempts, currentRunning>>
batchVars == <<completedJobs, failedJobs, batchStatus>>
runVars   == <<run, outcome, seen>>
orphanVars == <<target, todo, taken>>
vars == <<jobVars, batchVars, lock, alive, offline, runVars, claiming, orphanVars, errors>>

JobOf(e) == e[2]
QueueOfRun(e) == QueueOf[JobOf(e)]

Init ==
  /\ status = [j \in Jobs |-> "queued"]
  /\ claimedBy = [j \in Jobs |-> None] /\ attempts = [j \in Jobs |-> 0]
  /\ currentRunning = [q \in Queues |-> 0]
  /\ completedJobs = 0 /\ failedJobs = 0 /\ batchStatus = "pending"
  /\ lock = [x \in RowIds |-> None]
  /\ alive = [w \in Workers |-> TRUE] /\ offline = [w \in Workers |-> FALSE]
  /\ run = [e \in Runs |-> "none"] /\ outcome = [e \in Runs |-> "ok"]
  /\ seen = [e \in Runs |-> <<0, 0, "pending">>]
  /\ claiming = [w \in Workers |-> None]
  /\ target = [d \in Detectors |-> None]
  /\ todo = [d \in Detectors |-> {}] /\ taken = [d \in Detectors |-> {}]
  /\ errors = 0

-----------------------------------------------------------------------------
Free(x)       == lock[x] = None
Lock(x, t)    == lock' = [lock EXCEPT ![x] = t]
ReleaseAll(T) == lock' = [x \in RowIds |-> IF lock[x] \in T THEN None ELSE lock[x]]

(* processQueue: SELECT ... FROM queues ... FOR UPDATE.                    *)
ClaimLock(w, q) ==
  /\ alive[w] /\ claiming[w] = None
  /\ Free(q) /\ Lock(q, w)
  /\ claiming' = [claiming EXCEPT ![w] = q]
  /\ UNCHANGED <<jobVars, batchVars, alive, offline, runVars, orphanVars, errors>>

(* FOR UPDATE SKIP LOCKED; run[<<w, j>>] = "none" bounds a worker to one   *)
(* execution of a job at a time.                                           *)
Eligible(w) ==
  {j \in Jobs : QueueOf[j] = claiming[w] /\ status[j] = "queued" /\ Free(j)
                /\ run[<<w, j>>] = "none"}

ClaimCommit(w) ==
  LET q == claiming[w] IN
  /\ q # None
  /\ \E S \in SUBSET Eligible(w) :
       /\ Cardinality(S) <= Limit[q] - currentRunning[q] \/ S = {}
       /\ status' = [j \in Jobs |-> IF j \in S THEN "running" ELSE status[j]]
       /\ claimedBy' = [j \in Jobs |-> IF j \in S THEN w ELSE claimedBy[j]]
       /\ attempts' = [j \in Jobs |-> IF j \in S THEN attempts[j] + 1 ELSE attempts[j]]
       /\ currentRunning' = [currentRunning EXCEPT ![q] = @ + Cardinality(S)]
       /\ run' = [e \in Runs |-> IF e[1] = w /\ e[2] \in S THEN "running" ELSE run[e]]
       /\ outcome' = [e \in Runs |->
            IF e[1] = w /\ e[2] \in S THEN IF e[2] \in FailJobs THEN "fail" ELSE "ok"
            ELSE outcome[e]]
  /\ claiming' = [claiming EXCEPT ![w] = None]
  /\ ReleaseAll({w})
  /\ UNCHANGED <<batchVars, alive, offline, seen, orphanVars, errors>>

-----------------------------------------------------------------------------
(* The transactions at the end of an attempt, which begin alike.           *)

At(e, s) == run' = [run EXCEPT ![e] = s]

Owns(e) == claimedBy[JobOf(e)] = e[1] /\ status[JobOf(e)] = "running"

(* updateMany of the job, under the condition of ownership.                *)
SettleJob(e) ==
  /\ run[e] = "running" /\ Free(JobOf(e))
  /\ IF Owns(e) THEN Lock(JobOf(e), e) /\ At(e, "job")
                ELSE UNCHANGED lock /\ At(e, "none")
  /\ UNCHANGED <<jobVars, batchVars, alive, offline, outcome, seen, claiming, orphanVars, errors>>

SlipSettleQueue(e) ==                \* the slot is given back outside the transaction
  /\ run[e] = "job" /\ Free(QueueOfRun(e)) /\ At(e, "queue")
  /\ UNCHANGED <<jobVars, batchVars, lock, alive, offline, outcome, seen, claiming, orphanVars, errors>>
SettleQueue(e) ==
  /\ run[e] = "job" /\ Free(QueueOfRun(e))
  /\ Lock(QueueOfRun(e), e) /\ At(e, "queue")
  /\ UNCHANGED <<jobVars, batchVars, alive, offline, outcome, seen, claiming, orphanVars, errors>>

Retries(e) == outcome[e] = "fail" /\ attempts[JobOf(e)] < MaxAttempts

(* tx.batch.findUnique: a plain read, after which only the row of the queue*)
(* keeps the other settlements of that queue away.                         *)
ReadBatch(e) ==
  /\ run[e] = "queue" /\ ~Retries(e) /\ At(e, "batch")
  /\ seen' = [seen EXCEPT ![e] = <<completedJobs, failedJobs, batchStatus>>]
  /\ UNCHANGED <<jobVars, batchVars, lock, alive, offline, outcome, claiming, orphanVars, errors>>

SlipGiveBack(n, k) == n - 2 * k                  \* by the statement and by a finally block
GiveBack(n, k)     == IF n > k THEN n - k ELSE 0   \* GREATEST(0, n - k)

EndAttempt(e, to) ==
  LET j == JobOf(e) IN
  /\ status' = [status EXCEPT ![j] = to]
  /\ claimedBy' = [claimedBy EXCEPT ![j] = IF to = "completed" THEN @ ELSE None]
  /\ currentRunning' = [currentRunning EXCEPT ![QueueOf[j]] = GiveBack(@, 1)]
  /\ ReleaseAll({e}) /\ At(e, "none")
  /\ UNCHANGED <<attempts, alive, offline, outcome, seen, claiming, orphanVars, errors>>

Retry(e) ==
  /\ run[e] = "queue" /\ Retries(e)
  /\ EndAttempt(e, "queued")
  /\ UNCHANGED batchVars

SlipFinished(c, f) == c + f > TotalJobs
Finished(c, f)     == c + f >= TotalJobs

(* tx.batch.update with the row computed from what was read.               *)
CompleteCounted(e) ==
  LET c == seen[e][1] + 1  f == seen[e][2] IN
  /\ run[e] = "batch" /\ outcome[e] = "ok"
  /\ completedJobs' = c
  /\ batchStatus' = IF Finished(c, f) THEN IF f > 0 THEN "failed" ELSE "completed" ELSE seen[e][3]
  /\ EndAttempt(e, "completed")
  /\ UNCHANGED failedJobs

DeadLetterCounted(e) ==
  LET c == seen[e][1]  f == seen[e][2] + 1 IN
  /\ run[e] = "batch" /\ outcome[e] = "fail"
  /\ failedJobs' = f
  /\ batchStatus' = IF Finished(c, f) THEN "failed" ELSE seen[e][3]
  /\ EndAttempt(e, "dead-letter")
  /\ UNCHANGED completedJobs

(* A transaction is rolled back.  That of a success is followed by the     *)
(* failure's; that of a failure is not tried again.                        *)
SettleAborts(e) ==
  /\ run[e] \in {"job", "queue", "batch"}
  /\ errors < MaxErrors /\ errors' = errors + 1
  /\ ReleaseAll({e})
  /\ At(e, IF outcome[e] = "ok" THEN "running" ELSE "none")
  /\ outcome' = [outcome EXCEPT ![e] = "fail"]
  /\ UNCHANGED <<jobVars, batchVars, alive, offline, seen, claiming, orphanVars>>

Crash(w) ==
  /\ alive[w] /\ w \in Crashable
  /\ alive' = [alive EXCEPT ![w] = FALSE]
  /\ run' = [e \in Runs |-> IF e[1] = w THEN "none" ELSE run[e]]
  /\ claiming' = [claiming EXCEPT ![w] = None]
  /\ ReleaseAll({w} \cup ({w} \X Jobs))
  /\ UNCHANGED <<jobVars, batchVars, offline, outcome, seen, orphanVars, errors>>

-----------------------------------------------------------------------------
(* detectOrphans, one transaction per dead worker.                         *)

SlipSuspects == {w \in Workers : ~offline[w]}
Suspects     == {w \in Workers : ~offline[w] /\ (~alive[w] \/ w \in Lapsing)}

(* The transaction looks at workers.status once more, without a lock.      *)
OrphanBegin(d, w) ==
  /\ target[d] = None /\ w \in Suspects
  /\ target' = [target EXCEPT ![d] = w]
  /\ UNCHANGED <<jobVars, batchVars, lock, alive, offline, runVars, claiming, todo, taken, errors>>

Marked(d) == target[d] # None /\ lock[target[d]] = d

(* worker.update, then the unlocked findMany.                              *)
OrphanMark(d) ==
  LET w == target[d] IN
  /\ w # None /\ Free(w) /\ Lock(w, d)
  /\ todo' = [todo EXCEPT ![d] = {j \in Jobs : claimedBy[j] = w /\ status[j] = "running"}]
  /\ UNCHANGED <<jobVars, batchVars, alive, offline, runVars, claiming, target, taken, errors>>

OrphanJob(d, j) ==
  /\ j \in todo[d]
  /\ \A x \in taken[d] : lock[QueueOf[x]] = d
  /\ Free(j) /\ Lock(j, d)
  /\ todo' = [todo EXCEPT ![d] = @ \ {j}]
  /\ taken' = [taken EXCEPT ![d] = @ \cup {j}]
  /\ UNCHANGED <<jobVars, batchVars, alive, offline, runVars, claiming, target, errors>>

OrphanQueue(d, j) ==
  /\ j \in taken[d] /\ Free(QueueOf[j])
  /\ Lock(QueueOf[j], d)
  /\ UNCHANGED <<jobVars, batchVars, alive, offline, runVars, claiming, orphanVars, errors>>

EndPass(d) ==
  /\ target' = [target EXCEPT ![d] = None]
  /\ todo' = [todo EXCEPT ![d] = {}] /\ taken' = [taken EXCEPT ![d] = {}]
  /\ ReleaseAll({d})
  /\ UNCHANGED <<attempts, batchVars, alive, runVars, claiming>>

OrphanCommit(d) ==
  /\ Marked(d) /\ todo[d] = {}
  /\ \A x \in taken[d] : lock[QueueOf[x]] = d
  /\ status' = [j \in Jobs |-> IF j \in taken[d] THEN "queued" ELSE status[j]]
  /\ claimedBy' = [j \in Jobs |-> IF j \in taken[d] THEN None ELSE claimedBy[j]]
  /\ currentRunning' = [q \in Queues |->
       GiveBack(currentRunning[q], Cardinality({j \in taken[d] : QueueOf[j] = q}))]
  /\ offline' = [offline EXCEPT ![target[d]] = TRUE]
  /\ EndPass(d)
  /\ UNCHANGED errors

OrphanAborts(d) ==
  /\ target[d] # None
  /\ errors < MaxErrors /\ errors' = errors + 1
  /\ EndPass(d)
  /\ UNCHANGED <<status, claimedBy, currentRunning, offline>>

-----------------------------------------------------------------------------
SettleStep(e) ==
  SettleJob(e) \/ SettleQueue(e) \/ ReadBatch(e) \/ Retry(e)
    \/ CompleteCounted(e) \/ DeadLetterCounted(e)
ClaimStep(w) == (\E q \in Queues : ClaimLock(w, q)) \/ ClaimCommit(w)
OrphanStep(d) ==
  \/ OrphanMark(d) \/ \E w \in Workers : OrphanBegin(d, w)
  \/ \E j \in Jobs : OrphanJob(d, j) \/ OrphanQueue(d, j)
  \/ OrphanCommit(d)

Next ==
  \/ \E w \in Workers : ClaimStep(w) \/ Crash(w)
  \/ \E e \in Runs : SettleStep(e) \/ SettleAborts(e)
  \/ \E d \in Detectors : OrphanStep(d) \/ OrphanAborts(d)

Spec == Init /\ [][Next]_vars

(* A statement that can run does, polls recur (every 5 s) and in the end   *)
(* take what they may, and a row's lock is granted to those that wait.     *)
Fairness ==
  /\ \A w \in Workers : /\ \A q \in Queues : SF_vars(ClaimLock(w, q))
                        /\ WF_vars(ClaimCommit(w))
                        /\ SF_vars(ClaimCommit(w) /\ \E j \in Jobs : status'[j] # status[j])
  /\ \A e \in Runs : SF_vars(SettleStep(e))
  /\ \A d \in Detectors : SF_vars(OrphanStep(d))

FairSpec == Spec /\ Fairness

-----------------------------------------------------------------------------
(* Correctness.                                                            *)

(* Every variable has its type.                                            *)
TypeOK ==
  /\ status \in [Jobs -> {"queued", "running", "completed", "dead-letter"}]
  /\ claimedBy \in [Jobs -> Workers \cup {None}] /\ attempts \in [Jobs -> Nat]
  /\ currentRunning \in [Queues -> Nat]
  /\ completedJobs \in Nat /\ failedJobs \in Nat
  /\ batchStatus \in {"pending", "completed", "failed"}
  /\ lock \in [RowIds -> Runs \cup Workers \cup Detectors \cup {None}]
  /\ alive \in [Workers -> BOOLEAN] /\ offline \in [Workers -> BOOLEAN]
  /\ run \in [Runs -> {"none", "running", "job", "queue", "batch"}]
  /\ outcome \in [Runs -> {"ok", "fail"}]
  /\ seen \in [Runs -> Nat \X Nat \X {"pending", "completed", "failed"}]
  /\ claiming \in [Workers -> Queues \cup {None}]
  /\ target \in [Detectors -> Workers \cup {None}]
  /\ todo \in [Detectors -> SUBSET Jobs] /\ taken \in [Detectors -> SUBSET Jobs]
  /\ errors \in 0 .. MaxErrors

Ended(s) == Cardinality({j \in Jobs : status[j] = s})
EndedAll == Ended("completed") + Ended("dead-letter")

(* Where all the jobs are in one queue, whose row serialises the readers,  *)
(* every one that has ended is counted, and once as many have ended as     *)
(* createBatch was given, joined ones among them, the status says how.     *)
OneQueue == \A j, k \in Jobs : QueueOf[j] = QueueOf[k]
Exact ==
  /\ completedJobs = Ended("completed") /\ failedJobs = Ended("dead-letter")
  /\ batchStatus = IF EndedAll = 0 \/ EndedAll < TotalJobs THEN "pending"
                   ELSE IF failedJobs > 0 THEN "failed" ELSE "completed"

(* "expose aggregate batch progress": although the row of the batch is read*)
(* without a lock and written back, it never tells of more than happened,  *)
(* in however many queues the jobs that joined the batch are, and in one   *)
(* queue it tells all of it.  In several an update may be lost.            *)
BatchTellsTruth ==
  /\ completedJobs <= Ended("completed") /\ failedJobs <= Ended("dead-letter")
  /\ batchStatus # "pending" => TotalJobs <= EndedAll
  /\ OneQueue => Exact

(* Who waits for whom, and whether somebody waits for himself.             *)
Wants(t) ==
  IF t \in Runs THEN CASE run[t] = "running" -> {JobOf(t)}
                       [] run[t] = "job"     -> {QueueOfRun(t)}
                       [] OTHER              -> {}
  ELSE IF target[t] # None /\ ~Marked(t) THEN {target[t]}
  ELSE LET open == {y \in taken[t] : lock[QueueOf[y]] # t}
       IN  IF open # {} THEN {QueueOf[y] : y \in open} ELSE todo[t]
Stuck(T) == \A s \in T : Wants(s) # {} /\ \A x \in Wants(s) : lock[x] \in T

(* No set of transactions waits for one another for ever, as long as only  *)
(* dead workers are taken for dead and one process looks for them: only    *)
(* then do jobs and queues never get locked in both orders.                *)
NoDeadlock == \A T \in (SUBSET (Runs \cup Detectors)) \ {{}} : ~Stuck(T)

(* A failure that could not be recorded leaves its job running on a live   *)
(* worker that has forgotten it.                                           *)
Forgotten(j) ==
  status[j] = "running" /\ claimedBy[j] # None
    /\ alive[claimedBy[j]] /\ run[<<claimedBy[j], j>>] = "none"

(* Through retries, crashes and aborted transactions every job of the batch*)
(* comes to be counted, and the batch ends and stays ended, unless a       *)
(* failure could not be recorded.  (Of jobs in several queues an update may*)
(* be lost, and with it the end.)                                          *)
BatchEnds ==
  <>[](\/ batchStatus # "pending" /\ completedJobs + failedJobs = Cardinality(Jobs)
       \/ \E j \in Jobs : Forgotten(j))
=============================================================================
