--------------------------- MODULE SettlementProofs ---------------------------
(***************************************************************************)
(* The invariants of Settlement, for any number of jobs, queues, workers   *)
(* and detectors, any crashes and any number of aborted transactions.      *)
(*                                                                         *)
(* What a transaction knows of a row it has locked stays true, for nobody  *)
(* else can write that row; and a detector may rely on the rows it has not *)
(* locked yet because the worker that could write them is dead.            *)
(***************************************************************************)
EXTENDS Settlement, FiniteSetTheorems, TLAPS

(* A settlement past its first statement has locked its job, which is still*)
(* its own, and from its second on the job's queue.                        *)
Held ==
  \A e \in Runs : run[e] \in {"job", "queue", "batch"} =>
    /\ lock[JobOf(e)] = e /\ Owns(e)
    /\ run[e] # "job" => lock[QueueOfRun(e)] = e

DeadRunNothing ==
  \A w \in Workers : ~alive[w] => claiming[w] = None /\ \A j \in Jobs : run[<<w, j>>] = "none"

(* A detector's transaction is about a dead worker, and what it has read of*)
(* this worker's jobs remains so.                                          *)
Passes ==
  \A d \in Detectors :
    /\ target[d] # None => ~alive[target[d]]
    /\ todo[d] \cap taken[d] = {}
    /\ todo[d] \cup taken[d] # {} => target[d] # None /\ lock[target[d]] = d
    /\ \A j \in todo[d] \cup taken[d] : claimedBy[j] = target[d] /\ status[j] = "running"
    /\ \A j \in taken[d] : lock[j] = d

(* Who may have a row of each table locked.                                *)
Holders ==
  /\ \A j \in Jobs :
       \/ lock[j] = None
       \/ lock[j] \in Runs /\ run[lock[j]] \in {"job", "queue", "batch"} /\ JobOf(lock[j]) = j
       \/ lock[j] \in Detectors /\ j \in taken[lock[j]]
  /\ \A q \in Queues :
       \/ lock[q] = None
       \/ lock[q] \in Workers
       \/ lock[q] \in Runs /\ run[lock[q]] \in {"queue", "batch"}
       \/ lock[q] \in Detectors /\ \E j \in taken[lock[q]] : QueueOf[j] = q
  /\ \A w \in Workers :
       \/ lock[w] = None
       \/ lock[w] \in Detectors /\ target[lock[w]] = w

(* What a settlement has read of the batch may be old, but it was true.    *)
ReadsWereTrue ==
  \A e \in Runs : run[e] = "batch" =>
    /\ seen[e][1] <= Ended("completed") /\ seen[e][2] <= Ended("dead-letter")
    /\ seen[e][3] # "pending" => TotalJobs <= EndedAll

(* In one queue, whose lock the reader keeps, the row does not change      *)
(* between the read and the write.                                         *)
ReadsAreCurrent ==
  \A e \in Runs : run[e] = "batch" => seen[e] = <<completedJobs, failedJobs, batchStatus>>

NeverAhead ==
  /\ completedJobs <= Ended("completed") /\ failedJobs <= Ended("dead-letter")
  /\ batchStatus # "pending" => TotalJobs <= EndedAll

OneDetector == \A c, d \in Detectors : c = d

-----------------------------------------------------------------------------
(* Type correctness.                                                       *)

LEMMA RowFacts ==
  /\ \A e \in Runs : JobOf(e) \in Jobs /\ QueueOfRun(e) \in Queues /\ e[1] \in Workers /\ e = <<e[1], JobOf(e)>>
  /\ \A w \in Workers, j \in Jobs : <<w, j>> \in Runs
  /\ \A j \in Jobs : QueueOf[j] \in Queues
  BY SettlementAssumption DEF Runs, JobOf, QueueOfRun

LEMMA GiveBackNat == ASSUME NEW n \in Nat, NEW k \in Nat PROVE GiveBack(n, k) \in Nat
  BY DEF GiveBack

LEMMA JobsCounted == \A S \in SUBSET Jobs : IsFiniteSet(S) /\ Cardinality(S) \in Nat
  BY SettlementAssumption, FS_Subset, FS_CardinalityType

LEMMA InitType == Init => TypeOK
  BY SettlementAssumption DEF Init, TypeOK

LEMMA ReleaseType ==
  ASSUME TypeOK, NEW T, ReleaseAll(T)
  PROVE  lock' \in [RowIds -> Runs \cup Workers \cup Detectors \cup {None}]
  BY DEF TypeOK, ReleaseAll

LEMMA EndAttemptType ==
  ASSUME TypeOK, NEW e \in Runs, NEW to \in {"queued", "completed", "dead-letter"}, EndAttempt(e, to),
         completedJobs' \in Nat, failedJobs' \in Nat, batchStatus' \in {"pending", "completed", "failed"}
  PROVE  TypeOK'
  <1>1. lock' \in [RowIds -> Runs \cup Workers \cup Detectors \cup {None}]
    BY ReleaseType DEF EndAttempt
  <1>2. currentRunning' \in [Queues -> Nat]
    BY GiveBackNat, RowFacts DEF EndAttempt, TypeOK
  <1>3. status' \in [Jobs -> {"queued", "running", "completed", "dead-letter"}]
        /\ claimedBy' \in [Jobs -> Workers \cup {None}]
    BY RowFacts DEF EndAttempt, TypeOK
  <1>4. run' \in [Runs -> {"none", "running", "job", "queue", "batch"}]
    BY DEF EndAttempt, At, TypeOK
  <1>5. UNCHANGED <<attempts, alive, offline, outcome, seen, claiming, target, todo, taken, errors>>
    BY DEF EndAttempt, orphanVars
  <1> QED
    BY <1>1, <1>2, <1>3, <1>4, <1>5 DEF TypeOK

LEMMA TypeStep == TypeOK /\ [Next]_vars => TypeOK'
  <1> SUFFICES ASSUME TypeOK, [Next]_vars PROVE TypeOK'
    OBVIOUS
  <1> USE SettlementAssumption, RowFacts
  <1>1. ASSUME NEW w \in Workers, NEW q \in Queues, ClaimLock(w, q) PROVE TypeOK'
    BY <1>1 DEF ClaimLock, Lock, TypeOK, RowIds, jobVars, batchVars, runVars, orphanVars
  <1>2. ASSUME NEW w \in Workers, ClaimCommit(w) PROVE TypeOK'
    <2>1. claiming[w] \in Queues
      BY <1>2 DEF ClaimCommit, TypeOK
    <2>2. lock' \in [RowIds -> Runs \cup Workers \cup Detectors \cup {None}]
      BY <1>2, ReleaseType DEF ClaimCommit
    <2>3. PICK S \in SUBSET Eligible(w) :
            /\ status' = [j \in Jobs |-> IF j \in S THEN "running" ELSE status[j]]
            /\ claimedBy' = [j \in Jobs |-> IF j \in S THEN w ELSE claimedBy[j]]
            /\ attempts' = [j \in Jobs |-> IF j \in S THEN attempts[j] + 1 ELSE attempts[j]]
            /\ currentRunning' = [currentRunning EXCEPT ![claiming[w]] = @ + Cardinality(S)]
            /\ run' = [e \in Runs |-> IF e[1] = w /\ e[2] \in S THEN "running" ELSE run[e]]
            /\ outcome' = [e \in Runs |->
                 IF e[1] = w /\ e[2] \in S THEN IF e[2] \in FailJobs THEN "fail" ELSE "ok"
                 ELSE outcome[e]]
      BY <1>2 DEF ClaimCommit
    <2>4. Cardinality(S) \in Nat
      BY JobsCounted DEF Eligible
    <2>5. currentRunning' \in [Queues -> Nat]
      BY <2>1, <2>3, <2>4 DEF TypeOK
    <2>6. /\ status' \in [Jobs -> {"queued", "running", "completed", "dead-letter"}]
          /\ claimedBy' \in [Jobs -> Workers \cup {None}] /\ attempts' \in [Jobs -> Nat]
      BY <2>3 DEF TypeOK
    <2>7. /\ run' \in [Runs -> {"none", "running", "job", "queue", "batch"}]
          /\ outcome' \in [Runs -> {"ok", "fail"}]
      BY <2>3 DEF TypeOK
    <2> QED
      BY <1>2, <2>2, <2>5, <2>6, <2>7 DEF ClaimCommit, TypeOK, batchVars, orphanVars
  <1>3. ASSUME NEW e \in Runs, SettleJob(e) \/ SettleQueue(e) \/ ReadBatch(e) PROVE TypeOK'
    <2>1. CASE SettleJob(e)
      <3>a. /\ run' \in {[run EXCEPT ![e] = "job"], [run EXCEPT ![e] = "none"]}
            /\ lock' \in {[lock EXCEPT ![JobOf(e)] = e], lock}
        BY <2>1 DEF SettleJob, At, Lock
      <3>1. run' \in [Runs -> {"none", "running", "job", "queue", "batch"}]
        <4>1. run \in [Runs -> {"none", "running", "job", "queue", "batch"}]
          BY DEF TypeOK
        <4> QED
          BY <3>a, <4>1
      <3>2. lock' \in [RowIds -> Runs \cup Workers \cup Detectors \cup {None}]
        <4>1. [lock EXCEPT ![JobOf(e)] = e] \in [RowIds -> Runs \cup Workers \cup Detectors \cup {None}]
          BY DEF TypeOK, RowIds
        <4> QED
          BY <3>a, <4>1 DEF TypeOK
      <3> QED
        BY <2>1, <3>1, <3>2 DEF SettleJob, TypeOK, jobVars, batchVars, orphanVars
    <2>2. CASE SettleQueue(e)
      BY <2>2 DEF SettleQueue, Lock, At, TypeOK, RowIds, jobVars, batchVars, orphanVars
    <2>3. CASE ReadBatch(e)
      BY <2>3 DEF ReadBatch, At, TypeOK, jobVars, batchVars, orphanVars
    <2> QED
      BY <1>3, <2>1, <2>2, <2>3
  <1>4. ASSUME NEW e \in Runs, Retry(e) PROVE TypeOK'
    BY <1>4, EndAttemptType DEF Retry, batchVars, TypeOK
  <1>5. ASSUME NEW e \in Runs, CompleteCounted(e) \/ DeadLetterCounted(e) PROVE TypeOK'
    <2>1. /\ seen[e] \in Nat \X Nat \X {"pending", "completed", "failed"}
          /\ completedJobs \in Nat /\ failedJobs \in Nat
          /\ batchStatus \in {"pending", "completed", "failed"}
      BY DEF TypeOK
    <2>2. CASE CompleteCounted(e)
      BY <2>1, <2>2, EndAttemptType DEF CompleteCounted
    <2>3. CASE DeadLetterCounted(e)
      BY <2>1, <2>3, EndAttemptType DEF DeadLetterCounted
    <2> QED
      BY <1>5, <2>2, <2>3
  <1>6. ASSUME NEW e \in Runs, SettleAborts(e) PROVE TypeOK'
    <2>1. lock' \in [RowIds -> Runs \cup Workers \cup Detectors \cup {None}]
      BY <1>6, ReleaseType DEF SettleAborts
    <2> QED
      BY <1>6, <2>1 DEF SettleAborts, At, TypeOK, jobVars, batchVars, orphanVars
  <1>7. ASSUME NEW w \in Workers, Crash(w) PROVE TypeOK'
    <2>1. lock' \in [RowIds -> Runs \cup Workers \cup Detectors \cup {None}]
      BY <1>7, ReleaseType DEF Crash
    <2> QED
      BY <1>7, <2>1 DEF Crash, TypeOK, jobVars, batchVars, orphanVars
  <1>8. ASSUME NEW d \in Detectors, NEW w \in Workers, OrphanBegin(d, w) PROVE TypeOK'
    BY <1>8 DEF OrphanBegin, TypeOK, jobVars, batchVars, runVars
  <1>9. ASSUME NEW d \in Detectors, OrphanMark(d) PROVE TypeOK'
    BY <1>9 DEF OrphanMark, Lock, TypeOK, RowIds, jobVars, batchVars, runVars
  <1>10. ASSUME NEW d \in Detectors, NEW j \in Jobs, OrphanJob(d, j) \/ OrphanQueue(d, j) PROVE TypeOK'
    <2>1. CASE OrphanJob(d, j)
      BY <2>1 DEF OrphanJob, Lock, TypeOK, RowIds, jobVars, batchVars, runVars
    <2>2. CASE OrphanQueue(d, j)
      BY <2>2 DEF OrphanQueue, Lock, TypeOK, RowIds, jobVars, batchVars, runVars, orphanVars
    <2> QED
      BY <1>10, <2>1, <2>2
  <1>11. ASSUME NEW d \in Detectors, EndPass(d), currentRunning' \in [Queues -> Nat],
                status' \in [Jobs -> {"queued", "running", "completed", "dead-letter"}],
                claimedBy' \in [Jobs -> Workers \cup {None}],
                offline' \in [Workers -> BOOLEAN], errors' \in 0 .. MaxErrors
         PROVE  TypeOK'
    <2>1. lock' \in [RowIds -> Runs \cup Workers \cup Detectors \cup {None}]
      BY <1>11, ReleaseType DEF EndPass
    <2> QED
      BY <1>11, <2>1 DEF EndPass, TypeOK, batchVars, runVars
  <1>12. ASSUME NEW d \in Detectors, OrphanCommit(d) PROVE TypeOK'
    <2>1. \A q \in Queues : Cardinality({j \in taken[d] : QueueOf[j] = q}) \in Nat
      BY JobsCounted DEF TypeOK
    <2>2. currentRunning' \in [Queues -> Nat]
      BY <1>12, <2>1, GiveBackNat DEF OrphanCommit, TypeOK
    <2> QED
      BY <1>12, <1>11, <2>2 DEF OrphanCommit, TypeOK
  <1>13. ASSUME NEW d \in Detectors, OrphanAborts(d) PROVE TypeOK'
    <2>1. errors' \in 0 .. MaxErrors
      BY <1>13 DEF OrphanAborts, TypeOK
    <2>2. EndPass(d) /\ UNCHANGED <<status, claimedBy, currentRunning, offline>>
      BY <1>13 DEF OrphanAborts
    <2> QED
      BY <1>11, <2>1, <2>2 DEF TypeOK
  <1>14. ASSUME UNCHANGED vars PROVE TypeOK'
    BY <1>14 DEF vars, jobVars, batchVars, runVars, orphanVars, TypeOK
  <1> QED
    BY <1>1, <1>2, <1>3, <1>4, <1>5, <1>6, <1>7, <1>8, <1>9, <1>10, <1>12, <1>13, <1>14
    DEF Next, ClaimStep, SettleStep, OrphanStep
THEOREM TypeCorrect == Spec => []TypeOK
  BY InitType, TypeStep, PTL DEF Spec

-----------------------------------------------------------------------------
(* What the locks protect.                                                 *)

Locked == Held /\ DeadRunNothing /\ Passes /\ Holders

LEMMA InitLocked == Init => Locked
  BY SettlementAssumption, RowFacts DEF Init, Locked, Held, DeadRunNothing, Passes, Holders, RowIds

LEMMA HeldStep == Lapsing = {} /\ TypeOK /\ Locked /\ [Next]_vars => Held'
  <1> SUFFICES ASSUME Lapsing = {}, TypeOK, Held, Passes, [Next]_vars PROVE Held'
    BY DEF Locked
  <1> USE SettlementAssumption, RowFacts DEF Owns
  <1>1. ASSUME NEW w \in Workers, NEW q \in Queues, ClaimLock(w, q) PROVE Held'
    BY <1>1 DEF ClaimLock, Free, Lock, Held, TypeOK, RowIds, jobVars, runVars
  <1>2. ASSUME NEW w \in Workers, ClaimCommit(w) PROVE Held'
    <2>1. PICK S \in SUBSET Eligible(w) :
            /\ status' = [j \in Jobs |-> IF j \in S THEN "running" ELSE status[j]]
            /\ claimedBy' = [j \in Jobs |-> IF j \in S THEN w ELSE claimedBy[j]]
            /\ run' = [e \in Runs |-> IF e[1] = w /\ e[2] \in S THEN "running" ELSE run[e]]
      BY <1>2 DEF ClaimCommit
    <2>2. \A e \in Runs : lock[JobOf(e)] = e => lock'[JobOf(e)] = e
      BY <1>2 DEF ClaimCommit, ReleaseAll, RowIds
    <2>3. \A e \in Runs : lock[QueueOfRun(e)] = e => lock'[QueueOfRun(e)] = e
      BY <1>2 DEF ClaimCommit, ReleaseAll, RowIds
    <2>4. \A j \in S : j \in Jobs /\ status[j] = "queued"
      BY DEF Eligible
    <2> QED
      BY <2>1, <2>2, <2>3, <2>4 DEF Held, TypeOK
  <1>3. ASSUME NEW e \in Runs, SettleJob(e) PROVE Held'
    BY <1>3 DEF SettleJob, Free, Lock, At, Held, TypeOK, RowIds, jobVars
  <1>4. ASSUME NEW e \in Runs, SettleQueue(e) PROVE Held'
    BY <1>4 DEF SettleQueue, Free, Lock, At, Held, TypeOK, RowIds, jobVars
  <1>5. ASSUME NEW e \in Runs, ReadBatch(e) PROVE Held'
    BY <1>5 DEF ReadBatch, At, Held, TypeOK, RowIds, jobVars
  <1>6. ASSUME NEW e \in Runs, NEW to, EndAttempt(e, to), run[e] \in {"queue", "batch"} PROVE Held'
    BY <1>6 DEF EndAttempt, ReleaseAll, At, Held, TypeOK, RowIds
  <1>7. ASSUME NEW e \in Runs, SettleAborts(e) PROVE Held'
    BY <1>7 DEF SettleAborts, ReleaseAll, At, Held, TypeOK, RowIds, jobVars
  <1>8. ASSUME NEW w \in Workers, Crash(w) PROVE Held'
    BY <1>8 DEF Crash, ReleaseAll, Held, TypeOK, RowIds, jobVars
  <1>9. ASSUME NEW d \in Detectors, NEW w \in Workers, OrphanBegin(d, w) PROVE Held'
    BY <1>9 DEF OrphanBegin, Held, jobVars, runVars
  <1>10. ASSUME NEW d \in Detectors, OrphanMark(d) PROVE Held'
    BY <1>10 DEF OrphanMark, Free, Lock, Held, TypeOK, RowIds, jobVars, runVars
  <1>11. ASSUME NEW d \in Detectors, NEW j \in Jobs, OrphanJob(d, j) PROVE Held'
    BY <1>11 DEF OrphanJob, Free, Lock, Held, TypeOK, RowIds, jobVars, runVars
  <1>12. ASSUME NEW d \in Detectors, NEW j \in Jobs, OrphanQueue(d, j) PROVE Held'
    BY <1>12 DEF OrphanQueue, Free, Lock, Held, TypeOK, RowIds, jobVars, runVars
  <1>13. ASSUME NEW d \in Detectors, OrphanCommit(d) PROVE Held'
    BY <1>13 DEF OrphanCommit, EndPass, ReleaseAll, Held, Passes, TypeOK, RowIds, runVars
  <1>14. ASSUME NEW d \in Detectors, OrphanAborts(d) PROVE Held'
    BY <1>14 DEF OrphanAborts, EndPass, ReleaseAll, Held, TypeOK, RowIds, runVars
  <1>15. ASSUME UNCHANGED vars PROVE Held'
    BY <1>15 DEF vars, jobVars, runVars, Held
  <1> QED
    BY <1>1, <1>2, <1>3, <1>4, <1>5, <1>6, <1>7, <1>8, <1>9, <1>10, <1>11, <1>12, <1>13, <1>14, <1>15
    DEF Next, ClaimStep, SettleStep, OrphanStep, Retry, CompleteCounted, DeadLetterCounted

LEMMA DeadStep == TypeOK /\ DeadRunNothing /\ [Next]_vars => DeadRunNothing'
  <1> SUFFICES ASSUME TypeOK, DeadRunNothing, [Next]_vars PROVE DeadRunNothing'
    OBVIOUS
  <1> USE SettlementAssumption, RowFacts DEF DeadRunNothing
  <1>1. ASSUME NEW w \in Workers, NEW q \in Queues, ClaimLock(w, q) PROVE DeadRunNothing'
    BY <1>1 DEF ClaimLock, TypeOK, runVars
  <1>2. ASSUME NEW w \in Workers, ClaimCommit(w) PROVE DeadRunNothing'
    BY <1>2 DEF ClaimCommit, TypeOK
  <1>3. ASSUME NEW e \in Runs, NEW s, run[e] # "none", At(e, s), UNCHANGED <<alive, claiming>>
        PROVE  DeadRunNothing'
    <2>1. alive[e[1]]
      BY <1>3
    <2> QED
      BY <1>3, <2>1 DEF At, TypeOK
  <1>4. ASSUME NEW w \in Workers, Crash(w) PROVE DeadRunNothing'
    BY <1>4 DEF Crash, TypeOK
  <1>5. ASSUME UNCHANGED <<alive, claiming, run>> PROVE DeadRunNothing'
    BY <1>5
  <1>6. ASSUME NEW e \in Runs, SettleStep(e) \/ SettleAborts(e) PROVE DeadRunNothing'
    BY <1>6, <1>3 DEF SettleStep, SettleJob, SettleQueue, ReadBatch, Retry, CompleteCounted,
                      DeadLetterCounted, EndAttempt, SettleAborts
  <1>7. ASSUME NEW d \in Detectors, OrphanStep(d) \/ OrphanAborts(d) PROVE DeadRunNothing'
    BY <1>7, <1>5 DEF OrphanStep, OrphanBegin, OrphanMark, OrphanJob, OrphanQueue, OrphanCommit, OrphanAborts,
                      EndPass, runVars
  <1> QED
    BY <1>1, <1>2, <1>4, <1>5, <1>6, <1>7 DEF Next, ClaimStep, vars, runVars
LEMMA PassesStep == Lapsing = {} /\ TypeOK /\ Locked /\ [Next]_vars => Passes'
  <1> SUFFICES ASSUME Lapsing = {}, TypeOK, Held, DeadRunNothing, Passes, [Next]_vars PROVE Passes'
    BY DEF Locked
  <1> USE SettlementAssumption, RowFacts
  <1>1. ASSUME NEW w \in Workers, NEW q \in Queues, ClaimLock(w, q) PROVE Passes'
    BY <1>1 DEF ClaimLock, Free, Lock, Passes, TypeOK, RowIds, jobVars, orphanVars
  <1>2. ASSUME NEW w \in Workers, ClaimCommit(w) PROVE Passes'
    <2>1. PICK S \in SUBSET Eligible(w) :
            /\ status' = [j \in Jobs |-> IF j \in S THEN "running" ELSE status[j]]
            /\ claimedBy' = [j \in Jobs |-> IF j \in S THEN w ELSE claimedBy[j]]
      BY <1>2 DEF ClaimCommit
    <2>2. /\ \A d \in Detectors, x \in RowIds : lock[x] = d => lock'[x] = d
          /\ UNCHANGED <<alive, target, todo, taken>>
      BY <1>2 DEF ClaimCommit, ReleaseAll, orphanVars
    <2>3. \A j \in S : j \in Jobs /\ status[j] = "queued"
      BY DEF Eligible
    <2> QED
      BY <2>1, <2>2, <2>3 DEF Passes, TypeOK, RowIds
  <1>3. ASSUME NEW e \in Runs, SettleJob(e) PROVE Passes'
    BY <1>3 DEF SettleJob, Free, Lock, Passes, TypeOK, RowIds, jobVars, orphanVars
  <1>4. ASSUME NEW e \in Runs, SettleQueue(e) PROVE Passes'
    BY <1>4 DEF SettleQueue, Free, Lock, Passes, TypeOK, RowIds, jobVars, orphanVars
  <1>5. ASSUME NEW e \in Runs, ReadBatch(e) PROVE Passes'
    BY <1>5 DEF ReadBatch, Passes, jobVars, orphanVars
  <1>6. ASSUME NEW e \in Runs, NEW to, EndAttempt(e, to), run[e] \in {"queue", "batch"} PROVE Passes'
    <2>1. alive[e[1]] /\ claimedBy[JobOf(e)] = e[1]
      BY <1>6 DEF DeadRunNothing, Held, Owns
    <2>2. ASSUME NEW d \in Detectors, JobOf(e) \in todo[d] \cup taken[d] PROVE FALSE
      <3>1. target[d] # None /\ claimedBy[JobOf(e)] = target[d] /\ ~alive[target[d]]
        BY <2>2 DEF Passes
      <3> QED
        BY <2>1, <3>1
    <2>3. /\ \A d \in Detectors, x \in RowIds : lock[x] = d => lock'[x] = d
          /\ \A j \in Jobs \ {JobOf(e)} : status'[j] = status[j] /\ claimedBy'[j] = claimedBy[j]
          /\ UNCHANGED <<alive, target, todo, taken>>
      BY <1>6 DEF EndAttempt, ReleaseAll, orphanVars, TypeOK
    <2> QED
      BY <2>2, <2>3 DEF Passes, TypeOK, RowIds
  <1>7. ASSUME NEW e \in Runs, SettleAborts(e) PROVE Passes'
    BY <1>7 DEF SettleAborts, ReleaseAll, Passes, TypeOK, RowIds, jobVars, orphanVars
  <1>8. ASSUME NEW w \in Workers, Crash(w) PROVE Passes'
    <2>1. \A d \in Detectors : d \notin {w} \cup ({w} \X Jobs)
      BY DEF Runs
    <2>2. \A d \in Detectors, x \in RowIds : lock[x] = d => lock'[x] = d
      BY <1>8, <2>1 DEF Crash, ReleaseAll
    <2>3. /\ \A x \in Workers : ~alive[x] => ~alive'[x]
          /\ UNCHANGED <<status, claimedBy, target, todo, taken>>
      BY <1>8 DEF Crash, jobVars, orphanVars, TypeOK
    <2> QED
      BY <2>2, <2>3 DEF Passes, TypeOK, RowIds
  <1>9. ASSUME NEW d \in Detectors, NEW w \in Workers, OrphanBegin(d, w) PROVE Passes'
    BY <1>9 DEF OrphanBegin, Suspects, Passes, TypeOK, jobVars, runVars
  <1>10. ASSUME NEW d \in Detectors, OrphanMark(d) PROVE Passes'
    BY <1>10 DEF OrphanMark, Free, Lock, Passes, TypeOK, RowIds, jobVars
  <1>11. ASSUME NEW d \in Detectors, NEW j \in Jobs, OrphanJob(d, j) PROVE Passes'
    BY <1>11 DEF OrphanJob, Free, Lock, Passes, TypeOK, RowIds, jobVars
  <1>12. ASSUME NEW d \in Detectors, NEW j \in Jobs, OrphanQueue(d, j) PROVE Passes'
    BY <1>12 DEF OrphanQueue, Free, Lock, Passes, TypeOK, RowIds, jobVars, orphanVars
  <1>13. ASSUME NEW d \in Detectors, OrphanCommit(d) PROVE Passes'
    <2>1. \A c \in Detectors \ {d} : (todo[c] \cup taken[c]) \cap taken[d] = {}
      <3> SUFFICES ASSUME NEW c \in Detectors \ {d}, NEW j \in todo[c] \cup taken[c], j \in taken[d] PROVE FALSE
        OBVIOUS
      <3>1. claimedBy[j] = target[c] /\ lock[target[c]] = c
        BY DEF Passes
      <3>2. claimedBy[j] = target[d] /\ lock[target[d]] = d
        BY DEF Passes
      <3> QED
        BY <3>1, <3>2
    <2>2. /\ \A c \in Detectors \ {d}, x \in RowIds : lock[x] = c => lock'[x] = c
          /\ \A j \in Jobs \ taken[d] : status'[j] = status[j] /\ claimedBy'[j] = claimedBy[j]
          /\ target' = [target EXCEPT ![d] = None] /\ alive' = alive
          /\ todo' = [todo EXCEPT ![d] = {}] /\ taken' = [taken EXCEPT ![d] = {}]
      BY <1>13 DEF OrphanCommit, EndPass, ReleaseAll
    <2> QED
      BY <2>1, <2>2 DEF Passes, TypeOK, RowIds
  <1>14. ASSUME NEW d \in Detectors, OrphanAborts(d) PROVE Passes'
    BY <1>14 DEF OrphanAborts, EndPass, ReleaseAll, Passes, TypeOK, RowIds
  <1>15. ASSUME UNCHANGED vars PROVE Passes'
    BY <1>15 DEF vars, jobVars, orphanVars, Passes
  <1> QED
    BY <1>1, <1>2, <1>3, <1>4, <1>5, <1>6, <1>7, <1>8, <1>9, <1>10, <1>11, <1>12, <1>13, <1>14, <1>15
    DEF Next, ClaimStep, SettleStep, OrphanStep, Retry, CompleteCounted, DeadLetterCounted

LEMMA HoldersStep == TypeOK /\ Holders /\ [Next]_vars => Holders'
  <1> SUFFICES ASSUME TypeOK, Holders, [Next]_vars PROVE Holders'
    OBVIOUS
  <1> USE SettlementAssumption, RowFacts
  <1>1. ASSUME NEW w \in Workers, NEW q \in Queues, ClaimLock(w, q) PROVE Holders'
    BY <1>1 DEF ClaimLock, Free, Lock, Holders, TypeOK, RowIds, runVars, orphanVars
  <1>2. ASSUME NEW w \in Workers, ClaimCommit(w) PROVE Holders'
    BY <1>2 DEF ClaimCommit, Eligible, ReleaseAll, Holders, TypeOK, RowIds, orphanVars
  <1>3. ASSUME NEW e \in Runs, SettleJob(e) PROVE Holders'
    <2>1. CASE Owns(e)
      <3>1. /\ lock[JobOf(e)] = None /\ lock' = [lock EXCEPT ![JobOf(e)] = e]
            /\ run[e] = "running" /\ run' = [run EXCEPT ![e] = "job"] /\ UNCHANGED <<target, taken>>
        BY <1>3, <2>1 DEF SettleJob, Free, Lock, At, orphanVars
      <3>2. lock'[JobOf(e)] = e /\ run'[e] = "job"
        BY <3>1 DEF TypeOK, RowIds
      <3>3. \A x \in RowIds \ {JobOf(e)} : lock'[x] = lock[x]
        BY <3>1 DEF TypeOK
      <3>4. \A f \in Runs \ {e} : run'[f] = run[f]
        BY <3>1 DEF TypeOK
      <3> QED
        BY <3>1, <3>2, <3>3, <3>4 DEF Holders, RowIds
    <2>2. CASE ~Owns(e)
      <3>1. /\ lock' = lock /\ run[e] = "running" /\ UNCHANGED <<target, taken>>
            /\ \A f \in Runs \ {e} : run'[f] = run[f]
        BY <1>3, <2>2 DEF SettleJob, At, orphanVars, TypeOK
      <3> QED
        BY <3>1 DEF Holders
    <2> QED
      BY <2>1, <2>2
  <1>4. ASSUME NEW e \in Runs, SettleQueue(e) PROVE Holders'
    BY <1>4 DEF SettleQueue, Free, Lock, At, Holders, TypeOK, RowIds, orphanVars
  <1>5. ASSUME NEW e \in Runs, ReadBatch(e) PROVE Holders'
    BY <1>5 DEF ReadBatch, At, Holders, TypeOK, RowIds, orphanVars
  <1>6. ASSUME NEW e \in Runs, NEW to, EndAttempt(e, to) PROVE Holders'
    BY <1>6 DEF EndAttempt, ReleaseAll, At, Holders, TypeOK, RowIds, orphanVars
  <1>7. ASSUME NEW e \in Runs, SettleAborts(e) PROVE Holders'
    BY <1>7 DEF SettleAborts, ReleaseAll, At, Holders, TypeOK, RowIds, orphanVars
  <1>8. ASSUME NEW w \in Workers, Crash(w) PROVE Holders'
    BY <1>8 DEF Crash, ReleaseAll, Holders, TypeOK, RowIds, orphanVars
  <1>9. ASSUME NEW d \in Detectors, NEW w \in Workers, OrphanBegin(d, w) PROVE Holders'
    BY <1>9 DEF OrphanBegin, Holders, TypeOK, RowIds, runVars
  <1>10. ASSUME NEW d \in Detectors, OrphanMark(d) PROVE Holders'
    BY <1>10 DEF OrphanMark, Free, Lock, Holders, TypeOK, RowIds, runVars
  <1>11. ASSUME NEW d \in Detectors, NEW j \in Jobs, OrphanJob(d, j) PROVE Holders'
    BY <1>11 DEF OrphanJob, Free, Lock, Holders, TypeOK, RowIds, runVars
  <1>12. ASSUME NEW d \in Detectors, NEW j \in Jobs, OrphanQueue(d, j) PROVE Holders'
    BY <1>12 DEF OrphanQueue, Free, Lock, Holders, TypeOK, RowIds, runVars, orphanVars
  <1>13. ASSUME NEW d \in Detectors, EndPass(d) PROVE Holders'
    BY <1>13 DEF EndPass, ReleaseAll, Holders, TypeOK, RowIds, runVars
  <1>14. ASSUME UNCHANGED vars PROVE Holders'
    BY <1>14 DEF vars, runVars, orphanVars, Holders
  <1> QED
    BY <1>1, <1>2, <1>3, <1>4, <1>5, <1>6, <1>7, <1>8, <1>9, <1>10, <1>11, <1>12, <1>13, <1>14
    DEF Next, ClaimStep, SettleStep, OrphanStep, Retry, CompleteCounted, DeadLetterCounted, OrphanCommit, OrphanAborts

THEOREM LocksProtect ==
  ASSUME Lapsing = {}
  PROVE  Spec => [](TypeOK /\ Locked)
  <1>1. Init => TypeOK /\ Locked
    BY InitType, InitLocked
  <1>2. TypeOK /\ Locked /\ [Next]_vars => (TypeOK /\ Locked)'
    BY TypeStep, HeldStep, DeadStep, PassesStep, HoldersStep DEF Locked
  <1> QED
    BY <1>1, <1>2, PTL DEF Spec
-----------------------------------------------------------------------------
(* No deadlock.  A transaction that somebody in a set waits for is in the  *)
(* set and waits itself: so no settlement holds a queue, and no detector   *)
(* waits for a job, since a job that is left to it is claimed by a dead    *)
(* worker and locked by nobody else.  What remains is one detector waiting *)
(* for the queue of another, and that takes a second queue.                *)

LEMMA NoneStuck ==
  ASSUME OneQueue \/ OneDetector, TypeOK, Locked
  PROVE  NoDeadlock
  <1> SUFFICES ASSUME NEW T \in (SUBSET (Runs \cup Detectors)) \ {{}}, Stuck(T) PROVE FALSE
    BY Zenon DEF NoDeadlock
  <1>0. T \subseteq Runs \cup Detectors /\ T # {}
    BY Zenon
  <1> USE SettlementAssumption, RowFacts
  <1>1. \A e \in T \cap Runs : run[e] \in {"running", "job"}
    BY DEF Stuck, Wants, TypeOK
  <1>2. \A d \in T \cap Detectors :
          \/ target[d] # None /\ lock[target[d]] # d /\ Wants(d) = {target[d]}
          \/ \E y \in taken[d] : lock[QueueOf[y]] # d /\ QueueOf[y] \in Wants(d)
          \/ (\A y \in taken[d] : lock[QueueOf[y]] = d) /\ Wants(d) = todo[d]
    <2> SUFFICES ASSUME NEW d \in T \cap Detectors
                 PROVE  \/ target[d] # None /\ lock[target[d]] # d /\ Wants(d) = {target[d]}
                        \/ \E y \in taken[d] : lock[QueueOf[y]] # d /\ QueueOf[y] \in Wants(d)
                        \/ (\A y \in taken[d] : lock[QueueOf[y]] = d) /\ Wants(d) = todo[d]
      OBVIOUS
    <2> DEFINE open == {y \in taken[d] : lock[QueueOf[y]] # d}
    <2>1. d \notin Runs
      OBVIOUS
    <2>2. Wants(d) = IF target[d] # None /\ ~Marked(d) THEN {target[d]}
                     ELSE IF open # {} THEN {QueueOf[y] : y \in open} ELSE todo[d]
      BY <2>1 DEF Wants
    <2> HIDE DEF open
    <2>3. CASE target[d] # None /\ ~Marked(d)
      BY <2>2, <2>3 DEF Marked
    <2>4. CASE ~(target[d] # None /\ ~Marked(d)) /\ open # {}
      <3>1. Wants(d) = {QueueOf[y] : y \in open}
        BY <2>2, <2>4
      <3>2. PICK y \in open : TRUE
        BY <2>4
      <3>3. QueueOf[y] \in Wants(d) /\ y \in taken[d] /\ lock[QueueOf[y]] # d
        BY <3>1, <3>2 DEF open
      <3> QED
        BY <3>3
    <2>5. CASE ~(target[d] # None /\ ~Marked(d)) /\ open = {}
      BY <2>2, <2>5 DEF open
    <2> QED
      BY <2>3, <2>4, <2>5
  <1>3. \A d \in T \cap Detectors : ~(Wants(d) = todo[d])
    <2> SUFFICES ASSUME NEW d \in T \cap Detectors, Wants(d) = todo[d] PROVE FALSE
      OBVIOUS
    <2>1. PICK j \in todo[d] : lock[j] \in T
      BY DEF Stuck
    <2>2. j \in Jobs /\ claimedBy[j] = target[d] /\ j \notin taken[d] /\ target[d] # None
          /\ lock[target[d]] = d /\ ~alive[target[d]]
      BY DEF Locked, Passes, TypeOK
    <2>3. CASE lock[j] \in Runs
      BY <2>2, <2>3 DEF Locked, Holders, Held, Owns, DeadRunNothing
    <2>4. CASE lock[j] \in Detectors
      <3>1. j \in taken[lock[j]]
        BY <2>2, <2>4 DEF Locked, Holders
      <3>2. claimedBy[j] = target[lock[j]] /\ lock[target[lock[j]]] = lock[j]
        BY <2>4, <3>1 DEF Locked, Passes
      <3> QED
        BY <2>2, <3>1, <3>2
    <2> QED
      BY <2>1, <2>3, <2>4
  <1>4. \A x \in Queues : lock[x] \in T => lock[x] \in Detectors /\ \E j \in taken[lock[x]] : QueueOf[j] = x
    BY <1>1 DEF Locked, Holders
  <1>5. \A d \in T \cap Detectors : ~ \E y \in taken[d] : lock[QueueOf[y]] # d /\ QueueOf[y] \in Wants(d)
    <2> SUFFICES ASSUME NEW d \in T \cap Detectors, NEW y \in taken[d],
                        lock[QueueOf[y]] # d, QueueOf[y] \in Wants(d)
                 PROVE  FALSE
      OBVIOUS
    <2> DEFINE c == lock[QueueOf[y]]
    <2>1. y \in Jobs /\ c \in T /\ c # d
      BY DEF Stuck, TypeOK
    <2>2. c \in Detectors
      BY <1>4, <2>1
    <2>3. OneQueue
      BY <2>1, <2>2 DEF OneDetector
    <2>4. PICK j \in taken[c] : QueueOf[j] = QueueOf[y]
      BY <1>4, <2>1
    <2>5. \A k \in taken[c] : lock[QueueOf[k]] = c
      BY <2>1, <2>2, <2>3 DEF OneQueue, TypeOK
    <2>6. target[c] # None /\ lock[target[c]] = c
      BY <2>2, <2>4 DEF Locked, Passes
    <2>7. Wants(c) = todo[c]
      BY <1>2, <2>1, <2>2, <2>5, <2>6
    <2> QED
      BY <1>3, <2>1, <2>2, <2>7
  <1>6. \A d \in T \cap Detectors : FALSE
    <2> SUFFICES ASSUME NEW d \in T \cap Detectors PROVE FALSE
      OBVIOUS
    <2>1. target[d] # None /\ lock[target[d]] # d /\ Wants(d) = {target[d]}
      BY <1>2, <1>3, <1>5
    <2> DEFINE c == lock[target[d]]
    <2>2. target[d] \in Workers /\ c \in T
      BY <2>1 DEF Stuck, TypeOK
    <2>3. c \in Detectors /\ target[c] = target[d]
      BY <2>1, <2>2 DEF Locked, Holders
    <2> QED
      BY <1>2, <1>3, <1>5, <2>1, <2>2, <2>3
  <1>7. PICK e \in T : e \in Runs
    BY <1>6
  <1>8. CASE run[e] = "job"
    <2>1. lock[QueueOfRun(e)] \in T
      BY <1>7, <1>8 DEF Stuck, Wants
    <2> QED
      BY <1>4, <1>6, <1>7, <2>1
  <1>9. CASE run[e] = "running"
    <2> DEFINE f == lock[JobOf(e)]
    <2>1. f \in T
      BY <1>7, <1>9 DEF Stuck, Wants
    <2>2. f \in Runs /\ run[f] = "job"
      BY <1>1, <1>6, <1>7, <2>1 DEF Locked, Holders
    <2>3. lock[QueueOfRun(f)] \in T
      BY <2>1, <2>2 DEF Stuck, Wants
    <2> QED
      BY <1>4, <1>6, <2>2, <2>3
  <1> QED
    BY <1>1, <1>7, <1>8, <1>9

(* The transactions that settle attempts, claim and take orphans back never*)
(* wait for one another in a circle, if only dead workers are taken for    *)
(* dead and either one process looks for them or all jobs are in one queue.*)
THEOREM NobodyWaitsForever ==
  ASSUME Lapsing = {}, OneQueue \/ OneDetector
  PROVE  Spec => []NoDeadlock
  <1>1. TypeOK /\ Locked => NoDeadlock
    BY NoneStuck
  <1> QED
    BY <1>1, LocksProtect, PTL
-----------------------------------------------------------------------------
(* The counters of the batch.                                              *)

LEMMA ReadsStep ==
  OneQueue /\ TypeOK /\ Held /\ ReadsAreCurrent /\ [Next]_vars => ReadsAreCurrent'
  <1> SUFFICES ASSUME OneQueue, TypeOK, Held, ReadsAreCurrent, [Next]_vars PROVE ReadsAreCurrent'
    OBVIOUS
  <1> USE SettlementAssumption, RowFacts
  <1>1. ASSUME UNCHANGED <<seen, batchVars>>, \A e \in Runs : run'[e] = "batch" => run[e] = "batch"
        PROVE  ReadsAreCurrent'
    BY <1>1 DEF ReadsAreCurrent, batchVars
  <1>2. ASSUME NEW w \in Workers, ClaimStep(w) \/ Crash(w) PROVE ReadsAreCurrent'
    BY <1>2, <1>1 DEF ClaimStep, ClaimLock, ClaimCommit, Crash, runVars, TypeOK
  <1>3. ASSUME NEW e \in Runs, SettleJob(e) PROVE ReadsAreCurrent'
    BY <1>3, <1>1 DEF SettleJob, At, TypeOK
  <1>4. ASSUME NEW e \in Runs, SettleQueue(e) \/ Retry(e) PROVE ReadsAreCurrent'
    BY <1>4, <1>1 DEF SettleQueue, Retry, EndAttempt, At, TypeOK
  <1>5. ASSUME NEW e \in Runs, SettleAborts(e) PROVE ReadsAreCurrent'
    BY <1>5, <1>1 DEF SettleAborts, At, TypeOK
  <1>6. ASSUME NEW e \in Runs, ReadBatch(e) PROVE ReadsAreCurrent'
    <2>1. /\ \A f \in Runs \ {e} : run'[f] = run[f] /\ seen'[f] = seen[f]
          /\ seen'[e] = <<completedJobs, failedJobs, batchStatus>>
          /\ UNCHANGED <<completedJobs, failedJobs, batchStatus>>
      BY <1>6 DEF ReadBatch, At, batchVars, TypeOK
    <2> QED
      BY <2>1 DEF ReadsAreCurrent
  <1>7. ASSUME NEW e \in Runs, CompleteCounted(e) \/ DeadLetterCounted(e) PROVE ReadsAreCurrent'
    <2>1. run[e] = "batch"
      BY <1>7 DEF CompleteCounted, DeadLetterCounted
    <2>2. \A f \in Runs : run[f] = "batch" => f = e
      BY <2>1 DEF Held, OneQueue, QueueOfRun
    <2>3. run' = [run EXCEPT ![e] = "none"]
      BY <1>7 DEF CompleteCounted, DeadLetterCounted, EndAttempt, At
    <2> QED
      BY <2>2, <2>3 DEF ReadsAreCurrent, TypeOK
  <1>8. ASSUME NEW d \in Detectors, OrphanStep(d) \/ OrphanAborts(d) PROVE ReadsAreCurrent'
    BY <1>8, <1>1 DEF OrphanStep, OrphanBegin, OrphanMark, OrphanJob, OrphanQueue, OrphanCommit, OrphanAborts,
                      EndPass, runVars
  <1>9. ASSUME UNCHANGED vars PROVE ReadsAreCurrent'
    BY <1>9, <1>1 DEF vars, runVars
  <1> QED
    BY <1>2, <1>3, <1>4, <1>5, <1>6, <1>7, <1>8, <1>9 DEF Next, SettleStep

EndedJobs(s) == {j \in Jobs : status[j] = s}
Ends == {"completed", "dead-letter"}

LEMMA EndedNat == \A s \in Ends : Ended(s) \in Nat
  BY JobsCounted DEF Ended

(* A settlement counts one more job that has ended.                        *)
LEMMA OneMoreEnded ==
  ASSUME TypeOK, NEW j \in Jobs, status[j] = "running", NEW to \in Ends,
         status' = [status EXCEPT ![j] = to]
  PROVE  /\ Ended(to)' = Ended(to) + 1
         /\ \A s \in Ends \ {to} : Ended(s)' = Ended(s)
  <1> USE DEF Ends
  <1>1. EndedJobs(to)' = EndedJobs(to) \cup {j} /\ j \notin EndedJobs(to)
    BY DEF EndedJobs, TypeOK
  <1>2. IsFiniteSet(EndedJobs(to))
    BY JobsCounted DEF EndedJobs
  <1>3. Cardinality(EndedJobs(to)') = Cardinality(EndedJobs(to)) + 1
    BY <1>1, <1>2, FS_AddElement
  <1>4. ASSUME NEW s \in Ends \ {to} PROVE Ended(s)' = Ended(s)
    <2>1. EndedJobs(s)' = EndedJobs(s)
      BY DEF EndedJobs, TypeOK
    <2> QED
      BY <2>1 DEF Ended, EndedJobs
  <1>5. Ended(to)' = Ended(to) + 1
    BY <1>3 DEF Ended, EndedJobs
  <1> QED
    BY <1>4, <1>5

LEMMA NoneEnded ==
  ASSUME \A j \in Jobs, s \in Ends : status'[j] = s <=> status[j] = s
  PROVE  \A s \in Ends : Ended(s)' = Ended(s)
  <1> SUFFICES ASSUME NEW s \in Ends PROVE Ended(s)' = Ended(s)
    OBVIOUS
  <1>1. EndedJobs(s)' = EndedJobs(s)
    BY DEF EndedJobs
  <1> QED
    BY <1>1 DEF Ended, EndedJobs

(* What a step can do to the jobs that have ended and to the batch.        *)
Uncounted == (\A s \in Ends : Ended(s)' = Ended(s)) /\ UNCHANGED batchVars
CountsOk(e) ==
  LET c == seen[e][1] + 1  f == seen[e][2] IN
  /\ Ended("completed")' = Ended("completed") + 1 /\ Ended("dead-letter")' = Ended("dead-letter")
  /\ completedJobs' = c /\ failedJobs' = failedJobs
  /\ batchStatus' = IF Finished(c, f) THEN IF f > 0 THEN "failed" ELSE "completed" ELSE seen[e][3]
CountsFail(e) ==
  LET c == seen[e][1]  f == seen[e][2] + 1 IN
  /\ Ended("dead-letter")' = Ended("dead-letter") + 1 /\ Ended("completed")' = Ended("completed")
  /\ completedJobs' = completedJobs /\ failedJobs' = f
  /\ batchStatus' = IF Finished(c, f) THEN "failed" ELSE seen[e][3]
Counted == Uncounted \/ \E e \in Runs : run[e] = "batch" /\ (CountsOk(e) \/ CountsFail(e))

LEMMA CountStep == TypeOK /\ Locked /\ [Next]_vars => Counted
  <1> SUFFICES ASSUME TypeOK, Held, Passes, [Next]_vars PROVE Counted
    BY DEF Locked
  <1> USE SettlementAssumption, RowFacts
  <1>0. ASSUME \A j \in Jobs : status'[j] = status[j] \/ {status[j], status'[j]} \subseteq {"queued", "running"},
               UNCHANGED batchVars
        PROVE  Counted
    <2>1. \A j \in Jobs, s \in Ends : status'[j] = s <=> status[j] = s
      BY <1>0 DEF Ends
    <2> QED
      BY <1>0, <2>1, NoneEnded DEF Counted, Uncounted
  <1>1. ASSUME NEW w \in Workers, ClaimCommit(w) PROVE Counted
    <2>0. PICK S \in SUBSET Eligible(w) : status' = [j \in Jobs |-> IF j \in S THEN "running" ELSE status[j]]
      BY <1>1 DEF ClaimCommit
    <2>1. \A j \in Jobs : status'[j] = status[j] \/ {status[j], status'[j]} \subseteq {"queued", "running"}
      BY <2>0 DEF Eligible
    <2>2. UNCHANGED batchVars
      BY <1>1 DEF ClaimCommit
    <2> QED
      BY <1>0, <2>1, <2>2
  <1>2. ASSUME NEW e \in Runs, Retry(e) PROVE Counted
    <2>1. status[JobOf(e)] = "running" /\ status' = [status EXCEPT ![JobOf(e)] = "queued"]
      BY <1>2 DEF Retry, EndAttempt, Held, Owns
    <2>2. \A j \in Jobs : status'[j] = status[j] \/ {status[j], status'[j]} \subseteq {"queued", "running"}
      BY <2>1 DEF TypeOK
    <2>3. UNCHANGED batchVars
      BY <1>2 DEF Retry
    <2> QED
      BY <1>0, <2>2, <2>3
  <1>3. ASSUME NEW e \in Runs, CompleteCounted(e) PROVE Counted
    <2>1. status[JobOf(e)] = "running" /\ status' = [status EXCEPT ![JobOf(e)] = "completed"]
      BY <1>3 DEF CompleteCounted, EndAttempt, Held, Owns
    <2>2. Ended("completed")' = Ended("completed") + 1 /\ Ended("dead-letter")' = Ended("dead-letter")
      BY <2>1, OneMoreEnded DEF Ends
    <2>3. run[e] = "batch" /\ CountsOk(e)
      BY <1>3, <2>2 DEF CompleteCounted, CountsOk
    <2> QED
      BY <2>3 DEF Counted
  <1>4. ASSUME NEW e \in Runs, DeadLetterCounted(e) PROVE Counted
    <2>1. status[JobOf(e)] = "running" /\ status' = [status EXCEPT ![JobOf(e)] = "dead-letter"]
      BY <1>4 DEF DeadLetterCounted, EndAttempt, Held, Owns
    <2>2. Ended("dead-letter")' = Ended("dead-letter") + 1 /\ Ended("completed")' = Ended("completed")
      BY <2>1, OneMoreEnded DEF Ends
    <2>3. run[e] = "batch" /\ CountsFail(e)
      BY <1>4, <2>2 DEF DeadLetterCounted, CountsFail
    <2> QED
      BY <2>3 DEF Counted
  <1>5. ASSUME NEW d \in Detectors, OrphanCommit(d) PROVE Counted
    <2>1. \A j \in Jobs : status'[j] = status[j] \/ {status[j], status'[j]} \subseteq {"queued", "running"}
      BY <1>5 DEF OrphanCommit, Passes
    <2>2. UNCHANGED batchVars
      BY <1>5 DEF OrphanCommit, EndPass
    <2> QED
      BY <1>0, <2>1, <2>2
  <1>6. ASSUME UNCHANGED <<status, batchVars>> PROVE Counted
    BY <1>6, <1>0
  <1> QED
    BY <1>1, <1>2, <1>3, <1>4, <1>5, <1>6
    DEF Next, ClaimStep, SettleStep, OrphanStep, ClaimLock, SettleJob, SettleQueue, ReadBatch, SettleAborts, Crash,
        OrphanBegin, OrphanMark, OrphanJob, OrphanQueue, OrphanAborts, EndPass, vars, jobVars

(* What a settlement knows of the batch, it knew or has just read.         *)
LEMMA SeenStep ==
  ASSUME TypeOK, [Next]_vars
  PROVE  \A f \in Runs : run'[f] = "batch" =>
           \/ run[f] = "batch" /\ seen'[f] = seen[f]
           \/ seen'[f] = <<completedJobs, failedJobs, batchStatus>>
  <1> DEFINE G == \A f \in Runs : run'[f] = "batch" =>
                    \/ run[f] = "batch" /\ seen'[f] = seen[f]
                    \/ seen'[f] = <<completedJobs, failedJobs, batchStatus>>
  <1> USE SettlementAssumption, RowFacts
  <1>1. ASSUME UNCHANGED seen, \A f \in Runs : run'[f] = "batch" => run[f] = "batch" PROVE G
    BY <1>1
  <1> HIDE DEF G
  <1>2. ASSUME NEW w \in Workers, ClaimStep(w) \/ Crash(w) PROVE G
    BY <1>2, <1>1 DEF ClaimStep, ClaimLock, ClaimCommit, Crash, runVars, TypeOK
  <1>3. ASSUME NEW e \in Runs, SettleJob(e) PROVE G
    BY <1>3, <1>1 DEF SettleJob, At, TypeOK
  <1>4. ASSUME NEW e \in Runs, SettleQueue(e) PROVE G
    BY <1>4, <1>1 DEF SettleQueue, At, TypeOK
  <1>5. ASSUME NEW e \in Runs, NEW to, EndAttempt(e, to) PROVE G
    BY <1>5, <1>1 DEF EndAttempt, At, TypeOK
  <1>6. ASSUME NEW e \in Runs, SettleAborts(e) PROVE G
    BY <1>6, <1>1 DEF SettleAborts, At, TypeOK
  <1>7. ASSUME NEW e \in Runs, ReadBatch(e) PROVE G
    <2>1. /\ \A f \in Runs \ {e} : run'[f] = run[f] /\ seen'[f] = seen[f]
          /\ seen'[e] = <<completedJobs, failedJobs, batchStatus>>
      BY <1>7 DEF ReadBatch, At, TypeOK
    <2> QED
      BY <2>1 DEF G
  <1>8. ASSUME NEW d \in Detectors, OrphanStep(d) \/ OrphanAborts(d) PROVE G
    BY <1>8, <1>1 DEF OrphanStep, OrphanBegin, OrphanMark, OrphanJob, OrphanQueue, OrphanCommit, OrphanAborts,
                      EndPass, runVars
  <1>9. ASSUME UNCHANGED vars PROVE G
    BY <1>9, <1>1 DEF vars, runVars
  <1>10. G
    BY <1>2, <1>3, <1>4, <1>5, <1>6, <1>7, <1>8, <1>9
    DEF Next, SettleStep, Retry, CompleteCounted, DeadLetterCounted
  <1> QED
    BY <1>10 DEF G

SeenType == \A e \in Runs : seen[e][1] \in Nat /\ seen[e][2] \in Nat
WasTrue(c, f, s) ==
  /\ c <= Ended("completed") /\ f <= Ended("dead-letter")
  /\ s # "pending" => TotalJobs <= EndedAll

LEMMA TrueStep ==
  TypeOK /\ Locked /\ ReadsWereTrue /\ NeverAhead /\ [Next]_vars => ReadsWereTrue' /\ NeverAhead'
  <1> SUFFICES ASSUME TypeOK, Counted, ReadsWereTrue, NeverAhead, [Next]_vars
               PROVE  ReadsWereTrue' /\ NeverAhead'
    BY CountStep
  <1>0. /\ Ended("completed") \in Nat /\ Ended("dead-letter") \in Nat /\ TotalJobs \in Nat
        /\ completedJobs \in Nat /\ failedJobs \in Nat /\ SeenType
    BY EndedNat, SettlementAssumption DEF Ends, TypeOK, SeenType
  <1>1. Ended("completed")' \in Nat /\ Ended("dead-letter")' \in Nat
        /\ Ended("completed") <= Ended("completed")' /\ Ended("dead-letter") <= Ended("dead-letter")'
    BY <1>0 DEF Counted, Uncounted, CountsOk, CountsFail, Ends
  <1>2. ReadsWereTrue'
    <2> SUFFICES ASSUME NEW e \in Runs, run'[e] = "batch"
                 PROVE  /\ seen'[e][1] <= Ended("completed")' /\ seen'[e][2] <= Ended("dead-letter")'
                        /\ seen'[e][3] # "pending" => TotalJobs <= Ended("completed")' + Ended("dead-letter")'
      BY DEF ReadsWereTrue, EndedAll
    <2>1. \/ seen'[e] = seen[e] /\ WasTrue(seen[e][1], seen[e][2], seen[e][3])
          \/ seen'[e] = <<completedJobs, failedJobs, batchStatus>>
      BY SeenStep DEF ReadsWereTrue, WasTrue
    <2>2. WasTrue(completedJobs, failedJobs, batchStatus)
      BY DEF NeverAhead, WasTrue
    <2> DEFINE c == seen'[e][1]  f == seen'[e][2]  t == seen'[e][3]
    <2>3. c \in Nat /\ f \in Nat /\ WasTrue(c, f, t)
      BY <1>0, <2>1, <2>2 DEF SeenType
    <2> HIDE DEF c, f, t
    <2>4. c <= Ended("completed")' /\ f <= Ended("dead-letter")'
          /\ (t # "pending" => TotalJobs <= Ended("completed")' + Ended("dead-letter")')
      BY <1>0, <1>1, <2>3 DEF WasTrue, EndedAll
    <2> QED
      BY <2>4 DEF c, f, t
  <1>3. NeverAhead'
    <2> DEFINE C == Ended("completed")
               D == Ended("dead-letter")
    <2>0. /\ completedJobs <= C /\ failedJobs <= D
          /\ batchStatus # "pending" => TotalJobs <= C + D
      BY DEF NeverAhead, EndedAll
    <2>a. SUFFICES /\ completedJobs' <= C' /\ failedJobs' <= D'
                   /\ batchStatus' # "pending" => TotalJobs <= C' + D'
      BY DEF NeverAhead, EndedAll
    <2>b. C \in Nat /\ D \in Nat /\ TotalJobs \in Nat
      BY <1>0
    <2>1. CASE Uncounted
      <3>1. C' = C /\ D' = D /\ UNCHANGED <<completedJobs, failedJobs, batchStatus>>
        BY <2>1 DEF Uncounted, Ends, batchVars
      <3> QED
        BY <2>0, <3>1
    <2>2. ASSUME NEW e \in Runs, run[e] = "batch", CountsOk(e) \/ CountsFail(e)
          PROVE  /\ completedJobs' <= C' /\ failedJobs' <= D'
                 /\ batchStatus' # "pending" => TotalJobs <= C' + D'
      <3> DEFINE c == seen[e][1]
                 f == seen[e][2]
                 t == seen[e][3]
      <3>1. c \in Nat /\ f \in Nat /\ c <= C /\ f <= D /\ (t # "pending" => TotalJobs <= C + D)
        BY <1>0, <2>2 DEF ReadsWereTrue, EndedAll, SeenType
      <3>2. \/ /\ C' = C + 1 /\ D' = D /\ completedJobs' = c + 1 /\ failedJobs' = failedJobs
               /\ batchStatus' # t => c + 1 + f >= TotalJobs
            \/ /\ D' = D + 1 /\ C' = C /\ completedJobs' = completedJobs /\ failedJobs' = f + 1
               /\ batchStatus' # t => c + (f + 1) >= TotalJobs
        BY <2>2 DEF CountsOk, CountsFail, Finished
      <3> HIDE DEF c, f, t, C, D
      <3> QED
        BY <1>0, <2>0, <2>b, <3>1, <3>2
    <2> QED
      BY <2>1, <2>2 DEF Counted
  <1> QED
    BY <1>2, <1>3

LEMMA ExactStep ==
  OneQueue /\ TypeOK /\ Locked /\ ReadsAreCurrent /\ Exact /\ [Next]_vars => Exact'
  <1> SUFFICES ASSUME OneQueue, TypeOK, Counted, ReadsAreCurrent, Exact PROVE Exact'
    BY CountStep
  <1> DEFINE C == Ended("completed")
             D == Ended("dead-letter")
  <1>0. C \in Nat /\ D \in Nat /\ TotalJobs \in Nat
    BY EndedNat, SettlementAssumption DEF Ends
  <1>1. /\ completedJobs = C /\ failedJobs = D
        /\ batchStatus = IF C + D = 0 \/ C + D < TotalJobs THEN "pending"
                         ELSE IF D > 0 THEN "failed" ELSE "completed"
    BY DEF Exact, EndedAll
  <1>2. SUFFICES /\ completedJobs' = C' /\ failedJobs' = D'
                 /\ batchStatus' = IF C' + D' = 0 \/ C' + D' < TotalJobs THEN "pending"
                                   ELSE IF D' > 0 THEN "failed" ELSE "completed"
    BY DEF Exact, EndedAll
  <1>3. CASE Uncounted
    <2>1. C' = C /\ D' = D /\ UNCHANGED <<completedJobs, failedJobs, batchStatus>>
      BY <1>3 DEF Uncounted, Ends, batchVars
    <2> HIDE DEF C, D
    <2> QED
      BY <1>1, <2>1
  <1>4. ASSUME NEW e \in Runs, run[e] = "batch", CountsOk(e) \/ CountsFail(e)
        PROVE  /\ completedJobs' = C' /\ failedJobs' = D'
               /\ batchStatus' = IF C' + D' = 0 \/ C' + D' < TotalJobs THEN "pending"
                                 ELSE IF D' > 0 THEN "failed" ELSE "completed"
    <2>1. seen[e][1] = C /\ seen[e][2] = D /\ seen[e][3] = batchStatus
      BY <1>1, <1>4 DEF ReadsAreCurrent
    <2>2. CASE CountsOk(e)
      <3>1. /\ C' = C + 1 /\ D' = D /\ completedJobs' = C + 1 /\ failedJobs' = failedJobs
            /\ batchStatus' = IF C + 1 + D >= TotalJobs THEN IF D > 0 THEN "failed" ELSE "completed"
                              ELSE batchStatus
        BY <2>1, <2>2 DEF CountsOk, Finished
      <3> HIDE DEF C, D
      <3> QED
        BY <1>0, <1>1, <3>1
    <2>3. CASE CountsFail(e)
      <3>1. /\ D' = D + 1 /\ C' = C /\ completedJobs' = completedJobs /\ failedJobs' = D + 1
            /\ batchStatus' = IF C + (D + 1) >= TotalJobs THEN "failed" ELSE batchStatus
        BY <2>1, <2>3 DEF CountsFail, Finished
      <3> HIDE DEF C, D
      <3> QED
        BY <1>0, <1>1, <3>1
    <2> QED
      BY <1>4, <2>2, <2>3
  <1> QED
    BY <1>3, <1>4 DEF Counted

(* In however many queues its jobs are, however many have joined it, and   *)
(* whatever is retried, crashes or aborts, a batch never tells of a job    *)
(* that has not ended, nor that it is over before as many have ended as it *)
(* was created with.  In one queue it counts each, because whoever reads   *)
(* its row has the row of the queue.                                       *)
THEOREM BatchIsTruthful ==
  ASSUME Lapsing = {}
  PROVE  Spec => []BatchTellsTruth
  <1> DEFINE I == /\ ReadsWereTrue /\ NeverAhead
                  /\ OneQueue => ReadsAreCurrent /\ Exact
  <1>1. Init => I
    <2> SUFFICES ASSUME Init PROVE I
      OBVIOUS
    <2>1. ReadsAreCurrent /\ ReadsWereTrue
      BY DEF Init, ReadsAreCurrent, ReadsWereTrue
    <2>2. EndedJobs("completed") = {} /\ EndedJobs("dead-letter") = {}
      BY DEF Init, EndedJobs
    <2>3. Ended("completed") = 0 /\ Ended("dead-letter") = 0
      BY <2>2, FS_EmptySet DEF Ended, EndedJobs
    <2>4. NeverAhead /\ Exact
      BY <2>3 DEF Init, NeverAhead, Exact, EndedAll
    <2> QED
      BY <2>1, <2>4
  <1>2. TypeOK /\ Locked /\ I /\ [Next]_vars => I'
    BY TrueStep, ReadsStep, ExactStep DEF Locked, OneQueue
  <1>3. I => BatchTellsTruth
    BY DEF NeverAhead, BatchTellsTruth
  <1> QED
    BY <1>1, <1>2, <1>3, LocksProtect, PTL DEF Spec
=============================================================================
