------------------------- MODULE JobLifecycleProofs -------------------------
(***************************************************************************)
(* Proofs about JobLifecycle, for every number of jobs, queues, workers    *)
(* and detectors, every limit, and every choice of faults.                 *)
(***************************************************************************)
EXTENDS JobLifecycle, FiniteSetTheorems, TLAPS

USE DEF JobOf, Advance, ReleaseSlots, TakeSlots

LEMMA MonusType == \A a, b \in Nat : Monus(a, b) \in Nat /\ Monus(a, b) <= a
  BY DEF Monus

LEMMA RunsFinite == IsFiniteSet(Runs)
  <1>1. IsFiniteSet(1 .. MaxClaims)
    BY ConstantsAssumption, FS_Interval
  <1>2. IsFiniteSet(Jobs)
    BY ConstantsAssumption
  <1> QED
    BY <1>1, <1>2, FS_Product DEF Runs

(* What a claim takes fits in the queue and in the worker.                 *)
LEMMA ClaimSize ==
  ASSUME NEW w \in Workers, NEW q \in Queues, NEW S, ClaimSet(w, q, S)
  PROVE  /\ S \subseteq Jobs /\ IsFiniteSet(S) /\ Cardinality(S) \in Nat
         /\ S = {} => Cardinality(S) = 0
         /\ \A j \in S : QueueOf[j] = q /\ status[j] \in Claimable /\ claims[j] < MaxClaims
  <1>1. S \subseteq Jobs
    BY DEF ClaimSet, Eligible
  <1>2. IsFiniteSet(S)
    BY <1>1, ConstantsAssumption, FS_Subset
  <1>3. Cardinality(S) \in Nat
    BY <1>2, FS_CardinalityType
  <1>4. S = {} => Cardinality(S) = 0
    BY FS_EmptySet
  <1> QED
    BY <1>1, <1>2, <1>3, <1>4 DEF ClaimSet, Eligible

-----------------------------------------------------------------------------
(* Type correctness.                                                       *)

LEMMA TypeInit == Init => TypeOK
  BY ConstantsAssumption DEF Init, TypeOK, JobStatus, RunState, NothingHeld, NoAttempts

LEMMA TypeStep ==
  ASSUME TypeOK, [Next]_vars
  PROVE  TypeOK'
  <1> USE ConstantsAssumption DEF TypeOK, vars, jobVars, queueVars, workerVars, runVars,
              orphanVars, JobStatus, RunState
  <1>1. ASSUME NEW w \in Workers, Register(w) PROVE TypeOK'
    BY <1>1 DEF Register
  <1>2. ASSUME NEW w \in Workers, Heartbeat(w) PROVE TypeOK'
    BY <1>2 DEF Heartbeat
  <1>3. ASSUME NEW w \in Workers, HeartbeatLapses(w) PROVE TypeOK'
    BY <1>3 DEF HeartbeatLapses
  <1>4. ASSUME NEW w \in Workers, Crash(w) PROVE TypeOK'
    BY <1>4 DEF Crash, NothingHeld, NoAttempts
  <1>5. ASSUME NEW w \in Workers, PollStart(w) PROVE TypeOK'
    BY <1>5 DEF PollStart
  <1>6. ASSUME NEW w \in Workers, PollBreak(w) PROVE TypeOK'
    BY <1>6 DEF PollBreak
  <1>7. ASSUME NEW w \in Workers, NEW q \in Queues, ProcessQueue(w, q) PROVE TypeOK'
    <2>1. PICK S \in SUBSET Eligible(q) : Claim(w, q, S)
      BY <1>7 DEF ProcessQueue
    <2>2. ClaimSet(w, q, S)
      BY <2>1 DEF Claim
    <2>3. /\ S \subseteq Jobs /\ Cardinality(S) \in Nat
          /\ \A j \in S : claims[j] < MaxClaims
      BY <2>2, ClaimSize
    <2>4. status' \in [Jobs -> JobStatus] /\ claimedBy' \in [Jobs -> Workers \cup {None}]
      BY <2>1 DEF Claim
    <2>5. attemptCount' \in [Jobs -> Nat] /\ claims' \in [Jobs -> 0 .. MaxClaims]
      BY <2>1, <2>3 DEF Claim
    <2>6. currentRunning' \in [Queues -> Nat]
      BY <2>1, <2>3 DEF Claim
    <2>7. pc' \in [Runs -> RunState] /\ runner' \in [Runs -> Workers \cup {None}]
      BY <2>1 DEF Claim
    <2>8. attempt' \in [Runs -> Nat]
      BY <2>1 DEF Claim, Runs
    <2>9. poll' \in [Workers -> SUBSET Queues]
      BY <1>7 DEF ProcessQueue
    <2> QED
      BY <1>7, <2>1, <2>4, <2>5, <2>6, <2>7, <2>8, <2>9 DEF ProcessQueue, Claim
  <1>8. ASSUME NEW w \in Workers, NEW q \in Queues, ProcessQueueError(w, q) PROVE TypeOK'
    BY <1>8 DEF ProcessQueueError, DbFails
  <1>9. ASSUME NEW r \in Runs, RunStep(r) PROVE TypeOK'
    <2> JobOf(r) \in Jobs /\ QueueOf[JobOf(r)] \in Queues
      BY DEF Runs
    <2>1. CASE CreateExecution(r)
      BY <2>1 DEF CreateExecution
    <2>2. CASE StartJob(r)
      BY <2>2 DEF StartJob
    <2>3. CASE RunHandler(r)
      BY <2>3 DEF RunHandler
    <2>4. CASE Complete(r)
      BY <2>4, MonusType DEF Complete
    <2>5. CASE LoseOwnership(r)
      BY <2>5 DEF LoseOwnership
    <2>6. CASE CloseLost(r)
      BY <2>6 DEF CloseLost
    <2>7. CASE Retry(r)
      BY <2>7, MonusType DEF Retry
    <2>8. CASE DeadLetter(r)
      BY <2>8, MonusType DEF DeadLetter
    <2>9. CASE FailureRejected(r)
      BY <2>9 DEF FailureRejected
    <2>10. CASE Release(r)
      BY <2>10, MonusType DEF Release
    <2> QED
      BY <1>9, <2>1, <2>2, <2>3, <2>4, <2>5, <2>6, <2>7, <2>8, <2>9, <2>10 DEF RunStep
  <1>10. ASSUME NEW r \in Runs, RunError(r) PROVE TypeOK'
    BY <1>10 DEF RunError, OnError, DbFails
  <1>11. ASSUME NEW s \in Detectors, OrphanList(s) PROVE TypeOK'
    BY <1>11 DEF OrphanList, Suspected
  <1>12. ASSUME NEW s \in Detectors, NEW w \in Workers, OrphanCheck(s, w) PROVE TypeOK'
    <2>1. suspects' \in [Detectors -> SUBSET Workers]
      BY <1>12 DEF OrphanCheck
    <2>2. /\ phase' \in [Detectors -> {"idle", "listed", "checked", "marked"}]
          /\ target' \in [Detectors -> Workers \cup {None}]
      <3>1. CASE workerStatus[w] = "active"
        <4>1. /\ phase' = [phase EXCEPT ![s] = "checked"]
              /\ target' = [target EXCEPT ![s] = w]
          BY <1>12, <3>1 DEF OrphanCheck
        <4> HIDE ConstantsAssumption
        <4> QED
          BY <4>1
      <3>2. CASE workerStatus[w] # "active"
        BY <1>12, <3>2 DEF OrphanCheck, PassPhase
      <3> QED
        BY <3>1, <3>2
    <2> QED
      BY <1>12, <2>1, <2>2 DEF OrphanCheck
  <1>13. ASSUME NEW s \in Detectors, OrphanMark(s) PROVE TypeOK'
    BY <1>13 DEF OrphanMark, JobsRunBy, Active
  <1>14. ASSUME NEW s \in Detectors, OrphanCommit(s) PROVE TypeOK'
    <2>1. \A q \in Queues : Cardinality({j \in Scanned(s) : QueueOf[j] = q}) \in Nat
      BY FS_Subset, FS_CardinalityType DEF Scanned
    <2>2. currentRunning' \in [Queues -> Nat]
      BY <1>14, <2>1, MonusType DEF OrphanCommit
    <2>3. /\ workerStatus' \in [Workers -> {"absent", "active", "offline"}]
          /\ status' \in [Jobs -> JobStatus]
          /\ claimedBy' \in [Jobs -> Workers \cup {None}]
      BY <1>14 DEF OrphanCommit
    <2>4. attemptCount' \in [Jobs -> Nat]
      BY <1>14 DEF OrphanCommit, AttemptsBack
    <2>5. row' \in [Runs -> {"none", "running", "completed", "failed"}]
      BY <1>14 DEF OrphanCommit
    <2> QED
      BY <1>14, <2>2, <2>3, <2>4, <2>5
      DEF OrphanCommit, EndPass, PassPhase, NothingHeld, NoAttempts
  <1>15. ASSUME NEW s \in Detectors, OrphanAbort(s) PROVE TypeOK'
    BY <1>15 DEF OrphanAbort, DbFails, EndPass, PassPhase, NothingHeld, NoAttempts
  <1>16. ASSUME NEW q \in Queues, NEW paused \in BOOLEAN, SetPaused(q, paused) PROVE TypeOK'
    BY <1>16 DEF SetPaused
  <1>17. ASSUME NEW j \in Jobs, RunAtPasses(j) PROVE TypeOK'
    BY <1>17 DEF RunAtPasses
  <1>18. ASSUME NEW j \in Jobs, CancelCheck(j) PROVE TypeOK'
    BY <1>18 DEF CancelCheck
  <1>19. ASSUME NEW j \in Jobs, CancelWrite(j) PROVE TypeOK'
    BY <1>19 DEF CancelWrite
  <1>20. ASSUME NEW j \in Jobs, Requeue(j) PROVE TypeOK'
    BY <1>20 DEF Requeue
  <1>21. CASE UNCHANGED vars
    BY <1>21
  <1> HIDE ConstantsAssumption DEF TypeOK, jobVars, queueVars, workerVars, runVars, orphanVars
  <1> QED
    BY <1>1, <1>2, <1>3, <1>4, <1>5, <1>6, <1>7, <1>8, <1>9, <1>10, <1>11, <1>12, <1>13,
       <1>14, <1>15, <1>16, <1>17, <1>18, <1>19, <1>20, <1>21
    DEF Next, PollStep, OrphanStep

(* Every variable keeps its type.                                          *)
THEOREM TypeCorrect == Spec => []TypeOK
  <1>1. TypeOK /\ [Next]_vars => TypeOK'
    BY TypeStep
  <1> QED
    BY TypeInit, <1>1, PTL DEF Spec

-----------------------------------------------------------------------------
(* The limit of a queue, with any faults.                                  *)

(* Only a claim, the four ends of an attempt that give a slot back, and a  *)
(* detector change current_running.                                        *)
LEMMA SlotsFrame ==
  ASSUME [Next]_vars
  PROVE  \/ UNCHANGED currentRunning
         \/ \E w \in Workers, q \in Queues : ProcessQueue(w, q)
         \/ \E r \in Runs : Complete(r) \/ Retry(r) \/ DeadLetter(r) \/ Release(r)
         \/ \E s \in Detectors : OrphanCommit(s)
  <1> USE DEF vars, queueVars
  <1>1. ASSUME NEW w \in Workers,
               Register(w) \/ Heartbeat(w) \/ HeartbeatLapses(w) \/ Crash(w) \/ PollStart(w)
                 \/ PollBreak(w) \/ \E q \in Queues : ProcessQueueError(w, q)
        PROVE  UNCHANGED currentRunning
    BY <1>1 DEF Register, Heartbeat, HeartbeatLapses, Crash, PollStart, PollBreak, ProcessQueueError
  <1>2. ASSUME NEW r \in Runs,
               CreateExecution(r) \/ StartJob(r) \/ RunHandler(r) \/ LoseOwnership(r)
                 \/ CloseLost(r) \/ FailureRejected(r) \/ RunError(r)
        PROVE  UNCHANGED currentRunning
    BY <1>2 DEF CreateExecution, StartJob, RunHandler, LoseOwnership, CloseLost, FailureRejected,
                RunError
  <1>3. ASSUME NEW s \in Detectors,
               OrphanList(s) \/ (\E w \in Workers : OrphanCheck(s, w)) \/ OrphanMark(s)
                 \/ OrphanAbort(s)
        PROVE  UNCHANGED currentRunning
    BY <1>3 DEF OrphanList, OrphanCheck, OrphanMark, OrphanAbort
  <1>4. ASSUME NEW q \in Queues, NEW paused \in BOOLEAN, SetPaused(q, paused)
        PROVE  UNCHANGED currentRunning
    BY <1>4 DEF SetPaused
  <1>5. ASSUME NEW j \in Jobs, RunAtPasses(j) \/ CancelCheck(j) \/ CancelWrite(j) \/ Requeue(j)
        PROVE  UNCHANGED currentRunning
    BY <1>5 DEF RunAtPasses, CancelCheck, CancelWrite, Requeue
  <1> QED
    BY <1>1, <1>2, <1>3, <1>4, <1>5 DEF Next, PollStep, RunStep, OrphanStep

(* Whoever gives slots back leaves the counter in its range.               *)
LEMMA MonusKeepsRange ==
  ASSUME NEW q \in Queues, NEW n \in Nat, NEW m \in Nat, m \in 0 .. Limit[q]
  PROVE  Monus(m, n) \in 0 .. Limit[q]
  <1>1. Limit[q] \in Nat
    BY ConstantsAssumption
  <1> QED
    BY <1>1 DEF Monus

LEMMA SlotsStep ==
  ASSUME TypeOK, SlotsWithinLimit, [Next]_vars
  PROVE  SlotsWithinLimit'
  <1> USE ConstantsAssumption
  <1>0. currentRunning \in [Queues -> Nat] /\ Limit \in [Queues -> Nat]
    BY DEF TypeOK
  <1>1. ASSUME NEW w \in Workers, NEW q \in Queues, ProcessQueue(w, q) PROVE SlotsWithinLimit'
    <2>1. PICK S \in SUBSET Eligible(q) : Claim(w, q, S)
      BY <1>1 DEF ProcessQueue
    <2>2. ClaimSet(w, q, S) /\ currentRunning' = [currentRunning EXCEPT ![q] = @ + Cardinality(S)]
      BY <2>1 DEF Claim
    <2>3. Cardinality(S) \in Nat /\ (S = {} => Cardinality(S) = 0)
      BY <2>2, ClaimSize
    <2>4. S # {} => Cardinality(S) <= QueueRoom(q)
      <3>1. Room(w, q) <= QueueRoom(q) \/ WorkerRoom(w) \notin Int
        BY <1>0 DEF Room, QueueRoom
      <3>2. WorkerRoom(w) \in Int
        <4>1. IsFiniteSet(LiveRuns(w))
          BY RunsFinite, FS_Subset DEF LiveRuns
        <4> QED
          BY <4>1, FS_CardinalityType DEF WorkerRoom, Load
      <3> QED
        BY <1>0, <2>2, <2>3, <3>1, <3>2 DEF ClaimSet, Room, QueueRoom
    <2> QED
      BY <1>0, <2>2, <2>3, <2>4 DEF SlotsWithinLimit, QueueRoom
  <1>2. ASSUME NEW r \in Runs, Complete(r) \/ Retry(r) \/ DeadLetter(r) \/ Release(r)
        PROVE  SlotsWithinLimit'
    <2>1. QueueOf[JobOf(r)] \in Queues
      BY DEF Runs
    <2>2. currentRunning' = [currentRunning EXCEPT ![QueueOf[JobOf(r)]] = Monus(@, 1)]
      BY <1>2 DEF Complete, Retry, DeadLetter, Release
    <2>3. ASSUME NEW q \in Queues PROVE currentRunning'[q] \in 0 .. Limit[q]
      BY <1>0, <2>1, <2>2, MonusKeepsRange DEF SlotsWithinLimit
    <2> QED
      BY <2>3 DEF SlotsWithinLimit
  <1>3. ASSUME NEW s \in Detectors, OrphanCommit(s) PROVE SlotsWithinLimit'
    <2>1. \A q \in Queues : Cardinality({j \in Scanned(s) : QueueOf[j] = q}) \in Nat
      BY FS_Subset, FS_CardinalityType DEF Scanned
    <2>2. currentRunning' = [q \in Queues |->
            Monus(currentRunning[q], Cardinality({j \in Scanned(s) : QueueOf[j] = q}))]
      BY <1>3 DEF OrphanCommit
    <2>3. ASSUME NEW q \in Queues PROVE currentRunning'[q] \in 0 .. Limit[q]
      BY <1>0, <2>1, <2>2, MonusKeepsRange DEF SlotsWithinLimit
    <2> QED
      BY <2>3 DEF SlotsWithinLimit
  <1>4. CASE UNCHANGED currentRunning
    BY <1>4 DEF SlotsWithinLimit
  <1> QED
    BY <1>1, <1>2, <1>3, <1>4, SlotsFrame

(* However transactions interleave and whatever fails, current_running     *)
(* stays between zero and the concurrency limit of the queue: the claim    *)
(* checks and takes slots in one transaction, and GREATEST keeps the       *)
(* double releases of a wrongly suspected worker from going below zero.    *)
THEOREM LimitRespected == Spec => []SlotsWithinLimit
  <1>1. Init => SlotsWithinLimit
    BY ConstantsAssumption DEF Init, SlotsWithinLimit
  <1>2. TypeOK /\ SlotsWithinLimit /\ [Next]_vars => SlotsWithinLimit'
    BY SlotsStep
  <1> QED
    BY <1>1, <1>2, TypeCorrect, PTL DEF Spec

-----------------------------------------------------------------------------
(* The dead letter queue, with any faults.                                 *)

LEMMA DeadLetterStep ==
  ASSUME TypeOK, DeadLetterHasEntry, [Next]_vars
  PROVE  DeadLetterHasEntry'
  <1> USE DEF vars, jobVars, DeadLetterHasEntry, TypeOK
  <1>1. ASSUME NEW w \in Workers,
               Register(w) \/ Heartbeat(w) \/ HeartbeatLapses(w) \/ Crash(w) \/ PollStart(w)
                 \/ PollBreak(w) \/ \E q \in Queues : ProcessQueueError(w, q)
        PROVE  DeadLetterHasEntry'
    BY <1>1 DEF Register, Heartbeat, HeartbeatLapses, Crash, PollStart, PollBreak, ProcessQueueError
  <1>2. ASSUME NEW w \in Workers, NEW q \in Queues, ProcessQueue(w, q) PROVE DeadLetterHasEntry'
    BY <1>2 DEF ProcessQueue, Claim
  <1>3. ASSUME NEW r \in Runs, RunStep(r) PROVE DeadLetterHasEntry'
    <2>1. CASE UNCHANGED <<status, dlq>>
      BY <2>1
    <2>2. CASE StartJob(r) \/ Complete(r) \/ Retry(r) \/ Release(r)
      BY <2>2 DEF StartJob, Complete, Retry, Release
    <2>3. CASE DeadLetter(r)
      BY <2>3 DEF DeadLetter
    <2> QED
      BY <1>3, <2>1, <2>2, <2>3
      DEF RunStep, CreateExecution, RunHandler, LoseOwnership, CloseLost, FailureRejected
  <1>4. ASSUME NEW r \in Runs, RunError(r) PROVE DeadLetterHasEntry'
    BY <1>4 DEF RunError
  <1>5. ASSUME NEW s \in Detectors, OrphanCommit(s) PROVE DeadLetterHasEntry'
    BY <1>5 DEF OrphanCommit
  <1>6. ASSUME NEW s \in Detectors,
               OrphanList(s) \/ (\E w \in Workers : OrphanCheck(s, w)) \/ OrphanMark(s)
                 \/ OrphanAbort(s)
        PROVE  DeadLetterHasEntry'
    BY <1>6 DEF OrphanList, OrphanCheck, OrphanMark, OrphanAbort
  <1>7. ASSUME NEW q \in Queues, NEW paused \in BOOLEAN, SetPaused(q, paused)
        PROVE  DeadLetterHasEntry'
    BY <1>7 DEF SetPaused
  <1>8. ASSUME NEW j \in Jobs, RunAtPasses(j) \/ CancelCheck(j) \/ CancelWrite(j) \/ Requeue(j)
        PROVE  DeadLetterHasEntry'
    BY <1>8 DEF RunAtPasses, CancelCheck, CancelWrite, Requeue
  <1>9. CASE UNCHANGED vars
    BY <1>9
  <1> HIDE DEF DeadLetterHasEntry, TypeOK
  <1> QED
    BY <1>1, <1>2, <1>3, <1>4, <1>5, <1>6, <1>7, <1>8, <1>9 DEF Next, PollStep, OrphanStep

(* A job shown as dead-letter can always be requeued by a user: its entry  *)
(* is created and deleted with the status, and no other write leaves the   *)
(* status behind without the entry.                                        *)
THEOREM DeadLetterRecorded == Spec => []DeadLetterHasEntry
  <1>1. Init => DeadLetterHasEntry
    BY DEF Init, DeadLetterHasEntry
  <1>2. TypeOK /\ DeadLetterHasEntry /\ [Next]_vars => DeadLetterHasEntry'
    BY DeadLetterStep
  <1> QED
    BY <1>1, <1>2, TypeCorrect, PTL DEF Spec

-----------------------------------------------------------------------------
(* The capacity of a worker and the records of its executions, with any    *)
(* faults.                                                                 *)

(* Only a claim starts executions, or gives one to a worker.               *)
LEMMA LiveFrame ==
  ASSUME TypeOK, [Next]_vars
  PROVE  \/ \E w \in Workers, q \in Queues : ProcessQueue(w, q)
         \/ /\ UNCHANGED <<claims, runner, attempt>>
            /\ \A r \in Runs : (Live(r)' => Live(r)) /\ (pc[r] = "none" <=> pc'[r] = "none")
                               /\ (pc[r] = "ended" => pc'[r] = "ended")
  <1> USE DEF TypeOK, vars, runVars, Live
  <1>1. ASSUME NEW w \in Workers,
               Register(w) \/ Heartbeat(w) \/ HeartbeatLapses(w) \/ PollStart(w)
                 \/ PollBreak(w) \/ \E q \in Queues : ProcessQueueError(w, q)
        PROVE  UNCHANGED runVars
    BY <1>1 DEF Register, Heartbeat, HeartbeatLapses, PollStart, PollBreak, ProcessQueueError
  <1>2. ASSUME NEW w \in Workers, Crash(w)
        PROVE  /\ UNCHANGED <<claims, runner, attempt>>
               /\ \A r \in Runs : (Live(r)' => Live(r)) /\ (pc[r] = "none" <=> pc'[r] = "none")
                                  /\ (pc[r] = "ended" => pc'[r] = "ended")
    BY <1>2 DEF Crash, LiveRuns
  <1>3. ASSUME NEW r \in Runs, RunStep(r)
        PROVE  /\ UNCHANGED <<claims, runner, attempt>>
               /\ \A x \in Runs : (Live(x)' => Live(x)) /\ (pc[x] = "none" <=> pc'[x] = "none")
                                  /\ (pc[x] = "ended" => pc'[x] = "ended")
    BY <1>3 DEF RunStep, CreateExecution, StartJob, RunHandler, Complete, LoseOwnership, CloseLost,
                Retry, DeadLetter, FailureRejected, Release
  <1>4. ASSUME NEW r \in Runs, RunError(r)
        PROVE  /\ UNCHANGED <<claims, runner, attempt>>
               /\ \A x \in Runs : (Live(x)' => Live(x)) /\ (pc[x] = "none" <=> pc'[x] = "none")
                                  /\ (pc[x] = "ended" => pc'[x] = "ended")
    <2>1. /\ pc[r] \in {"creating", "starting", "committing", "lost", "failing", "releasing"}
          /\ pc' = [pc EXCEPT ![r] = OnError(pc[r])] /\ UNCHANGED <<claims, runner, attempt>>
      BY <1>4 DEF RunError
    <2>2. OnError(pc[r]) # "none"
      BY <2>1 DEF OnError
    <2> QED
      BY <2>1, <2>2
  <1>5. ASSUME NEW s \in Detectors,
               OrphanList(s) \/ (\E w \in Workers : OrphanCheck(s, w)) \/ OrphanMark(s)
                 \/ OrphanAbort(s)
        PROVE  UNCHANGED runVars
    BY <1>5 DEF OrphanList, OrphanCheck, OrphanMark, OrphanAbort
  <1>6. ASSUME NEW s \in Detectors, OrphanCommit(s) PROVE UNCHANGED <<claims, pc, runner, attempt>>
    BY <1>6 DEF OrphanCommit
  <1>7. ASSUME NEW q \in Queues, NEW paused \in BOOLEAN, SetPaused(q, paused)
        PROVE  UNCHANGED runVars
    BY <1>7 DEF SetPaused
  <1>8. ASSUME NEW j \in Jobs, RunAtPasses(j) \/ CancelCheck(j) \/ CancelWrite(j) \/ Requeue(j)
        PROVE  UNCHANGED runVars
    BY <1>8 DEF RunAtPasses, CancelCheck, CancelWrite, Requeue
  <1> QED
    BY <1>1, <1>2, <1>3, <1>4, <1>5, <1>6, <1>7, <1>8 DEF Next, PollStep, OrphanStep

(* A claim starts as many executions as it takes jobs.                     *)
LEMMA NewRunsSize ==
  ASSUME NEW S, IsFiniteSet(S)
  PROVE  IsFiniteSet(NewRuns(S)) /\ Cardinality(NewRuns(S)) <= Cardinality(S)
  <1> DEFINE f == [r \in NewRuns(S) |-> JobOf(r)]
  <1>1. f \in [NewRuns(S) -> S] /\ \A x, y \in NewRuns(S) : f[x] = f[y] => x = y
    BY DEF NewRuns
  <1>2. f \in Injection(NewRuns(S), S)
    BY <1>1 DEF Injection, IsInjective
  <1> QED
    BY <1>2, FS_Injection

LEMMA LoadStep ==
  ASSUME TypeOK, LoadWithinCapacity, [Next]_vars
  PROVE  LoadWithinCapacity'
  <1>1. ASSUME NEW w \in Workers
        PROVE  IsFiniteSet(LiveRuns(w)) /\ Cardinality(LiveRuns(w)) \in Nat /\ Capacity \in Nat
    BY RunsFinite, FS_Subset, FS_CardinalityType, ConstantsAssumption DEF LiveRuns
  <1>2. ASSUME NEW w \in Workers, LiveRuns(w)' \subseteq LiveRuns(w)
        PROVE  Cardinality(LiveRuns(w)') <= Capacity
    <2>1. /\ Cardinality(LiveRuns(w)') \in Nat
          /\ Cardinality(LiveRuns(w)') <= Cardinality(LiveRuns(w))
      BY <1>1, <1>2, FS_Subset, FS_CardinalityType
    <2> QED
      BY <1>1, <2>1 DEF LoadWithinCapacity
  <1>3. ASSUME NEW w \in Workers, NEW q \in Queues, ProcessQueue(w, q) PROVE LoadWithinCapacity'
    <2>1. PICK S \in SUBSET Eligible(q) : Claim(w, q, S)
      BY <1>3 DEF ProcessQueue
    <2>2. ClaimSet(w, q, S) /\ Load(w) < Capacity
      BY <1>3, <2>1 DEF Claim, ProcessQueue
    <2>3. /\ IsFiniteSet(S) /\ Cardinality(S) \in Nat
          /\ S = {} => Cardinality(S) = 0
      BY <2>2, ClaimSize
    <2>4. /\ \A r \in Runs : r \notin NewRuns(S) => pc'[r] = pc[r] /\ runner'[r] = runner[r]
          /\ \A r \in Runs : r \in NewRuns(S) => runner'[r] = w
      BY <2>1 DEF Claim
    <2>5. ASSUME NEW v \in Workers, v # w PROVE LiveRuns(v)' \subseteq LiveRuns(v)
      BY <2>4, <2>5 DEF LiveRuns, Live
    <2>6. LiveRuns(w)' \subseteq LiveRuns(w) \cup NewRuns(S)
      BY <2>4 DEF LiveRuns, Live
    <2>7. Cardinality(LiveRuns(w)') <= Capacity
      <3>1. IsFiniteSet(NewRuns(S)) /\ Cardinality(NewRuns(S)) <= Cardinality(S)
        BY <2>3, NewRunsSize
      <3>2. /\ IsFiniteSet(LiveRuns(w) \cup NewRuns(S)) /\ IsFiniteSet(LiveRuns(w) \cap NewRuns(S))
            /\ Cardinality(LiveRuns(w) \cup NewRuns(S)) =
                 Cardinality(LiveRuns(w)) + Cardinality(NewRuns(S))
                   - Cardinality(LiveRuns(w) \cap NewRuns(S))
        BY <1>1, <3>1, FS_Union, FS_Intersection
      <3>3. /\ Cardinality(LiveRuns(w)') \in Nat
            /\ Cardinality(LiveRuns(w)') <= Cardinality(LiveRuns(w) \cup NewRuns(S))
        BY <2>6, <3>2, FS_Subset, FS_CardinalityType
      <3>4. /\ Cardinality(NewRuns(S)) \in Nat
            /\ Cardinality(LiveRuns(w) \cap NewRuns(S)) \in Nat
        BY <3>1, <3>2, FS_CardinalityType
      <3>5. S # {} => Cardinality(S) <= WorkerRoom(w)
        <4>1. QueueRoom(q) \in Int
          BY ConstantsAssumption DEF QueueRoom, TypeOK
        <4> QED
          BY <1>1, <2>2, <2>3, <4>1 DEF ClaimSet, Room, WorkerRoom, Load
      <3> QED
        BY <1>1, <2>2, <2>3, <3>1, <3>2, <3>3, <3>4, <3>5 DEF WorkerRoom, Load
    <2> QED
      BY <1>2, <2>5, <2>7 DEF LoadWithinCapacity
  <1>4. CASE UNCHANGED runner /\ \A r \in Runs : Live(r)' => Live(r)
    BY <1>2, <1>4 DEF LiveRuns, LoadWithinCapacity
  <1> QED
    BY <1>3, <1>4, LiveFrame

(* A worker never has more than concurrencyCapacity executions under way,  *)
(* however many queues it polls, whatever fails and whoever is suspected:  *)
(* one poll runs at a time, and what it claims in each queue is bounded by *)
(* the load at that moment, which only falls in between.                   *)
THEOREM CapacityRespected == Spec => []LoadWithinCapacity
  <1>1. Init => LoadWithinCapacity
    <2> SUFFICES ASSUME Init, NEW w \in Workers PROVE Cardinality(LiveRuns(w)) <= Capacity
      BY DEF LoadWithinCapacity
    <2>1. LiveRuns(w) = {}
      BY DEF Init, LiveRuns, Live
    <2> QED
      BY <2>1, FS_EmptySet, ConstantsAssumption
  <1>2. TypeOK /\ LoadWithinCapacity /\ [Next]_vars => LoadWithinCapacity'
    BY LoadStep
  <1> QED
    BY <1>1, <1>2, TypeCorrect, PTL DEF Spec

(* An execution beyond the claims of its job has not begun; the row of one *)
(* that has not come to create it does not exist; and an execution that is *)
(* recorded as completed is over, so nothing rewrites its record.          *)
Fresh == \A r \in Runs : r[2] > claims[JobOf(r)] => pc[r] = "none"
RecordsFinal ==
  \A r \in Runs : /\ pc[r] \in {"none", "creating", "releasing"} => row[r] = "none"
                  /\ row[r] = "completed" => pc[r] = "ended"
History == Fresh /\ RecordsFinal

LEMMA NewRunsFresh ==
  ASSUME TypeOK, Fresh, NEW w \in Workers, NEW q \in Queues, NEW S, ClaimSet(w, q, S),
         NEW r \in Runs, r \in NewRuns(S)
  PROVE  /\ JobOf(r) \in S /\ r[2] = claims[JobOf(r)] + 1 /\ pc[r] = "none"
  <1>1. PICK j \in S : r = <<j, claims[j] + 1>>
    BY DEF NewRuns
  <1>2. S \subseteq Jobs
    BY ClaimSize
  <1>3. JobOf(r) = j /\ r[2] = claims[j] + 1 /\ claims[j] \in Nat
    BY <1>1, <1>2 DEF TypeOK
  <1> QED
    BY <1>3 DEF Fresh

LEMMA FreshStep ==
  ASSUME TypeOK, Fresh, [Next]_vars
  PROVE  Fresh'
  <1>1. ASSUME NEW w \in Workers, NEW q \in Queues, ProcessQueue(w, q) PROVE Fresh'
    <2>1. PICK S \in SUBSET Eligible(q) : Claim(w, q, S)
      BY <1>1 DEF ProcessQueue
    <2>2. S \subseteq Jobs /\ \A j \in Jobs : claims[j] \in Nat
      BY DEF Eligible, TypeOK
    <2>3. \A j \in Jobs : claims'[j] = IF j \in S THEN claims[j] + 1 ELSE claims[j]
      BY <2>1 DEF Claim
    <2>4. \A r \in Runs : r \notin NewRuns(S) => pc'[r] = pc[r]
      BY <2>1 DEF Claim
    <2>5. \A r \in Runs : JobOf(r) \in Jobs /\ r[2] \in Nat /\ r = <<JobOf(r), r[2]>>
      BY DEF Runs
    <2>6. \A r \in NewRuns(S) : JobOf(r) \in S /\ r[2] = claims[JobOf(r)] + 1
      BY DEF NewRuns
    <2>7. ASSUME NEW r \in Runs, r[2] > claims'[JobOf(r)] PROVE pc'[r] = "none"
      <3>1. r \notin NewRuns(S)
        BY <2>2, <2>3, <2>5, <2>6, <2>7
      <3>2. r[2] > claims[JobOf(r)]
        BY <2>2, <2>3, <2>5, <2>7
      <3> QED
        BY <2>4, <3>1, <3>2 DEF Fresh
    <2> QED
      BY <2>7 DEF Fresh
  <1>2. CASE UNCHANGED claims /\ \A r \in Runs : pc[r] = "none" <=> pc'[r] = "none"
    BY <1>2 DEF Fresh
  <1> QED
    BY <1>1, <1>2, LiveFrame

(* What a step may do to the row and the place of an execution, and how a  *)
(* job may have become completed in it.                                    *)
Recorded(r) ==
  /\ row'[r] # row[r] =>
       \/ pc[r] = "creating" /\ pc'[r] = "starting" /\ row'[r] = "running"
       \/ pc[r] = "committing" /\ pc'[r] = "ended" /\ row'[r] = "completed"
       \/ pc[r] \in {"lost", "failing"} /\ pc'[r] = "ended" /\ row'[r] = "failed"
       \/ row[r] = "running" /\ row'[r] = "failed" /\ pc'[r] = pc[r]
  /\ pc'[r] = "none" => pc[r] = "none"
  /\ pc'[r] = "creating" => pc[r] \in {"none", "creating"}
  /\ pc'[r] = "releasing" => pc[r] \in {"creating", "releasing"}
  /\ pc[r] = "ended" => pc'[r] = "ended"
Completed(j) ==
  status'[j] = "completed" =>
    \/ status[j] = "completed"
    \/ \E r \in Runs : JobOf(r) = j /\ row'[r] = "completed"
AllRecorded == (\A r \in Runs : Recorded(r)) /\ (\A j \in Jobs : Completed(j))

LEMMA RecordedStep ==
  ASSUME TypeOK, Fresh, [Next]_vars
  PROVE  AllRecorded
  <1>t. /\ row \in [Runs -> {"none", "running", "completed", "failed"}]
        /\ pc \in [Runs -> RunState] /\ status \in [Jobs -> JobStatus]
        /\ \A r \in Runs : JobOf(r) \in Jobs
    BY DEF TypeOK, Runs
  <1> USE DEF AllRecorded, Recorded, Completed, vars, jobVars, runVars
  <1>1. ASSUME NEW w \in Workers,
               Register(w) \/ Heartbeat(w) \/ HeartbeatLapses(w) \/ PollStart(w)
                 \/ PollBreak(w) \/ \E q \in Queues : ProcessQueueError(w, q)
        PROVE  AllRecorded
    <2>1. UNCHANGED <<row, pc, status>>
      BY <1>1 DEF Register, Heartbeat, HeartbeatLapses, PollStart, PollBreak, ProcessQueueError
    <2> QED
      BY <2>1
  <1>2. ASSUME NEW w \in Workers, Crash(w) PROVE AllRecorded
    BY <1>2, <1>t DEF Crash, LiveRuns, Live
  <1>3. ASSUME NEW w \in Workers, NEW q \in Queues, ProcessQueue(w, q) PROVE AllRecorded
    <2>1. PICK S \in SUBSET Eligible(q) : Claim(w, q, S)
      BY <1>3 DEF ProcessQueue
    <2>2. UNCHANGED row /\ \A j \in Jobs : status'[j] = "completed" => status[j] = "completed"
      BY <2>1 DEF Claim
    <2>3. \A r \in Runs : pc'[r] = IF r \in NewRuns(S) THEN "creating" ELSE pc[r]
      BY <2>1 DEF Claim
    <2>4. \A r \in Runs : r \in NewRuns(S) => pc[r] = "none"
      BY <2>1, NewRunsFresh DEF Claim
    <2> QED
      BY <2>2, <2>3, <2>4
  <1>4. ASSUME NEW r \in Runs, RunStep(r) PROVE AllRecorded
    <2>1. CASE CreateExecution(r)
      BY <2>1, <1>t DEF CreateExecution
    <2>2. CASE StartJob(r) \/ Release(r)
      BY <2>2, <1>t DEF StartJob, Release
    <2>3. CASE RunHandler(r) \/ LoseOwnership(r) \/ FailureRejected(r)
      BY <2>3, <1>t DEF RunHandler, LoseOwnership, FailureRejected
    <2>4. CASE Complete(r)
      BY <2>4, <1>t DEF Complete
    <2>5. CASE CloseLost(r) \/ Retry(r) \/ DeadLetter(r)
      BY <2>5, <1>t DEF CloseLost, Retry, DeadLetter
    <2> QED
      BY <1>4, <2>1, <2>2, <2>3, <2>4, <2>5 DEF RunStep
  <1>5. ASSUME NEW r \in Runs, RunError(r) PROVE AllRecorded
    BY <1>5, <1>t DEF RunError, OnError
  <1>6. ASSUME NEW s \in Detectors,
               OrphanList(s) \/ (\E w \in Workers : OrphanCheck(s, w)) \/ OrphanMark(s)
                 \/ OrphanAbort(s)
        PROVE  AllRecorded
    <2>1. UNCHANGED <<row, pc, status>>
      BY <1>6 DEF OrphanList, OrphanCheck, OrphanMark, OrphanAbort
    <2> QED
      BY <2>1
  <1>7. ASSUME NEW s \in Detectors, OrphanCommit(s) PROVE AllRecorded
    <2>1. /\ UNCHANGED pc
          /\ \A r \in Runs : row'[r] # row[r] => row[r] = "running" /\ row'[r] = "failed"
          /\ \A j \in Jobs : status'[j] = "completed" => status[j] = "completed"
      BY <1>7 DEF OrphanCommit
    <2> QED
      BY <2>1
  <1>8. ASSUME NEW q \in Queues, NEW paused \in BOOLEAN, SetPaused(q, paused) PROVE AllRecorded
    BY <1>8 DEF SetPaused
  <1>9. ASSUME NEW j \in Jobs, RunAtPasses(j) \/ CancelCheck(j) \/ CancelWrite(j) \/ Requeue(j)
        PROVE  AllRecorded
    <2>1. /\ UNCHANGED <<row, pc>>
          /\ \A x \in Jobs : status'[x] = "completed" => status[x] = "completed"
      BY <1>9, <1>t DEF RunAtPasses, CancelCheck, CancelWrite, Requeue
    <2> QED
      BY <2>1
  <1>10. CASE UNCHANGED vars
    BY <1>10
  <1> HIDE DEF AllRecorded, Recorded, Completed, vars, jobVars, runVars
  <1> QED
    BY <1>1, <1>2, <1>3, <1>4, <1>5, <1>6, <1>7, <1>8, <1>9, <1>10
    DEF Next, PollStep, OrphanStep

LEMMA HistoryStep ==
  ASSUME TypeOK, History, [Next]_vars
  PROVE  History'
  <1>1. Fresh'
    BY FreshStep DEF History
  <1>2. RecordsFinal'
    BY RecordedStep DEF AllRecorded, History, RecordsFinal, Recorded, TypeOK
  <1> QED
    BY <1>1, <1>2 DEF History

LEMMA CompletedStep ==
  ASSUME TypeOK, History, CompletedHasRecord, [Next]_vars
  PROVE  CompletedHasRecord'
  <1>1. \A r \in Runs : row[r] = "completed" => row'[r] = "completed"
    BY RecordedStep DEF AllRecorded, History, RecordsFinal, Recorded
  <1>2. \A j \in Jobs : Completed(j)
    BY RecordedStep DEF AllRecorded, History
  <1> QED
    BY <1>1, <1>2 DEF CompletedHasRecord, Completed

(* Executions are numbered by the claims of their job, and the record of a *)
(* completed execution is never rewritten.                                 *)
THEOREM HistoryKept == Spec => []History
  <1>1. Init => History
    BY ConstantsAssumption DEF Init, History, Fresh, RecordsFinal
  <1>2. TypeOK /\ History /\ [Next]_vars => History'
    BY HistoryStep
  <1> QED
    BY <1>1, <1>2, TypeCorrect, PTL DEF Spec

(* A completed job always has a completed execution record to show for it, *)
(* whatever detectors, requeues and late executions write afterwards: the  *)
(* detector fails running rows only, and a lost execution its own row only.*)
THEOREM CompletionRecorded == Spec => []CompletedHasRecord
  <1>1. Init => CompletedHasRecord
    BY DEF Init, CompletedHasRecord
  <1>2. TypeOK /\ History /\ CompletedHasRecord /\ [Next]_vars => CompletedHasRecord'
    BY CompletedStep
  <1> QED
    BY <1>1, <1>2, TypeCorrect, HistoryKept, PTL DEF Spec
=============================================================================
