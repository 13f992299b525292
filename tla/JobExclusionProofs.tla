------------------------- MODULE JobExclusionProofs -------------------------
(***************************************************************************)
(* When no live worker is taken for dead, a job has one executor at most,  *)
(* and the concurrency limit of a queue bounds the executions that are     *)
(* under way.  Crashes, failed requests, cancellations, pauses and requeues*)
(* are all allowed.                                                        *)
(***************************************************************************)
EXTENDS JobLifecycleProofs

USE DEF JobOf, Advance, ReleaseSlots, TakeSlots

LEMMA ExclusionInit == Init => Exclusion
  BY ConstantsAssumption
  DEF Init, Exclusion, StaleIsDown, SuspectsAreDown, OneMarker, LiveHoldsJob, ScanHoldsJob,
      DeadIsIdle, OneExecutor, Live, NothingHeld

LEMMA ExclusionStep ==
  ASSUME FalseSuspects = {}, TypeOK, Exclusion, [Next]_vars
  PROVE  Exclusion'
  <1> USE ConstantsAssumption
      DEF TypeOK, Exclusion, StaleIsDown, SuspectsAreDown, OneMarker, LiveHoldsJob,
          ScanHoldsJob, DeadIsIdle, OneExecutor, Live, Executing, BeingTaken,
          jobVars, queueVars, workerVars, runVars, orphanVars
  <1>0. /\ StaleIsDown /\ SuspectsAreDown /\ OneMarker
        /\ LiveHoldsJob /\ ScanHoldsJob /\ DeadIsIdle /\ OneExecutor
    OBVIOUS
  <1>t. /\ status \in [Jobs -> JobStatus] /\ claimedBy \in [Jobs -> Workers \cup {None}]
        /\ dlq \subseteq Jobs
        /\ proc \in [Workers -> {"new", "up", "down"}] /\ stale \in [Workers -> BOOLEAN]
        /\ pc \in [Runs -> RunState] /\ runner \in [Runs -> Workers \cup {None}]
        /\ phase \in [Detectors -> {"idle", "listed", "checked", "marked"}]
        /\ suspects \in [Detectors -> SUBSET Workers]
        /\ target \in [Detectors -> Workers \cup {None}]
    OBVIOUS
  <1>j. \A r \in Runs : JobOf(r) \in Jobs
    BY DEF Runs
  <1>1. ASSUME NEW w \in Workers, Register(w) PROVE Exclusion'
    BY <1>1 DEF Register
  <1>2. ASSUME NEW w \in Workers, Heartbeat(w) PROVE Exclusion'
    BY <1>2 DEF Heartbeat
  <1>3. ASSUME NEW w \in Workers, HeartbeatLapses(w) PROVE Exclusion'
    BY <1>3 DEF HeartbeatLapses
  <1>4. ASSUME NEW w \in Workers, Crash(w) PROVE Exclusion'
    <2>1. \A x \in Runs : Live(x)' => Live(x) /\ runner[x] # w
      BY <1>4 DEF Crash, LiveRuns
    <2>2. /\ proc' = [proc EXCEPT ![w] = "down"]
          /\ UNCHANGED <<status, claimedBy, dlq, runner, stale>>
      BY <1>4 DEF Crash
    <2>3. \A s \in Detectors, j \in Jobs : scan'[s][j] # "absent" => s # w /\ scan'[s] = scan[s]
      BY <1>4 DEF Crash, NothingHeld
    <2>4. \A s \in Detectors :
            /\ s # w => phase'[s] = phase[s] /\ suspects'[s] = suspects[s] /\ target'[s] = target[s]
            /\ s = w => phase'[s] = "idle" /\ suspects'[s] = {}
      BY <1>4 DEF Crash
    <2> HIDE ConstantsAssumption
        DEF TypeOK, Exclusion, StaleIsDown, SuspectsAreDown, OneMarker, LiveHoldsJob,
            ScanHoldsJob, DeadIsIdle, OneExecutor, Live, Executing, BeingTaken
    <2>5. StaleIsDown' /\ OneMarker'
      BY <1>0, <1>t, <2>2, <2>4 DEF StaleIsDown, OneMarker
    <2>6. SuspectsAreDown'
      BY <1>0, <1>t, <2>2, <2>4 DEF SuspectsAreDown
    <2>7. LiveHoldsJob' /\ OneExecutor'
      BY <1>0, <1>t, <2>1, <2>2 DEF LiveHoldsJob, OneExecutor
    <2>8. ScanHoldsJob'
      BY <1>0, <2>2, <2>3, <2>4 DEF ScanHoldsJob
    <2>9. DeadIsIdle'
      BY <1>0, <1>t, <2>1, <2>2, <2>3 DEF DeadIsIdle, Executing, BeingTaken
    <2> QED
      BY <2>5, <2>6, <2>7, <2>8, <2>9 DEF Exclusion
  <1>5. ASSUME NEW w \in Workers, PollStart(w) \/ PollBreak(w) PROVE Exclusion'
    BY <1>5 DEF PollStart, PollBreak
  <1>6. ASSUME NEW r \in Runs, RunStep(r) PROVE Exclusion'
    <2> JobOf(r) \in Jobs
      BY DEF Runs
    <2>1. CASE CreateExecution(r) \/ RunHandler(r) \/ LoseOwnership(r) \/ CloseLost(r)
                 \/ FailureRejected(r)
      <3>1. \A x \in Runs : Live(x)' => Live(x)
        BY <2>1 DEF CreateExecution, RunHandler, LoseOwnership, CloseLost, FailureRejected
      <3>2. UNCHANGED <<status, claimedBy, dlq, runner, stale, proc, phase, suspects, target, scan>>
        BY <2>1 DEF CreateExecution, RunHandler, LoseOwnership, CloseLost, FailureRejected
      <3> QED
        BY <3>1, <3>2
    <2>2. CASE StartJob(r)
      <3>1. /\ Live(r) /\ \A x \in Runs : Live(x)' <=> Live(x)
            /\ status' = [status EXCEPT ![JobOf(r)] = "running"]
            /\ UNCHANGED <<claimedBy, dlq, runner, stale, proc, phase, suspects, target, scan>>
        BY <2>2 DEF StartJob
      <3> HIDE ConstantsAssumption
          DEF TypeOK, Exclusion, StaleIsDown, SuspectsAreDown, OneMarker, LiveHoldsJob,
              ScanHoldsJob, DeadIsIdle, OneExecutor, Live, Executing, BeingTaken
      <3>2. StaleIsDown' /\ SuspectsAreDown' /\ OneMarker' /\ OneExecutor'
        BY <1>0, <3>1 DEF StaleIsDown, SuspectsAreDown, OneMarker, OneExecutor
      <3>3. LiveHoldsJob' /\ ScanHoldsJob'
        BY <1>0, <1>t, <1>j, <3>1 DEF LiveHoldsJob, ScanHoldsJob
      <3>4. DeadIsIdle'
        BY <1>0, <1>t, <1>j, <3>1 DEF DeadIsIdle, Executing, BeingTaken
      <3> QED
        BY <3>2, <3>3, <3>4 DEF Exclusion
    <2>3. CASE Complete(r) \/ Retry(r) \/ DeadLetter(r) \/ Release(r)
      <3>1. /\ Live(r) /\ \A x \in Runs : Live(x)' <=> Live(x) /\ x # r
            /\ \A j \in Jobs \ {JobOf(r)} : status'[j] = status[j] /\ claimedBy'[j] = claimedBy[j]
            /\ UNCHANGED <<runner, stale, proc, phase, suspects, target, scan>>
        BY <2>3 DEF Complete, Retry, DeadLetter, Release
      <3>2. \/ UNCHANGED dlq
            \/ dlq' = dlq \cup {JobOf(r)} /\ status'[JobOf(r)] = "dead-letter"
        BY <2>3 DEF Complete, Retry, DeadLetter, Release
      <3> HIDE ConstantsAssumption
          DEF TypeOK, Exclusion, StaleIsDown, SuspectsAreDown, OneMarker, LiveHoldsJob,
              ScanHoldsJob, DeadIsIdle, OneExecutor, Live, Executing, BeingTaken
      <3>3. ~\E x \in Runs : JobOf(x) = JobOf(r) /\ Live(x)'
        BY <1>0, <3>1 DEF OneExecutor
      <3>4. \A s \in Detectors : scan[s][JobOf(r)] = "absent"
        BY <1>0, <1>j, <3>1 DEF LiveHoldsJob, ScanHoldsJob, SuspectsAreDown
      <3>5. StaleIsDown' /\ SuspectsAreDown' /\ OneMarker' /\ OneExecutor'
        BY <1>0, <3>1 DEF StaleIsDown, SuspectsAreDown, OneMarker, OneExecutor
      <3>6. LiveHoldsJob'
        BY <1>0, <1>j, <3>1, <3>3 DEF LiveHoldsJob
      <3>7. ScanHoldsJob'
        BY <1>0, <3>1, <3>4 DEF ScanHoldsJob
      <3>8. JobOf(r) \notin dlq
        BY <1>0, <3>1 DEF DeadIsIdle, Executing
      <3>9. DeadIsIdle'
        <4>1. ASSUME NEW j \in dlq', j # JobOf(r)
              PROVE  /\ status'[j] \in {"dead-letter", "cancelled"}
                     /\ ~Executing(j)' /\ ~BeingTaken(j)'
          BY <1>0, <1>t, <3>1, <3>2, <4>1 DEF DeadIsIdle, Executing, BeingTaken
        <4>2. ASSUME JobOf(r) \in dlq'
              PROVE  /\ status'[JobOf(r)] \in {"dead-letter", "cancelled"}
                     /\ ~Executing(JobOf(r))' /\ ~BeingTaken(JobOf(r))'
          BY <3>1, <3>2, <3>3, <3>4, <3>8, <4>2 DEF Executing, BeingTaken
        <4> QED
          BY <4>1, <4>2 DEF DeadIsIdle
      <3> QED
        BY <3>5, <3>6, <3>7, <3>9 DEF Exclusion
    <2> QED
      BY <1>6, <2>1, <2>2, <2>3 DEF RunStep
  <1>7. ASSUME NEW w \in Workers, NEW q \in Queues, ProcessQueue(w, q) PROVE Exclusion'
    <2>1. PICK S \in SUBSET Eligible(q) : Claim(w, q, S)
      BY <1>7 DEF ProcessQueue
    <2>2. S \subseteq Jobs /\ \A j \in S : status[j] \in {"queued", "scheduled"}
      BY DEF Eligible, Claimable
    <2>3. proc[w] = "up" /\ UNCHANGED <<dlq, stale, proc, phase, suspects, target, scan>>
      BY <1>7, <2>1 DEF ProcessQueue, Claim
    <2>4. \A j \in Jobs :
            /\ j \in S => status'[j] = "claimed" /\ claimedBy'[j] = w
            /\ j \notin S => status'[j] = status[j] /\ claimedBy'[j] = claimedBy[j]
      BY <2>1 DEF Claim
    <2>5. \A r \in Runs :
            /\ r \in NewRuns(S) => runner'[r] = w
            /\ r \notin NewRuns(S) => pc'[r] = pc[r] /\ runner'[r] = runner[r]
      BY <2>1 DEF Claim
    <2>6. \A r \in NewRuns(S) : JobOf(r) \in S /\ r = <<JobOf(r), claims[JobOf(r)] + 1>>
      BY DEF NewRuns
    <2>7. \A r \in Runs : Live(r) => JobOf(r) \notin S
      BY <2>2
    <2>8. \A r \in Runs : Live(r)' => r \in NewRuns(S) \/ Live(r)
      BY <2>5
    <2> HIDE ConstantsAssumption
        DEF TypeOK, Exclusion, StaleIsDown, SuspectsAreDown, OneMarker, LiveHoldsJob,
            ScanHoldsJob, DeadIsIdle, OneExecutor, Live, Executing, BeingTaken
    <2>9. StaleIsDown' /\ SuspectsAreDown' /\ OneMarker'
      BY <1>0, <2>3 DEF StaleIsDown, SuspectsAreDown, OneMarker
    <2>10. LiveHoldsJob'
      <3>1. ASSUME NEW r \in Runs, r \in NewRuns(S)
            PROVE  /\ runner'[r] = w /\ status'[JobOf(r)] = "claimed"
                   /\ claimedBy'[JobOf(r)] = w
        BY <1>j, <2>4, <2>5, <2>6, <3>1
      <3>2. ASSUME NEW r \in Runs, r \notin NewRuns(S), Live(r)'
            PROVE  /\ Live(r) /\ runner'[r] = runner[r]
                   /\ status'[JobOf(r)] = status[JobOf(r)]
                   /\ claimedBy'[JobOf(r)] = claimedBy[JobOf(r)]
        BY <1>j, <2>4, <2>5, <2>7, <2>8, <3>2
      <3> QED
        BY <1>0, <2>3, <3>1, <3>2 DEF LiveHoldsJob
    <2>11. OneExecutor'
      <3> SUFFICES ASSUME NEW r1 \in Runs, NEW r2 \in Runs, JobOf(r1) = JobOf(r2),
                          Live(r1)', Live(r2)'
                   PROVE  r1 = r2
        BY DEF OneExecutor
      <3>1. CASE JobOf(r1) \in S
        <4>1. r1 \in NewRuns(S) /\ r2 \in NewRuns(S)
          BY <2>7, <2>8, <3>1
        <4> QED
          BY <2>6, <4>1
      <3>2. CASE JobOf(r1) \notin S
        BY <1>0, <2>6, <2>8, <3>2 DEF OneExecutor
      <3> QED
        BY <3>1, <3>2
    <2>12. ScanHoldsJob'
      BY <1>0, <2>2, <2>3, <2>4 DEF ScanHoldsJob
    <2>13. DeadIsIdle'
      <3>1. \A j \in dlq : j \in Jobs /\ j \notin S
        BY <1>0, <1>t, <2>2 DEF DeadIsIdle
      <3>2. \A j \in dlq : ~Executing(j)'
        BY <1>0, <2>6, <2>8, <3>1 DEF DeadIsIdle, Executing
      <3> QED
        BY <1>0, <2>3, <2>4, <3>1, <3>2 DEF DeadIsIdle, BeingTaken
    <2> QED
      BY <2>9, <2>10, <2>11, <2>12, <2>13 DEF Exclusion
  <1>8. ASSUME NEW w \in Workers, NEW q \in Queues, ProcessQueueError(w, q) PROVE Exclusion'
    BY <1>8 DEF ProcessQueueError
  <1>10. ASSUME NEW r \in Runs, RunError(r) PROVE Exclusion'
    <2>1. \A x \in Runs : Live(x)' => Live(x)
      BY <1>10 DEF RunError, OnError
    <2>2. UNCHANGED <<status, claimedBy, dlq, runner, stale, proc, phase, suspects, target, scan>>
      BY <1>10 DEF RunError
    <2> QED
      BY <2>1, <2>2
  <1>11. ASSUME NEW s \in Detectors, OrphanList(s) PROVE Exclusion'
    BY <1>11 DEF OrphanList, Suspected
  <1>12. ASSUME NEW s \in Detectors, NEW w \in Workers, OrphanCheck(s, w) PROVE Exclusion'
    <2>1. UNCHANGED <<status, claimedBy, dlq, pc, runner, stale, proc, scan>>
      BY <1>12 DEF OrphanCheck
    <2>2. suspects' = [suspects EXCEPT ![s] = @ \ {w}] /\ proc[w] = "down" /\ phase[s] = "listed"
      BY <1>12 DEF OrphanCheck
    <2>3. CASE workerStatus[w] = "active"
      <3>1. phase' = [phase EXCEPT ![s] = "checked"] /\ target' = [target EXCEPT ![s] = w]
        BY <1>12, <2>3 DEF OrphanCheck
      <3>2. SuspectsAreDown'
        BY <1>0, <1>t, <2>1, <2>2, <3>1
      <3>3. OneMarker'
        BY <1>0, <1>t, <2>1, <2>2, <3>1
      <3>4. ScanHoldsJob'
        BY <1>0, <1>t, <2>1, <2>2, <3>1
      <3> QED
        BY <2>1, <2>2, <3>2, <3>3, <3>4
    <2>4. CASE workerStatus[w] # "active"
      <3>1. phase' = [phase EXCEPT ![s] = PassPhase(suspects[s] \ {w})] /\ UNCHANGED target
        BY <1>12, <2>4 DEF OrphanCheck
      <3> QED
        BY <2>1, <2>2, <3>1 DEF PassPhase
    <2> QED
      BY <2>3, <2>4
  <1>13. ASSUME NEW s \in Detectors, OrphanMark(s) PROVE Exclusion'
    <2>1. UNCHANGED <<status, claimedBy, dlq, pc, runner, stale, proc, suspects, target>>
      BY <1>13 DEF OrphanMark
    <2>2. /\ phase' = [phase EXCEPT ![s] = "marked"] /\ phase[s] = "checked"
          /\ proc[target[s]] = "down" /\ target[s] \in Workers /\ ~RowLocked(target[s])
      BY <1>13 DEF OrphanMark
    <2>3. \A d \in Detectors \ {s} : scan'[d] = scan[d]
      BY <1>13 DEF OrphanMark
    <2>4. \A j \in Jobs : scan'[s][j] # "absent" =>
            claimedBy[j] = target[s] /\ status[j] \in {"claimed", "running"}
      BY <1>13 DEF OrphanMark, JobsRunBy, Active
    <2>5. StaleIsDown' /\ SuspectsAreDown' /\ LiveHoldsJob' /\ OneExecutor'
      BY <2>1, <2>2
    <2>6. OneMarker'
      BY <2>1, <2>2 DEF RowLocked
    <2> HIDE ConstantsAssumption
        DEF TypeOK, Exclusion, StaleIsDown, SuspectsAreDown, OneMarker, LiveHoldsJob,
            ScanHoldsJob, DeadIsIdle, OneExecutor, Live, Executing, BeingTaken
    <2>7. ScanHoldsJob'
      BY <1>0, <1>t, <2>1, <2>2, <2>3, <2>4 DEF ScanHoldsJob
    <2>8. \A j \in dlq : scan'[s][j] = "absent"
      BY <1>0, <1>t, <2>4 DEF DeadIsIdle
    <2>9. DeadIsIdle'
      BY <1>0, <2>1, <2>3, <2>8 DEF DeadIsIdle, Executing, BeingTaken, Live
    <2> QED
      BY <2>5, <2>6, <2>7, <2>9 DEF Exclusion
  <1>14. ASSUME NEW s \in Detectors, OrphanCommit(s) PROVE Exclusion'
    <2>1. UNCHANGED <<dlq, pc, runner, stale, proc, suspects>> /\ phase[s] = "marked"
      BY <1>14 DEF OrphanCommit, EndPass
    <2>2. /\ phase' = [phase EXCEPT ![s] = PassPhase(suspects[s])]
          /\ PassPhase(suspects[s]) \in {"idle", "listed"}
          /\ target' = [target EXCEPT ![s] = None]
      BY <1>14 DEF OrphanCommit, EndPass, PassPhase
    <2>3. /\ \A d \in Detectors \ {s} : scan'[d] = scan[d]
          /\ \A j \in Jobs : scan'[s][j] = "absent"
      BY <1>14 DEF OrphanCommit, EndPass, NothingHeld
    <2>4. \A j \in Jobs : scan[s][j] = "absent" =>
            status'[j] = status[j] /\ claimedBy'[j] = claimedBy[j]
      BY <1>14 DEF OrphanCommit, Scanned
    <2>5. StaleIsDown' /\ SuspectsAreDown' /\ OneMarker' /\ OneExecutor'
      BY <2>1, <2>2
    <2>6. \A r \in Runs : Live(r) => scan[s][JobOf(r)] = "absent"
      BY DEF Runs
    <2>7. LiveHoldsJob'
      BY <2>1, <2>4, <2>6 DEF Runs
    <2> HIDE ConstantsAssumption
        DEF TypeOK, Exclusion, StaleIsDown, SuspectsAreDown, OneMarker, LiveHoldsJob,
            ScanHoldsJob, DeadIsIdle, OneExecutor, Live, Executing, BeingTaken
    <2>8. \A d \in Detectors \ {s}, j \in Jobs : scan[d][j] # "absent" => scan[s][j] = "absent"
      BY <1>0 DEF ScanHoldsJob, OneMarker
    <2>9. ScanHoldsJob'
      BY <1>0, <1>t, <2>2, <2>3, <2>4, <2>8 DEF ScanHoldsJob
    <2>10. DeadIsIdle'
      BY <1>0, <1>t, <2>1, <2>3, <2>4 DEF DeadIsIdle, Executing, BeingTaken, Live
    <2> QED
      BY <2>5, <2>7, <2>9, <2>10 DEF Exclusion
  <1>15. ASSUME NEW s \in Detectors, OrphanAbort(s) PROVE Exclusion'
    BY <1>15 DEF OrphanAbort, EndPass, PassPhase, NothingHeld, NoAttempts
  <1>16. ASSUME NEW q \in Queues, NEW paused \in BOOLEAN, SetPaused(q, paused) PROVE Exclusion'
    BY <1>16 DEF SetPaused
  <1>17. ASSUME NEW j \in Jobs, RunAtPasses(j) PROVE Exclusion'
    BY <1>17 DEF RunAtPasses
  <1>18. ASSUME NEW j \in Jobs, CancelCheck(j) PROVE Exclusion'
    BY <1>18 DEF CancelCheck
  <1>19. ASSUME NEW j \in Jobs, CancelWrite(j) PROVE Exclusion'
    BY <1>19 DEF CancelWrite
  <1>20. ASSUME NEW j \in Jobs, Requeue(j) PROVE Exclusion'
    BY <1>20 DEF Requeue
  <1>21. CASE UNCHANGED vars
    BY <1>21 DEF vars
  <1> HIDE ConstantsAssumption
      DEF TypeOK, Exclusion, jobVars, queueVars, workerVars, runVars, orphanVars
  <1> QED
    BY <1>1, <1>2, <1>3, <1>4, <1>5, <1>6, <1>7, <1>8, <1>10, <1>11, <1>12, <1>13, <1>14,
       <1>15, <1>16, <1>17, <1>18, <1>19, <1>20, <1>21
    DEF Next, PollStep, OrphanStep

(* As long as no live worker is suspected, the job is held by its one live *)
(* execution or by the one detector that will requeue it.                  *)
THEOREM ExclusionHolds ==
  ASSUME FalseSuspects = {}
  PROVE  Spec => []Exclusion
  <1>1. TypeOK /\ Exclusion /\ [Next]_vars => Exclusion'
    BY ExclusionStep
  <1> QED
    BY <1>1, ExclusionInit, TypeCorrect, PTL DEF Spec

(* "Exactly one worker executes a job": two executions of one job are never*)
(* live together, however workers, detectors and users interleave and crash*)
(* and whichever requests fail, as long as no live worker is suspected.    *)
THEOREM AtMostOneExecutor ==
  ASSUME FalseSuspects = {}
  PROVE  Spec => []OneExecutor
  <1>1. Exclusion => OneExecutor
    BY DEF Exclusion
  <1> QED
    BY <1>1, ExclusionHolds, PTL

-----------------------------------------------------------------------------
(* The concurrency limit of a queue bounds the work that is under way.     *)

LEMMA WorkFinite ==
  ASSUME NEW q \in Queues
  PROVE  IsFiniteSet(InWork(q)) /\ Cardinality(InWork(q)) \in Nat
  <1>1. IsFiniteSet(Jobs) /\ InWork(q) \subseteq Jobs
    BY ConstantsAssumption DEF InWork
  <1> QED
    BY <1>1, FS_Subset, FS_CardinalityType

LEMMA RemovingSome ==
  ASSUME NEW A, IsFiniteSet(A), NEW B \in SUBSET A, NEW C \in SUBSET (A \ B)
  PROVE  /\ Cardinality(A) \in Nat /\ Cardinality(B) \in Nat /\ Cardinality(C) \in Nat
         /\ Cardinality(C) <= Cardinality(A) - Cardinality(B)
  <1>1. IsFiniteSet(B) /\ IsFiniteSet(A \ B) /\ IsFiniteSet(C)
    BY FS_Subset
  <1>2. Cardinality(A \ B) = Cardinality(A) - Cardinality(A \cap B)
    BY FS_Difference
  <1>3. A \cap B = B
    OBVIOUS
  <1>4. Cardinality(C) <= Cardinality(A \ B)
    BY <1>1, FS_Subset
  <1> QED
    BY <1>1, <1>2, <1>3, <1>4, FS_CardinalityType

LEMMA AddingSome ==
  ASSUME NEW A, IsFiniteSet(A), NEW B, IsFiniteSet(B), NEW C \in SUBSET (A \cup B)
  PROVE  /\ Cardinality(A) \in Nat /\ Cardinality(B) \in Nat /\ Cardinality(C) \in Nat
         /\ Cardinality(C) <= Cardinality(A) + Cardinality(B)
  <1>1. IsFiniteSet(A \cup B) /\ IsFiniteSet(A \cap B) /\ IsFiniteSet(C)
    BY FS_Union, FS_Subset
  <1>2. Cardinality(A \cup B) = Cardinality(A) + Cardinality(B) - Cardinality(A \cap B)
    BY FS_Union
  <1>3. Cardinality(C) <= Cardinality(A \cup B)
    BY <1>1, FS_Subset
  <1> QED
    BY <1>1, <1>2, <1>3, FS_CardinalityType

(* An attempt that gives its slot back takes its job out of the work.      *)
LEMMA AttemptEnds ==
  ASSUME TypeOK, Exclusion, NEW r \in Runs,
         Complete(r) \/ Retry(r) \/ DeadLetter(r) \/ Release(r)
  PROVE  /\ JobOf(r) \in InWork(QueueOf[JobOf(r)])
         /\ \A q \in Queues : InWork(q)' \subseteq InWork(q) \ {JobOf(r)}
  <1>1. JobOf(r) \in Jobs
    BY DEF Runs
  <1>2. Live(r) /\ \A x \in Runs : Live(x)' => Live(x) /\ x # r
    BY DEF Complete, Retry, DeadLetter, Release, Live, TypeOK
  <1>3. /\ \A j \in Jobs : j # JobOf(r) => status'[j] = status[j]
        /\ status'[JobOf(r)] \notin {"claimed", "running"}
        /\ UNCHANGED scan
    BY <1>1 DEF Complete, Retry, DeadLetter, Release, TypeOK, orphanVars
  <1>4. ~Executing(JobOf(r))'
    BY <1>2 DEF Exclusion, OneExecutor, Executing
  <1>5. ~BeingTaken(JobOf(r))
    BY <1>1, <1>2 DEF Exclusion, LiveHoldsJob, ScanHoldsJob, SuspectsAreDown, BeingTaken
  <1>6. ASSUME NEW j \in Jobs, Active(j)' \/ Executing(j)' \/ BeingTaken(j)'
        PROVE  j # JobOf(r) /\ (Active(j) \/ Executing(j) \/ BeingTaken(j))
    BY <1>2, <1>3, <1>4, <1>5, <1>6 DEF Active, Executing, BeingTaken
  <1> QED
    BY <1>1, <1>2, <1>6 DEF InWork, Executing

LEMMA CoverStep ==
  ASSUME FalseSuspects = {}, TypeOK, Exclusion, SlotsCoverWork, [Next]_vars
  PROVE  SlotsCoverWork'
  <1>0. currentRunning \in [Queues -> Nat] /\ QueueOf \in [Jobs -> Queues]
    BY ConstantsAssumption DEF TypeOK
  <1>s. ASSUME UNCHANGED currentRunning, \A q \in Queues : InWork(q)' \subseteq InWork(q)
        PROVE  SlotsCoverWork'
    <2>1. ASSUME NEW q \in Queues PROVE Cardinality(InWork(q)') <= Cardinality(InWork(q))
      BY <1>s, WorkFinite, FS_Subset
    <2>2. ASSUME NEW q \in Queues PROVE Cardinality(InWork(q)') \in Nat
      BY <1>s, WorkFinite, FS_Subset, FS_CardinalityType
    <2> QED
      BY <1>0, <1>s, <2>1, <2>2, WorkFinite DEF SlotsCoverWork
  <1>1. ASSUME UNCHANGED <<currentRunning, status, scan>>, \A r \in Runs : Live(r)' => Live(r)
        PROVE  SlotsCoverWork'
    BY <1>1, <1>s DEF InWork, Active, Executing, BeingTaken
  <1>2. ASSUME NEW w \in Workers,
               Register(w) \/ Heartbeat(w) \/ HeartbeatLapses(w) \/ PollStart(w) \/ PollBreak(w)
                 \/ \E q \in Queues : ProcessQueueError(w, q)
        PROVE  SlotsCoverWork'
    <2>1. UNCHANGED <<currentRunning, status, scan, pc>>
      BY <1>2 DEF Register, Heartbeat, HeartbeatLapses, PollStart, PollBreak, ProcessQueueError,
                  queueVars, jobVars, orphanVars, runVars
    <2> QED
      BY <1>1, <2>1 DEF Live
  <1>3. ASSUME NEW w \in Workers, Crash(w) PROVE SlotsCoverWork'
    <2>1. UNCHANGED <<currentRunning, status>> /\ \A r \in Runs : Live(r)' => Live(r)
      BY <1>3 DEF Crash, Live, queueVars, jobVars
    <2>2. \A j \in Jobs : BeingTaken(j)' => BeingTaken(j)
      BY <1>3 DEF Crash, BeingTaken, NothingHeld
    <2> QED
      BY <1>s, <2>1, <2>2 DEF InWork, Active, Executing
  <1>4. ASSUME NEW w \in Workers, NEW q \in Queues, ProcessQueue(w, q) PROVE SlotsCoverWork'
    <2>1. PICK S \in SUBSET Eligible(q) : Claim(w, q, S)
      BY <1>4 DEF ProcessQueue
    <2>2. ClaimSet(w, q, S) /\ currentRunning' = [currentRunning EXCEPT ![q] = @ + Cardinality(S)]
      BY <2>1 DEF Claim
    <2>3. /\ IsFiniteSet(S) /\ Cardinality(S) \in Nat
          /\ S \subseteq Jobs /\ \A j \in S : QueueOf[j] = q
      BY <2>2, ClaimSize
    <2>4. \A j \in Jobs \ S : (Active(j)' => Active(j)) /\ (BeingTaken(j)' => BeingTaken(j))
      BY <1>4, <2>1 DEF ProcessQueue, Claim, Active, BeingTaken, orphanVars
    <2>5. \A j \in Jobs \ S : Executing(j)' => Executing(j)
      BY <2>1 DEF Claim, Executing, Live, NewRuns
    <2>6. \A p \in Queues : InWork(p)' \subseteq InWork(p) \cup (IF p = q THEN S ELSE {})
      BY <2>3, <2>4, <2>5 DEF InWork
    <2>7. ASSUME NEW p \in Queues PROVE Cardinality(InWork(p)') <= currentRunning'[p]
      <3>1. CASE p = q
        <4>1. /\ Cardinality(InWork(p)') \in Nat
              /\ Cardinality(InWork(p)') <= Cardinality(InWork(p)) + Cardinality(S)
          BY <2>3, <2>6, <3>1, WorkFinite, AddingSome
        <4> QED
          BY <1>0, <2>2, <2>3, <3>1, <4>1, WorkFinite DEF SlotsCoverWork
      <3>2. CASE p # q
        <4>1. InWork(p)' \subseteq InWork(p)
          BY <2>6, <3>2
        <4>2. /\ Cardinality(InWork(p)') \in Nat
              /\ Cardinality(InWork(p)') <= Cardinality(InWork(p))
          BY <4>1, WorkFinite, FS_Subset, FS_CardinalityType
        <4> QED
          BY <1>0, <2>2, <3>2, <4>2, WorkFinite DEF SlotsCoverWork
      <3> QED
        BY <3>1, <3>2
    <2> QED
      BY <2>7 DEF SlotsCoverWork
  <1>5. ASSUME NEW r \in Runs, RunStep(r) PROVE SlotsCoverWork'
    <2>0. JobOf(r) \in Jobs
      BY DEF Runs
    <2>1. CASE CreateExecution(r) \/ RunHandler(r) \/ LoseOwnership(r) \/ CloseLost(r)
                 \/ FailureRejected(r)
      <3>1. UNCHANGED <<currentRunning, status, scan>> /\ \A x \in Runs : Live(x)' => Live(x)
        BY <2>1 DEF CreateExecution, RunHandler, LoseOwnership, CloseLost, FailureRejected, Live,
                    queueVars, jobVars, orphanVars, TypeOK
      <3> QED
        BY <1>1, <3>1
    <2>2. CASE StartJob(r)
      <3>1. /\ UNCHANGED <<currentRunning, scan>> /\ Live(r)
            /\ \A x \in Runs : Live(x)' => Live(x)
            /\ \A j \in Jobs : j # JobOf(r) => status'[j] = status[j]
        BY <2>2 DEF StartJob, Live, queueVars, orphanVars, TypeOK
      <3> QED
        BY <1>s, <3>1 DEF InWork, Active, Executing, BeingTaken
    <2>3. CASE Complete(r) \/ Retry(r) \/ DeadLetter(r) \/ Release(r)
      <3>1. /\ JobOf(r) \in InWork(QueueOf[JobOf(r)])
            /\ \A q \in Queues : InWork(q)' \subseteq InWork(q) \ {JobOf(r)}
        BY <2>3, AttemptEnds
      <3>2. currentRunning' = [currentRunning EXCEPT ![QueueOf[JobOf(r)]] = Monus(@, 1)]
        BY <2>3 DEF Complete, Retry, DeadLetter, Release
      <3>3. ASSUME NEW q \in Queues PROVE Cardinality(InWork(q)') <= currentRunning'[q]
        <4>1. CASE q = QueueOf[JobOf(r)]
          <5>1. Cardinality({JobOf(r)}) = 1
            BY FS_Singleton
          <5>2. /\ Cardinality(InWork(q)') \in Nat
                /\ Cardinality(InWork(q)') <= Cardinality(InWork(q)) - Cardinality({JobOf(r)})
            BY <3>1, <4>1, WorkFinite, RemovingSome
          <5> QED
            BY <1>0, <3>2, <4>1, <5>1, <5>2, WorkFinite DEF SlotsCoverWork, Monus
        <4>2. CASE q # QueueOf[JobOf(r)]
          <5>1. InWork(q)' \subseteq InWork(q)
            BY <3>1
          <5>2. /\ Cardinality(InWork(q)') \in Nat
                /\ Cardinality(InWork(q)') <= Cardinality(InWork(q))
            BY <5>1, WorkFinite, FS_Subset, FS_CardinalityType
          <5> QED
            BY <1>0, <3>2, <4>2, <5>2, WorkFinite DEF SlotsCoverWork
        <4> QED
          BY <4>1, <4>2
      <3> QED
        BY <3>3 DEF SlotsCoverWork
    <2> QED
      BY <1>5, <2>1, <2>2, <2>3 DEF RunStep
  <1>6. ASSUME NEW r \in Runs, RunError(r) PROVE SlotsCoverWork'
    <2>1. UNCHANGED <<currentRunning, status, scan>> /\ \A x \in Runs : Live(x)' => Live(x)
      BY <1>6 DEF RunError, OnError, Live, queueVars, jobVars, orphanVars, TypeOK
    <2> QED
      BY <1>1, <2>1
  <1>7. ASSUME NEW s \in Detectors, OrphanList(s) \/ \E w \in Workers : OrphanCheck(s, w)
        PROVE  SlotsCoverWork'
    <2>1. UNCHANGED <<currentRunning, status, scan, pc>>
      BY <1>7 DEF OrphanList, OrphanCheck, queueVars, jobVars, runVars
    <2> QED
      BY <1>1, <2>1 DEF Live
  <1>8. ASSUME NEW s \in Detectors, OrphanMark(s) PROVE SlotsCoverWork'
    <2>1. UNCHANGED <<currentRunning, status, pc>>
      BY <1>8 DEF OrphanMark, queueVars, jobVars, runVars
    <2>2. \A j \in Jobs : BeingTaken(j)' => BeingTaken(j) \/ Active(j)
      BY <1>8 DEF OrphanMark, JobsRunBy, BeingTaken, TypeOK
    <2> QED
      BY <1>s, <2>1, <2>2 DEF InWork, Active, Executing, Live
  <1>9. ASSUME NEW s \in Detectors, OrphanAbort(s) PROVE SlotsCoverWork'
    <2>1. UNCHANGED <<currentRunning, status, pc>>
      BY <1>9 DEF OrphanAbort, queueVars, jobVars, runVars
    <2>2. \A j \in Jobs : BeingTaken(j)' => BeingTaken(j)
      BY <1>9 DEF OrphanAbort, EndPass, BeingTaken, NothingHeld, TypeOK
    <2> QED
      BY <1>s, <2>1, <2>2 DEF InWork, Active, Executing, Live
  <1>10. ASSUME NEW s \in Detectors, OrphanCommit(s) PROVE SlotsCoverWork'
    <2> DEFINE Given(q) == {j \in Scanned(s) : QueueOf[j] = q}
    <2>1. UNCHANGED pc /\ currentRunning' =
            [q \in Queues |-> Monus(currentRunning[q], Cardinality(Given(q)))]
      BY <1>10 DEF OrphanCommit
    <2>2. \A j \in Jobs : j \in Scanned(s) => ~Active(j)' /\ BeingTaken(j)
      BY <1>10 DEF OrphanCommit, Active, Scanned, BeingTaken
    <2>3. \A j \in Jobs : j \notin Scanned(s) => (Active(j)' => Active(j))
      BY <1>10 DEF OrphanCommit, Active
    <2>4. \A j \in Jobs : BeingTaken(j)' => BeingTaken(j) /\ j \notin Scanned(s)
      <3>1. /\ \A d \in Detectors \ {s} : scan'[d] = scan[d]
            /\ \A j \in Jobs : scan'[s][j] = "absent"
        BY <1>10 DEF OrphanCommit, EndPass, NothingHeld, TypeOK
      <3>2. \A d \in Detectors \ {s}, j \in Jobs : scan[d][j] # "absent" => scan[s][j] = "absent"
        BY DEF Exclusion, ScanHoldsJob, OneMarker
      <3> QED
        BY <3>1, <3>2 DEF BeingTaken, Scanned
    <2>5. \A j \in Jobs : Executing(j)' => Executing(j) /\ j \notin Scanned(s)
      <3>1. \A r \in Runs : Live(r) => scan[s][JobOf(r)] = "absent"
        BY DEF Exclusion, LiveHoldsJob, ScanHoldsJob, SuspectsAreDown, Runs
      <3> QED
        BY <2>1, <3>1 DEF Executing, Live, Scanned
    <2>6. ASSUME NEW q \in Queues
          PROVE  Given(q) \subseteq InWork(q) /\ InWork(q)' \subseteq InWork(q) \ Given(q)
      BY <2>2, <2>3, <2>4, <2>5 DEF InWork, Scanned
    <2>7. ASSUME NEW q \in Queues PROVE Cardinality(InWork(q)') <= currentRunning'[q]
      <3>1. /\ Cardinality(Given(q)) \in Nat /\ Cardinality(InWork(q)') \in Nat
            /\ Cardinality(InWork(q)') <= Cardinality(InWork(q)) - Cardinality(Given(q))
        BY <2>6, WorkFinite, RemovingSome
      <3> HIDE DEF Given
      <3> QED
        BY <1>0, <2>1, <3>1, WorkFinite DEF SlotsCoverWork, Monus
    <2> QED
      BY <2>7 DEF SlotsCoverWork
  <1>11. ASSUME NEW q \in Queues, NEW paused \in BOOLEAN, SetPaused(q, paused)
         PROVE  SlotsCoverWork'
    <2>1. UNCHANGED <<currentRunning, status, scan, pc>>
      BY <1>11 DEF SetPaused, jobVars, runVars, orphanVars
    <2> QED
      BY <1>1, <2>1 DEF Live
  <1>12. ASSUME NEW j \in Jobs, RunAtPasses(j) \/ CancelCheck(j) PROVE SlotsCoverWork'
    <2>1. UNCHANGED <<currentRunning, status, scan, pc>>
      BY <1>12 DEF RunAtPasses, CancelCheck, jobVars, queueVars, runVars, orphanVars
    <2> QED
      BY <1>1, <2>1 DEF Live
  <1>13. ASSUME NEW j \in Jobs, CancelWrite(j) \/ Requeue(j) PROVE SlotsCoverWork'
    <2>1. UNCHANGED <<currentRunning, scan, pc>>
      BY <1>13 DEF CancelWrite, Requeue, queueVars, runVars, orphanVars
    <2>2. \A x \in Jobs : Active(x)' => Active(x)
      BY <1>13 DEF CancelWrite, Requeue, Active, TypeOK
    <2> QED
      BY <1>s, <2>1, <2>2 DEF InWork, Executing, BeingTaken, Live
  <1>14. CASE UNCHANGED vars
    <2>1. UNCHANGED <<currentRunning, status, scan, pc>>
      BY <1>14 DEF vars, jobVars, queueVars, runVars, orphanVars
    <2> QED
      BY <1>1, <2>1 DEF Live
  <1> QED
    BY <1>2, <1>3, <1>4, <1>5, <1>6, <1>7, <1>8, <1>9, <1>10, <1>11, <1>12, <1>13, <1>14
    DEF Next, PollStep, OrphanStep

LEMMA CoverInit == Init => SlotsCoverWork
  <1> SUFFICES ASSUME Init, NEW q \in Queues PROVE Cardinality(InWork(q)) <= currentRunning[q]
    BY DEF SlotsCoverWork
  <1>1. InWork(q) = {}
    BY DEF Init, InWork, Active, Executing, BeingTaken, Live, NothingHeld
  <1> QED
    BY <1>1, FS_EmptySet DEF Init

(* Each job that is claimed, running, being executed or about to be        *)
(* requeued has a slot of its own in current_running, as long as no live   *)
(* worker is suspected; cancellations may leak slots and never free one    *)
(* too many.                                                               *)
THEOREM WorkHasSlots ==
  ASSUME FalseSuspects = {}
  PROVE  Spec => []SlotsCoverWork
  <1>1. TypeOK /\ Exclusion /\ SlotsCoverWork /\ [Next]_vars => SlotsCoverWork'
    BY CoverStep
  <1> QED
    BY <1>1, CoverInit, TypeCorrect, ExclusionHolds, PTL DEF Spec

(* The concurrency limit of a queue bounds the jobs of it that are claimed,*)
(* running or being executed by any worker at the same time.               *)
THEOREM WorkWithinLimit ==
  ASSUME FalseSuspects = {}
  PROVE  Spec => [](\A q \in Queues : Cardinality(InWork(q)) <= Limit[q])
  <1>1. TypeOK /\ SlotsCoverWork /\ SlotsWithinLimit =>
          \A q \in Queues : Cardinality(InWork(q)) <= Limit[q]
    <2> SUFFICES ASSUME TypeOK, SlotsCoverWork, SlotsWithinLimit, NEW q \in Queues
                 PROVE  Cardinality(InWork(q)) <= Limit[q]
      OBVIOUS
    <2>1. Limit[q] \in Nat /\ Cardinality(InWork(q)) \in Nat
      BY ConstantsAssumption, WorkFinite
    <2> QED
      BY <2>1 DEF SlotsCoverWork, SlotsWithinLimit
  <1> QED
    BY <1>1, TypeCorrect, WorkHasSlots, LimitRespected, PTL

-----------------------------------------------------------------------------
(* The numbers of the attempts of a job that nobody requeues by hand.      *)

(* What a live execution was told is the attempt the job is at, and it is  *)
(* above those of all other recorded executions.                           *)
HistoryBelow == \A r \in Runs : row[r] # "none" => attempt[r] <= attemptCount[JobOf(r)]
LiveIsLast ==
  \A r \in Runs : Live(r) =>
    /\ attempt[r] = attemptCount[JobOf(r)] /\ attempt[r] > 0
    /\ \A x \in Runs \ {r} :
         JobOf(x) = JobOf(r) /\ row[x] # "none" => attempt[x] < attempt[r]
ScanIsCurrent ==
  \A s \in Detectors, j \in Jobs : scan[s][j] # "absent" => scanAttempts[s][j] = attemptCount[j]
Numbered == HistoryBelow /\ LiveIsLast /\ ScanIsCurrent /\ AttemptsNumberedOnce

(* What a step may do to them.                                             *)
NoNewScan ==
  \A s \in Detectors, j \in Jobs : scan'[s][j] # "absent" =>
    \/ scan[s][j] # "absent" /\ scanAttempts'[s][j] = scanAttempts[s][j]
    \/ scanAttempts'[s][j] = attemptCount[j]
NoNewLive == \A x \in Runs : (Live(x)' => Live(x)) /\ attempt'[x] = attempt[x]

Unnumbered ==
  /\ \A j \in Jobs : attemptCount'[j] = attemptCount[j]
  /\ NoNewLive /\ NoNewScan
  /\ \A x \in Runs : row'[x] # "none" => row[x] # "none"

Records(r) ==
  /\ Live(r) /\ UNCHANGED attemptCount /\ NoNewLive /\ NoNewScan
  /\ \A x \in Runs : row'[x] # "none" => row[x] # "none" \/ x = r

Numbers(S) ==
  /\ \A j \in S : status[j] \in Claimable
  /\ \A j \in Jobs : attemptCount'[j] = IF j \in S THEN attemptCount[j] + 1 ELSE attemptCount[j]
  /\ \A r \in Runs : JobOf(r) \in S /\ Live(r)' =>
       /\ attempt'[r] = attemptCount[JobOf(r)] + 1 /\ row[r] = "none"
       /\ \A x \in Runs : JobOf(x) = JobOf(r) /\ Live(x)' => x = r
  /\ \A r \in Runs : row[r] # "none" => attempt'[r] = attempt[r]
  /\ \A r \in Runs : JobOf(r) \notin S => attempt'[r] = attempt[r] /\ (Live(r)' => Live(r))
  /\ UNCHANGED <<row, scan, scanAttempts>>

GivesBack(r) ==
  /\ Live(r) /\ pc[r] = "releasing" /\ NoNewLive /\ ~Live(r)'
  /\ attemptCount' = [attemptCount EXCEPT ![JobOf(r)] = Monus(attempt[r], 1)]
  /\ UNCHANGED <<row, scan, scanAttempts>>

NumberMove ==
  \/ Unnumbered
  \/ \E r \in Runs : Records(r) \/ GivesBack(r)
  \/ \E S \in SUBSET Jobs : Numbers(S)

LEMMA NumberMoveStep ==
  ASSUME FalseSuspects = {}, Requeueable = {}, TypeOK, Exclusion, History, ScanIsCurrent,
         [Next]_vars
  PROVE  NumberMove
  <1>t. /\ row \in [Runs -> {"none", "running", "completed", "failed"}]
        /\ pc \in [Runs -> RunState] /\ attempt \in [Runs -> Nat]
        /\ attemptCount \in [Jobs -> Nat] /\ \A r \in Runs : JobOf(r) \in Jobs
        /\ scan \in [Detectors -> [Jobs -> {"absent", "claimed", "running"}]]
        /\ scanAttempts \in [Detectors -> [Jobs -> Nat]]
    BY DEF TypeOK, Runs
  <1> USE DEF vars, jobVars, runVars, orphanVars
  <1>1. ASSUME NEW w \in Workers,
               Register(w) \/ Heartbeat(w) \/ HeartbeatLapses(w) \/ PollStart(w)
                 \/ PollBreak(w) \/ \E q \in Queues : ProcessQueueError(w, q)
        PROVE  Unnumbered
    <2>1. UNCHANGED <<row, pc, attempt, attemptCount, scan, scanAttempts>>
      BY <1>1 DEF Register, Heartbeat, HeartbeatLapses, PollStart, PollBreak, ProcessQueueError
    <2> QED
      BY <2>1 DEF Unnumbered, NoNewLive, NoNewScan, Live
  <1>2. ASSUME NEW w \in Workers, Crash(w) PROVE Unnumbered
    <2>1. UNCHANGED <<row, attempt, attemptCount>> /\ \A r \in Runs : Live(r)' => Live(r)
      BY <1>2 DEF Crash, LiveRuns, Live
    <2>2. NoNewScan
      BY <1>2 DEF Crash, NoNewScan, NothingHeld
    <2> QED
      BY <2>1, <2>2 DEF Unnumbered, NoNewLive
  <1>3. ASSUME NEW w \in Workers, NEW q \in Queues, ProcessQueue(w, q) PROVE NumberMove
    <2>1. PICK S \in SUBSET Eligible(q) : Claim(w, q, S)
      BY <1>3 DEF ProcessQueue
    <2>2. S \in SUBSET Jobs /\ \A j \in S : status[j] \in Claimable
      BY DEF Eligible
    <2>3. \A j \in Jobs : attemptCount'[j] = IF j \in S THEN attemptCount[j] + 1 ELSE attemptCount[j]
      BY <2>1 DEF Claim
    <2>4. \A r \in Runs : r \in NewRuns(S) =>
            JobOf(r) \in S /\ r[2] = claims[JobOf(r)] + 1 /\ pc[r] = "none"
      BY <2>1, NewRunsFresh DEF Claim, History
    <2>5. \A r \in Runs :
            /\ r \in NewRuns(S) => attempt'[r] = attemptCount[JobOf(r)] + 1
            /\ r \notin NewRuns(S) => attempt'[r] = attempt[r] /\ pc'[r] = pc[r]
      BY <2>1 DEF Claim
    <2>6. \A r \in Runs : Live(r) => status[JobOf(r)] \notin Claimable
      BY DEF Exclusion, LiveHoldsJob, Claimable
    <2>7. ASSUME NEW r \in Runs, JobOf(r) \in S, Live(r)' PROVE r \in NewRuns(S)
      BY <2>2, <2>5, <2>6, <2>7 DEF Live
    <2>8. \A r \in Runs : pc[r] = "none" => row[r] = "none"
      BY DEF History, RecordsFinal
    <2>9. \A r, x \in Runs : r[2] = x[2] /\ JobOf(r) = JobOf(x) => r = x
      BY DEF Runs
    <2>10. UNCHANGED <<row, scan, scanAttempts>>
      BY <1>3, <2>1 DEF Claim, ProcessQueue
    <2>11. \A r \in Runs : JobOf(r) \in S /\ Live(r)' =>
             /\ attempt'[r] = attemptCount[JobOf(r)] + 1 /\ row[r] = "none"
             /\ \A x \in Runs : JobOf(x) = JobOf(r) /\ Live(x)' => x = r
      BY <2>4, <2>5, <2>7, <2>8, <2>9
    <2>12. \A r \in Runs : row[r] # "none" => attempt'[r] = attempt[r]
      BY <2>4, <2>5, <2>8
    <2>13. \A r \in Runs : JobOf(r) \notin S => attempt'[r] = attempt[r] /\ (Live(r)' => Live(r))
      BY <2>4, <2>5 DEF Live
    <2> QED
      BY <2>2, <2>3, <2>10, <2>11, <2>12, <2>13 DEF Numbers, NumberMove
  <1>4. ASSUME NEW r \in Runs, RunStep(r) PROVE NumberMove
    <2>1. CASE CreateExecution(r) \/ StartJob(r) \/ RunHandler(r) \/ LoseOwnership(r)
                 \/ FailureRejected(r) \/ CloseLost(r) \/ Complete(r) \/ Retry(r) \/ DeadLetter(r)
      <3>1. /\ Live(r) /\ \A x \in Runs : Live(x)' => Live(x)
            /\ UNCHANGED <<attempt, attemptCount, scan, scanAttempts>>
        BY <2>1, <1>t DEF CreateExecution, StartJob, RunHandler, LoseOwnership, FailureRejected,
                          CloseLost, Complete, Retry, DeadLetter, Live
      <3>2. \A x \in Runs : row'[x] # "none" => row[x] # "none" \/ x = r
        BY <2>1, <1>t DEF CreateExecution, StartJob, RunHandler, LoseOwnership, FailureRejected,
                          CloseLost, Complete, Retry, DeadLetter
      <3> QED
        BY <3>1, <3>2 DEF NumberMove, Records, NoNewLive, NoNewScan
    <2>2. CASE Release(r)
      BY <2>2, <1>t DEF Release, GivesBack, NoNewLive, Live, NumberMove
    <2> QED
      BY <1>4, <2>1, <2>2 DEF RunStep
  <1>5. ASSUME NEW r \in Runs, RunError(r) PROVE Unnumbered
    <2>1. UNCHANGED <<row, attempt, attemptCount, scan, scanAttempts>>
      BY <1>5 DEF RunError
    <2>2. \A x \in Runs : Live(x)' => Live(x)
      BY <1>5, <1>t DEF RunError, OnError, Live
    <2> QED
      BY <2>1, <2>2 DEF Unnumbered, NoNewLive, NoNewScan
  <1>6. ASSUME NEW s \in Detectors,
               OrphanList(s) \/ (\E w \in Workers : OrphanCheck(s, w)) \/ OrphanMark(s)
                 \/ OrphanAbort(s)
        PROVE  Unnumbered
    <2>1. UNCHANGED <<row, pc, attempt, attemptCount>>
      BY <1>6 DEF OrphanList, OrphanCheck, OrphanMark, OrphanAbort
    <2>2. CASE OrphanMark(s)
      <3>1. \A d \in Detectors \ {s} : scan'[d] = scan[d] /\ scanAttempts'[d] = scanAttempts[d]
        BY <2>2, <1>t DEF OrphanMark
      <3>2. \A j \in Jobs : scan'[s][j] # "absent" => scanAttempts'[s][j] = attemptCount[j]
        BY <2>2, <1>t DEF OrphanMark
      <3> QED
        BY <2>1, <3>1, <3>2 DEF Unnumbered, NoNewLive, NoNewScan, Live
    <2>3. CASE OrphanAbort(s)
      <3>1. NoNewScan
        BY <2>3, <1>t DEF OrphanAbort, EndPass, NothingHeld, NoNewScan
      <3> QED
        BY <2>1, <3>1 DEF Unnumbered, NoNewLive, Live
    <2>4. CASE OrphanList(s) \/ \E w \in Workers : OrphanCheck(s, w)
      <3>1. UNCHANGED <<scan, scanAttempts>>
        BY <2>4 DEF OrphanList, OrphanCheck
      <3> QED
        BY <2>1, <3>1 DEF Unnumbered, NoNewLive, NoNewScan, Live
    <2> QED
      BY <1>6, <2>2, <2>3, <2>4
  <1>7. ASSUME NEW s \in Detectors, OrphanCommit(s) PROVE Unnumbered
    <2>1. UNCHANGED <<pc, attempt>> /\ \A x \in Runs : row'[x] # "none" => row[x] # "none"
      BY <1>7, <1>t DEF OrphanCommit
    <2>2. \A j \in Jobs : attemptCount'[j] = attemptCount[j]
      BY <1>7 DEF OrphanCommit, AttemptsBack, Scanned, ScanIsCurrent
    <2>3. NoNewScan
      BY <1>7, <1>t DEF OrphanCommit, EndPass, NothingHeld, NoNewScan
    <2> QED
      BY <2>1, <2>2, <2>3 DEF Unnumbered, NoNewLive, Live
  <1>8. ASSUME NEW q \in Queues, NEW paused \in BOOLEAN, SetPaused(q, paused) PROVE Unnumbered
    BY <1>8 DEF SetPaused, Unnumbered, NoNewLive, NoNewScan, Live
  <1>9. ASSUME NEW j \in Jobs, RunAtPasses(j) \/ CancelCheck(j) \/ CancelWrite(j) \/ Requeue(j)
        PROVE  Unnumbered
    <2>1. UNCHANGED <<row, pc, attempt, attemptCount, scan, scanAttempts>>
      BY <1>9 DEF RunAtPasses, CancelCheck, CancelWrite, Requeue
    <2> QED
      BY <2>1 DEF Unnumbered, NoNewLive, NoNewScan, Live
  <1>10. CASE UNCHANGED vars
    <2>1. UNCHANGED <<row, pc, attempt, attemptCount, scan, scanAttempts>>
      BY <1>10
    <2> QED
      BY <2>1 DEF NumberMove, Unnumbered, NoNewLive, NoNewScan, Live
  <1> HIDE DEF vars, jobVars, runVars, orphanVars
  <1> QED
    BY <1>1, <1>2, <1>3, <1>4, <1>5, <1>6, <1>7, <1>8, <1>9, <1>10
    DEF Next, PollStep, OrphanStep, NumberMove

LEMMA NumberedStep ==
  ASSUME TypeOK, Exclusion, History, Numbered, NumberMove
  PROVE  Numbered'
  <1>t. /\ \A r \in Runs : JobOf(r) \in Jobs /\ attempt[r] \in Nat /\ Live(r) \in BOOLEAN
        /\ attemptCount \in [Jobs -> Nat]
    BY DEF TypeOK, Runs, Live
  <1>n. HistoryBelow /\ LiveIsLast /\ ScanIsCurrent /\ AttemptsNumberedOnce
    BY DEF Numbered
  <1>o. \A r, x \in Runs : JobOf(r) = JobOf(x) /\ Live(r) /\ Live(x) => r = x
    BY DEF Exclusion, OneExecutor
  <1>1. CASE Unnumbered
    <2>1. HistoryBelow' /\ LiveIsLast' /\ AttemptsNumberedOnce'
      BY <1>t, <1>n, <1>1
      DEF HistoryBelow, LiveIsLast, AttemptsNumberedOnce, Unnumbered, NoNewLive
    <2>2. ScanIsCurrent'
      BY <1>n, <1>1 DEF ScanIsCurrent, Unnumbered, NoNewScan
    <2> QED
      BY <2>1, <2>2 DEF Numbered
  <1>2. ASSUME NEW r \in Runs, Records(r) PROVE Numbered'
    <2>1. /\ \A x \in Runs : attempt'[x] = attempt[x] /\ (Live(x)' => Live(x))
          /\ \A x \in Runs : row'[x] # "none" => row[x] # "none" \/ x = r
          /\ attemptCount' = attemptCount /\ Live(r)
      BY <1>2 DEF Records, NoNewLive
    <2>2. /\ attempt[r] = attemptCount[JobOf(r)]
          /\ \A x \in Runs \ {r} :
               JobOf(x) = JobOf(r) /\ row[x] # "none" => attempt[x] < attempt[r]
      BY <1>n, <2>1 DEF LiveIsLast
    <2>3. HistoryBelow'
      BY <1>t, <1>n, <2>1, <2>2 DEF HistoryBelow
    <2>4. LiveIsLast'
      BY <1>n, <1>o, <2>1 DEF LiveIsLast
    <2>5. AttemptsNumberedOnce'
      BY <1>t, <1>n, <2>1, <2>2 DEF AttemptsNumberedOnce
    <2>6. ScanIsCurrent'
      BY <1>n, <1>2 DEF ScanIsCurrent, Records, NoNewScan
    <2> QED
      BY <2>3, <2>4, <2>5, <2>6 DEF Numbered
  <1>3. ASSUME NEW S \in SUBSET Jobs, Numbers(S) PROVE Numbered'
    <2>1. HistoryBelow' /\ AttemptsNumberedOnce'
      BY <1>t, <1>n, <1>3 DEF HistoryBelow, AttemptsNumberedOnce, Numbers
    <2>2. LiveIsLast'
      <3>1. ASSUME NEW r \in Runs, Live(r)', JobOf(r) \in S
            PROVE  /\ attempt'[r] = attemptCount'[JobOf(r)] /\ attempt'[r] > 0
                   /\ \A x \in Runs \ {r} :
                        JobOf(x) = JobOf(r) /\ row'[x] # "none" => attempt'[x] < attempt'[r]
        BY <1>t, <1>n, <1>3, <3>1 DEF HistoryBelow, Numbers
      <3>2. ASSUME NEW r \in Runs, Live(r)', JobOf(r) \notin S
            PROVE  /\ attempt'[r] = attemptCount'[JobOf(r)] /\ attempt'[r] > 0
                   /\ \A x \in Runs \ {r} :
                        JobOf(x) = JobOf(r) /\ row'[x] # "none" => attempt'[x] < attempt'[r]
        BY <1>t, <1>n, <1>3, <3>2 DEF LiveIsLast, Numbers
      <3> QED
        BY <3>1, <3>2 DEF LiveIsLast
    <2>3. ScanIsCurrent'
      <3>1. \A s \in Detectors, j \in Jobs : scan[s][j] # "absent" => j \notin S
        BY <1>3 DEF Numbers, Claimable, Exclusion, ScanHoldsJob
      <3> QED
        BY <1>n, <1>3, <3>1 DEF ScanIsCurrent, Numbers
    <2> QED
      BY <2>1, <2>2, <2>3 DEF Numbered
  <1>4. ASSUME NEW r \in Runs, GivesBack(r) PROVE Numbered'
    <2>1. /\ \A x \in Runs : attempt'[x] = attempt[x] /\ (Live(x)' => Live(x) /\ x # r)
          /\ Live(r) /\ row[r] = "none" /\ UNCHANGED <<row, scan, scanAttempts>>
      BY <1>4 DEF GivesBack, NoNewLive, History, RecordsFinal
    <2>2. /\ attempt[r] > 0
          /\ \A x \in Runs \ {r} :
               JobOf(x) = JobOf(r) /\ row[x] # "none" => attempt[x] < attempt[r]
      BY <1>n, <2>1 DEF LiveIsLast
    <2>3. \A j \in Jobs :
            attemptCount'[j] = IF j = JobOf(r) THEN attempt[r] - 1 ELSE attemptCount[j]
      BY <1>t, <1>4, <2>2 DEF GivesBack, Monus
    <2>4. HistoryBelow'
      BY <1>t, <1>n, <2>1, <2>2, <2>3 DEF HistoryBelow
    <2>5. LiveIsLast'
      <3>1. \A x \in Runs : Live(x)' => JobOf(x) # JobOf(r)
        BY <1>o, <2>1
      <3> QED
        BY <1>t, <1>n, <2>1, <2>3, <3>1 DEF LiveIsLast
    <2>6. AttemptsNumberedOnce'
      BY <1>n, <2>1 DEF AttemptsNumberedOnce
    <2>7. ScanIsCurrent'
      <3>1. \A s \in Detectors : scan[s][JobOf(r)] = "absent"
        BY <1>t, <2>1 DEF Exclusion, LiveHoldsJob, ScanHoldsJob, SuspectsAreDown
      <3> QED
        BY <1>n, <2>1, <2>3, <3>1 DEF ScanIsCurrent
    <2> QED
      BY <2>4, <2>5, <2>6, <2>7 DEF Numbered
  <1> QED
    BY <1>1, <1>2, <1>3, <1>4 DEF NumberMove

(* The history of a job that nobody requeued by hand gives every recorded  *)
(* attempt a number of its own, through lost workers, claims given back    *)
(* (which take the number back, too) and late detectors: a claim counts    *)
(* from a number no recorded execution is above.                           *)
THEOREM AttemptsStayNumbered ==
  ASSUME FalseSuspects = {}, Requeueable = {}
  PROVE  Spec => []AttemptsNumberedOnce
  <1>1. Init => Numbered
    BY DEF Init, Numbered, HistoryBelow, LiveIsLast, ScanIsCurrent, AttemptsNumberedOnce, Live,
           NothingHeld
  <1>2. TypeOK /\ Exclusion /\ History /\ Numbered /\ [Next]_vars => Numbered'
    <2>1. Numbered => ScanIsCurrent
      BY DEF Numbered
    <2> QED
      BY <2>1, NumberMoveStep, NumberedStep
  <1>3. Numbered => AttemptsNumberedOnce
    BY DEF Numbered
  <1> QED
    BY <1>1, <1>2, <1>3, TypeCorrect, ExclusionHolds, HistoryKept, PTL DEF Spec
=============================================================================
