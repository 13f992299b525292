--------------------------- MODULE JobSlotsProofs ---------------------------
(***************************************************************************)
(* What a step does to the statuses of the jobs and to the counters of the *)
(* queues when no live worker is suspected and nobody cancels: every path  *)
(* of executeJob, detectOrphans and requeueJob is one of five moves.  From *)
(* the moves follow the exactness of current_running, the documented       *)
(* lifecycle, the order of dependencies, and that JobLifecycle implements  *)
(* JobBoard.  Crashes, failed requests, pauses and requeues are allowed.   *)
(***************************************************************************)
EXTENDS JobExclusionProofs

USE DEF JobOf, Advance, ReleaseSlots, TakeSlots

(* Without cancellation no job is ever cancelled.                          *)
NoneCancelled == cancelling = {} /\ \A j \in Jobs : status[j] # "cancelled"

(* Why the moves below are all there are.                                  *)
Settled == TypeOK /\ Exclusion /\ NoneCancelled

-----------------------------------------------------------------------------
(* The five moves.                                                         *)

Quiet == UNCHANGED <<status, currentRunning>>

ToClaimed(q, S) ==
  /\ S \subseteq Eligible(q) /\ (S # {} => Cardinality(S) <= QueueRoom(q))
  /\ \A j \in Jobs : status'[j] = IF j \in S THEN "claimed" ELSE status[j]
  /\ currentRunning' = [currentRunning EXCEPT ![q] = @ + Cardinality(S)]

ToRunning(j) ==
  /\ Active(j)
  /\ \A x \in Jobs : status'[x] = IF x = j THEN "running" ELSE status[x]
  /\ UNCHANGED currentRunning

(* An attempt ends: completed, scheduled again, given up or given back.    *)
ToEnd(j, to) ==
  /\ Active(j) /\ (to # "queued" => status[j] = "running")
  /\ \A x \in Jobs : status'[x] = IF x = j THEN to ELSE status[x]
  /\ currentRunning' = [currentRunning EXCEPT ![QueueOf[j]] = Monus(@, 1)]

(* A detector gives back what a dead worker held.                          *)
ToQueue(S) ==
  /\ S \subseteq Jobs /\ \A j \in S : Active(j)
  /\ \A j \in Jobs : status'[j] = IF j \in S THEN "queued" ELSE status[j]
  /\ currentRunning' = [q \in Queues |->
       Monus(currentRunning[q], Cardinality({j \in S : QueueOf[j] = q}))]

FromDead(j) ==
  /\ status[j] = "dead-letter"
  /\ \A x \in Jobs : status'[x] = IF x = j THEN "queued" ELSE status[x]
  /\ UNCHANGED currentRunning

Ends == {"completed", "scheduled", "dead-letter", "queued"}

JobMove ==
  \/ Quiet
  \/ \E q \in Queues, S \in SUBSET Jobs : ToClaimed(q, S)
  \/ \E j \in Jobs : ToRunning(j) \/ FromDead(j) \/ \E to \in Ends : ToEnd(j, to)
  \/ \E S \in SUBSET Jobs : ToQueue(S)

(* The room a claim may fill is that of the queue.                         *)
LEMMA ClaimFits ==
  ASSUME TypeOK, NEW w \in Workers, NEW q \in Queues, NEW S, ClaimSet(w, q, S), S # {}
  PROVE  Cardinality(S) <= QueueRoom(q)
  <1>1. IsFiniteSet(LiveRuns(w))
    BY RunsFinite, FS_Subset DEF LiveRuns
  <1>2. WorkerRoom(w) \in Int /\ QueueRoom(q) \in Int
    BY <1>1, FS_CardinalityType, ConstantsAssumption DEF WorkerRoom, Load, QueueRoom, TypeOK
  <1>3. Cardinality(S) \in Nat
    BY ClaimSize
  <1> QED
    BY <1>2, <1>3 DEF ClaimSet, Room

LEMMA MoveStep ==
  ASSUME Cancellable = {}, Settled, [Next]_vars
  PROVE  JobMove /\ NoneCancelled'
  <1>t. /\ status \in [Jobs -> JobStatus] /\ \A r \in Runs : JobOf(r) \in Jobs
        /\ currentRunning \in [Queues -> Nat]
        /\ NoneCancelled /\ Exclusion /\ TypeOK
    BY DEF Settled, TypeOK, Runs
  <1>a. ASSUME NEW r \in Runs, Live(r) PROVE Active(JobOf(r))
    BY <1>t, <1>a DEF Exclusion, LiveHoldsJob, NoneCancelled, Active
  <1>n. ASSUME JobMove, UNCHANGED cancelling PROVE NoneCancelled'
    BY <1>t, <1>n DEF JobMove, NoneCancelled, Quiet, ToClaimed, ToRunning, ToEnd, ToQueue, FromDead,
                      Ends
  <1> USE DEF vars, jobVars, queueVars
  <1>1. ASSUME NEW w \in Workers,
               Register(w) \/ Heartbeat(w) \/ HeartbeatLapses(w) \/ Crash(w) \/ PollStart(w)
                 \/ PollBreak(w) \/ \E q \in Queues : ProcessQueueError(w, q)
        PROVE  Quiet /\ UNCHANGED cancelling
    BY <1>1 DEF Register, Heartbeat, HeartbeatLapses, Crash, PollStart, PollBreak,
                ProcessQueueError, Quiet
  <1>2. ASSUME NEW w \in Workers, NEW q \in Queues, ProcessQueue(w, q)
        PROVE  JobMove /\ UNCHANGED cancelling
    <2>1. PICK S \in SUBSET Eligible(q) : Claim(w, q, S)
      BY <1>2 DEF ProcessQueue
    <2>2. ClaimSet(w, q, S)
      BY <2>1 DEF Claim
    <2>3. S \in SUBSET Jobs
      BY DEF Eligible
    <2>4. S # {} => Cardinality(S) <= QueueRoom(q)
      BY <1>t, <2>2, ClaimFits
    <2>5. ToClaimed(q, S)
      BY <2>1, <2>4 DEF Claim, ToClaimed
    <2> QED
      BY <1>2, <2>3, <2>5 DEF JobMove, ProcessQueue
  <1>3. ASSUME NEW r \in Runs, RunStep(r) PROVE JobMove /\ UNCHANGED cancelling
    <2>0. UNCHANGED cancelling
      BY <1>3 DEF RunStep, CreateExecution, StartJob, RunHandler, Complete, LoseOwnership,
                  CloseLost, Retry, DeadLetter, FailureRejected, Release
    <2>1. CASE CreateExecution(r) \/ RunHandler(r) \/ LoseOwnership(r) \/ CloseLost(r)
                 \/ FailureRejected(r)
      BY <2>0, <2>1 DEF CreateExecution, RunHandler, LoseOwnership, CloseLost, FailureRejected,
                        Quiet, JobMove
    <2>2. CASE StartJob(r)
      <3>1. Active(JobOf(r))
        BY <1>a, <2>2 DEF StartJob, Live
      <3>2. ToRunning(JobOf(r))
        BY <1>t, <2>2, <3>1 DEF StartJob, ToRunning
      <3> QED
        BY <1>t, <2>0, <3>2 DEF JobMove
    <2>3. CASE Complete(r) \/ Retry(r) \/ DeadLetter(r) \/ Release(r)
      <3>1. Active(JobOf(r))
        BY <1>a, <2>3 DEF Complete, Retry, DeadLetter, Release, Live
      <3>2. currentRunning' = [currentRunning EXCEPT ![QueueOf[JobOf(r)]] = Monus(@, 1)]
        BY <2>3 DEF Complete, Retry, DeadLetter, Release
      <3>3. \E to \in Ends : /\ status' = [status EXCEPT ![JobOf(r)] = to]
                             /\ to # "queued" => status[JobOf(r)] = "running"
        BY <2>3 DEF Complete, Retry, DeadLetter, Release, Owns, Ends
      <3>4. PICK to \in Ends : ToEnd(JobOf(r), to)
        BY <1>t, <3>1, <3>2, <3>3 DEF ToEnd
      <3> QED
        BY <1>t, <2>0, <3>4 DEF JobMove
    <2> QED
      BY <1>3, <2>1, <2>2, <2>3 DEF RunStep
  <1>4. ASSUME NEW r \in Runs, RunError(r) PROVE Quiet /\ UNCHANGED cancelling
    BY <1>4 DEF RunError, Quiet
  <1>5. ASSUME NEW s \in Detectors,
               OrphanList(s) \/ (\E w \in Workers : OrphanCheck(s, w)) \/ OrphanMark(s)
                 \/ OrphanAbort(s)
        PROVE  Quiet /\ UNCHANGED cancelling
    BY <1>5 DEF OrphanList, OrphanCheck, OrphanMark, OrphanAbort, Quiet
  <1>6. ASSUME NEW s \in Detectors, OrphanCommit(s) PROVE JobMove /\ UNCHANGED cancelling
    <2>1. \A j \in Scanned(s) : Active(j)
      BY <1>t DEF Scanned, Exclusion, ScanHoldsJob, NoneCancelled, Active
    <2>2. ToQueue(Scanned(s)) /\ UNCHANGED cancelling
      BY <1>6, <2>1 DEF OrphanCommit, ToQueue, Scanned
    <2> QED
      BY <2>2 DEF JobMove, Scanned
  <1>7. ASSUME NEW q \in Queues, NEW paused \in BOOLEAN, SetPaused(q, paused)
        PROVE  Quiet /\ UNCHANGED cancelling
    BY <1>7 DEF SetPaused, Quiet
  <1>8. ASSUME NEW j \in Jobs, RunAtPasses(j) \/ CancelCheck(j) \/ CancelWrite(j)
        PROVE  Quiet /\ UNCHANGED cancelling
    BY <1>8, <1>t DEF RunAtPasses, CancelCheck, CancelWrite, Quiet, NoneCancelled
  <1>9. ASSUME NEW j \in Jobs, Requeue(j) PROVE JobMove /\ UNCHANGED cancelling
    <2>1. status[j] = "dead-letter"
      BY <1>9, <1>t DEF Requeue, Exclusion, DeadIsIdle, NoneCancelled
    <2>2. FromDead(j) /\ UNCHANGED cancelling
      BY <1>9, <1>t, <2>1 DEF Requeue, FromDead
    <2> QED
      BY <2>2 DEF JobMove
  <1>10. CASE UNCHANGED vars
    BY <1>10, <1>n DEF Quiet, JobMove
  <1> HIDE DEF vars, jobVars, queueVars
  <1>11. CASE Next
    <2>1. JobMove /\ UNCHANGED cancelling
      BY <1>1, <1>2, <1>3, <1>4, <1>5, <1>6, <1>7, <1>8, <1>9, <1>11
      DEF Next, PollStep, OrphanStep, JobMove
    <2> QED
      BY <2>1, <1>n
  <1> QED
    BY <1>10, <1>11

(* With no false suspicion and no cancellation, a step is one of the moves.*)
THEOREM AlwaysSettled ==
  ASSUME FalseSuspects = {}, Cancellable = {}
  PROVE  Spec => []Settled
  <1>1. Init => NoneCancelled
    BY DEF Init, NoneCancelled
  <1>2. TypeOK /\ Exclusion /\ NoneCancelled /\ [Next]_vars => NoneCancelled'
    BY MoveStep DEF Settled
  <1>3. Spec => []NoneCancelled
    BY <1>1, <1>2, TypeCorrect, ExclusionHolds, PTL DEF Spec
  <1>4. TypeOK /\ Exclusion /\ NoneCancelled => Settled
    BY DEF Settled
  <1> QED
    BY <1>3, <1>4, TypeCorrect, ExclusionHolds, PTL

-----------------------------------------------------------------------------
(* What the moves promise, one conclusion for each.                        *)

LEMMA RemovingExactly ==
  ASSUME NEW A, IsFiniteSet(A), NEW B \in SUBSET A
  PROVE  /\ Cardinality(A) \in Nat /\ Cardinality(B) \in Nat /\ Cardinality(A \ B) \in Nat
         /\ Cardinality(A \ B) = Cardinality(A) - Cardinality(B)
  <1>1. IsFiniteSet(B) /\ IsFiniteSet(A \ B) /\ A \cap B = B
    BY FS_Subset
  <1>2. Cardinality(A \ B) = Cardinality(A) - Cardinality(A \cap B)
    BY FS_Difference
  <1> QED
    BY <1>1, <1>2, FS_CardinalityType

LEMMA AddingExactly ==
  ASSUME NEW A, IsFiniteSet(A), NEW B, IsFiniteSet(B), A \cap B = {}
  PROVE  /\ Cardinality(A) \in Nat /\ Cardinality(B) \in Nat
         /\ Cardinality(A \cup B) = Cardinality(A) + Cardinality(B)
  <1>1. Cardinality(A \cup B) = Cardinality(A) + Cardinality(B) - Cardinality(A \cap B)
    BY FS_Union
  <1>2. Cardinality(A \cap B) = 0
    BY FS_EmptySet
  <1>3. Cardinality(A) \in Nat /\ Cardinality(B) \in Nat
    BY FS_CardinalityType
  <1> QED
    BY <1>1, <1>2, <1>3

LEMMA ActiveFinite == \A q \in Queues : IsFiniteSet(ActiveIn(q))
  BY ConstantsAssumption, FS_Subset DEF ActiveIn

LEMMA ExactStep ==
  ASSUME TypeOK, SlotsExact, JobMove
  PROVE  SlotsExact'
  <1>0. currentRunning \in [Queues -> Nat] /\ QueueOf \in [Jobs -> Queues]
    BY ConstantsAssumption DEF TypeOK
  <1> USE DEF Active
  <1>1. CASE Quiet
    BY <1>1 DEF Quiet, SlotsExact, ActiveIn
  <1>2. ASSUME NEW q \in Queues, NEW S \in SUBSET Jobs, ToClaimed(q, S) PROVE SlotsExact'
    <2>1. \A j \in S : QueueOf[j] = q /\ ~Active(j)
      BY <1>2 DEF ToClaimed, Eligible, Claimable
    <2>2. /\ ActiveIn(q)' = ActiveIn(q) \cup S /\ ActiveIn(q) \cap S = {}
          /\ \A p \in Queues \ {q} : ActiveIn(p)' = ActiveIn(p)
      BY <1>2, <2>1 DEF ToClaimed, ActiveIn
    <2>3. IsFiniteSet(S)
      BY ConstantsAssumption, FS_Subset
    <2>4. Cardinality(ActiveIn(q)') = Cardinality(ActiveIn(q)) + Cardinality(S)
      BY <2>2, <2>3, ActiveFinite, AddingExactly
    <2> QED
      BY <1>0, <1>2, <2>2, <2>4 DEF SlotsExact, ToClaimed
  <1>3. ASSUME NEW j \in Jobs, ToRunning(j) \/ FromDead(j) PROVE SlotsExact'
    <2>1. UNCHANGED currentRunning /\ \A q \in Queues : ActiveIn(q)' = ActiveIn(q)
      BY <1>3 DEF ToRunning, FromDead, ActiveIn
    <2> QED
      BY <2>1 DEF SlotsExact
  <1>4. ASSUME NEW j \in Jobs, NEW to \in Ends, ToEnd(j, to) PROVE SlotsExact'
    <2>1. /\ j \in ActiveIn(QueueOf[j]) /\ ActiveIn(QueueOf[j])' = ActiveIn(QueueOf[j]) \ {j}
          /\ \A p \in Queues \ {QueueOf[j]} : ActiveIn(p)' = ActiveIn(p)
      BY <1>4 DEF ToEnd, ActiveIn, Ends
    <2>2. /\ Cardinality(ActiveIn(QueueOf[j])) \in Nat
          /\ Cardinality(ActiveIn(QueueOf[j])') \in Nat
          /\ Cardinality(ActiveIn(QueueOf[j])') = Cardinality(ActiveIn(QueueOf[j])) - 1
      <3>1. Cardinality({j}) = 1
        BY FS_Singleton
      <3>2. {j} \in SUBSET ActiveIn(QueueOf[j]) /\ IsFiniteSet(ActiveIn(QueueOf[j]))
        BY <1>0, <2>1, ActiveFinite
      <3> QED
        BY <2>1, <3>1, <3>2, RemovingExactly
    <2> QED
      BY <1>0, <1>4, <2>1, <2>2 DEF SlotsExact, ToEnd, Monus
  <1>5. ASSUME NEW S \in SUBSET Jobs, ToQueue(S) PROVE SlotsExact'
    <2> DEFINE Of(q) == {j \in S : QueueOf[j] = q}
    <2>1. ASSUME NEW q \in Queues
          PROVE  Of(q) \subseteq ActiveIn(q) /\ ActiveIn(q)' = ActiveIn(q) \ Of(q)
      BY <1>5 DEF ToQueue, ActiveIn
    <2>2. currentRunning' = [q \in Queues |-> Monus(currentRunning[q], Cardinality(Of(q)))]
      BY <1>5 DEF ToQueue
    <2> HIDE DEF Of
    <2>3. ASSUME NEW q \in Queues PROVE currentRunning'[q] = Cardinality(ActiveIn(q)')
      <3>1. /\ Cardinality(ActiveIn(q)) \in Nat /\ Cardinality(Of(q)) \in Nat
            /\ Cardinality(ActiveIn(q) \ Of(q)) \in Nat
            /\ Cardinality(ActiveIn(q) \ Of(q)) = Cardinality(ActiveIn(q)) - Cardinality(Of(q))
        BY <2>1, ActiveFinite, RemovingExactly
      <3>2. currentRunning'[q] = Monus(Cardinality(ActiveIn(q)), Cardinality(Of(q)))
        BY <2>2 DEF SlotsExact
      <3>3. Cardinality(ActiveIn(q)') = Cardinality(ActiveIn(q) \ Of(q))
        BY <2>1
      <3> QED
        BY <3>1, <3>2, <3>3 DEF Monus
    <2> QED
      BY <2>3 DEF SlotsExact
  <1> QED
    BY <1>1, <1>2, <1>3, <1>4, <1>5 DEF JobMove

(* "A derived count, kept in sync transactionally": when no live worker is *)
(* suspected and nobody cancels, current_running is the number of claimed  *)
(* and running jobs of the queue, through crashes, recoveries, failed      *)
(* requests and requeues.  (A suspicion or a cancellation breaks it.)      *)
THEOREM SlotsStayExact ==
  ASSUME FalseSuspects = {}, Cancellable = {}
  PROVE  Spec => []SlotsExact
  <1>1. Init => SlotsExact
    <2> SUFFICES ASSUME Init, NEW q \in Queues PROVE currentRunning[q] = Cardinality(ActiveIn(q))
      BY DEF SlotsExact
    <2>1. ActiveIn(q) = {}
      BY DEF Init, ActiveIn, Active
    <2> QED
      BY <2>1, FS_EmptySet DEF Init
  <1>2. Settled /\ SlotsExact /\ [Next]_vars => SlotsExact'
    BY MoveStep, ExactStep DEF Settled
  <1> QED
    BY <1>1, <1>2, AlwaysSettled, PTL DEF Spec

(* A job moves along the edges of the documented lifecycle only; completed *)
(* is final.                                                               *)
THEOREM LifecycleKept ==
  ASSUME FalseSuspects = {}, Cancellable = {}
  PROVE  Spec => LifecycleFollowed
  <1>1. Settled /\ [Next]_vars =>
          [\A j \in Jobs : status'[j] # status[j] => <<status[j], status'[j]>> \in Edges]_vars
    <2> SUFFICES ASSUME Settled, [Next]_vars, NEW j \in Jobs, status'[j] # status[j]
                 PROVE  <<status[j], status'[j]>> \in Edges
      OBVIOUS
    <2>1. JobMove
      BY MoveStep
    <2>2. \/ status[j] \in {"queued", "scheduled"} /\ status'[j] = "claimed"
          \/ status[j] = "claimed" /\ status'[j] \in {"running", "queued"}
          \/ status[j] = "running" /\ status'[j] \in Ends
          \/ status[j] = "dead-letter" /\ status'[j] = "queued"
      BY <2>1 DEF JobMove, Quiet, ToClaimed, ToRunning, ToEnd, ToQueue, FromDead, Active, Eligible,
                  Claimable, Ends
    <2> QED
      BY <2>2 DEF Edges, Ends
  <1> QED
    BY <1>1, AlwaysSettled, PTL DEF Spec, LifecycleFollowed

(* A job is executing or executed only when the jobs it depends on are     *)
(* completed: a claim finds them so, and completed is final.               *)
THEOREM DependenciesFirst ==
  ASSUME FalseSuspects = {}, Cancellable = {}
  PROVE  Spec => []DependencyOrder
  <1>1. Init => DependencyOrder
    BY DEF Init, DependencyOrder, Active
  <1>2. Settled /\ DependencyOrder /\ [Next]_vars => DependencyOrder'
    <2> SUFFICES ASSUME Settled, DependencyOrder, [Next]_vars, NEW j \in Jobs, NEW d \in Deps[j],
                        Active(j)' \/ status'[j] = "completed"
                 PROVE  status'[d] = "completed"
      BY DEF DependencyOrder
    <2>1. JobMove
      BY MoveStep
    <2>2. d \in Jobs
      BY ConstantsAssumption
    <2>3. \/ Active(j) \/ status[j] = "completed"
          \/ \E q \in Queues, S \in SUBSET Jobs : ToClaimed(q, S) /\ j \in S
      BY <2>1 DEF JobMove, Quiet, ToClaimed, ToRunning, ToEnd, ToQueue, FromDead, Active, Ends
    <2>4. status[d] = "completed"
      BY <2>3 DEF DependencyOrder, ToClaimed, Eligible, DepsDone
    <2>5. status[d] = "completed" => status'[d] = "completed"
      BY <2>1, <2>2 DEF JobMove, Quiet, ToClaimed, ToRunning, ToEnd, ToQueue, FromDead, Active,
                        Eligible, Claimable
    <2> QED
      BY <2>4, <2>5
  <1> QED
    BY <1>1, <1>2, AlwaysSettled, PTL DEF Spec

-----------------------------------------------------------------------------
(* The abstract board.                                                     *)

Shown ==
  \A j \in Jobs : /\ status[j] \in {"queued", "scheduled"} => BoardState[j] = "waiting"
                  /\ Active(j) <=> BoardState[j] = "held"
                  /\ status[j] = "completed" => BoardState[j] = "done"
                  /\ status[j] = "dead-letter" => BoardState[j] = "dead"

LEMMA BoardShows == TypeOK => Shown
  <1> SUFFICES ASSUME TypeOK, NEW j \in Jobs
               PROVE  /\ status[j] \in {"queued", "scheduled"} => BoardState[j] = "waiting"
                      /\ Active(j) <=> BoardState[j] = "held"
                      /\ status[j] = "completed" => BoardState[j] = "done"
                      /\ status[j] = "dead-letter" => BoardState[j] = "dead"
    BY DEF Shown
  <1>1. status[j] \in JobStatus
    BY DEF TypeOK
  <1>2. CASE status[j] \in {"queued", "scheduled"}
    BY <1>2 DEF BoardState, OnBoard, Active
  <1>3. CASE status[j] \in {"claimed", "running"}
    BY <1>3 DEF BoardState, OnBoard, Active
  <1>4. CASE status[j] = "completed"
    BY <1>4 DEF BoardState, OnBoard, Active
  <1>5. CASE status[j] = "dead-letter"
    BY <1>5 DEF BoardState, OnBoard, Active
  <1>6. CASE status[j] = "cancelled"
    BY <1>6 DEF BoardState, OnBoard, Active
  <1> QED
    BY <1>1, <1>2, <1>3, <1>4, <1>5, <1>6 DEF JobStatus

LEMMA BoardShowsNext == TypeOK' => Shown'
  BY BoardShows, PTL

(* The moves of the board, pointwise.                                      *)
LEMMA BoardMoves ==
  ASSUME NEW S \in SUBSET Jobs, S # {}, NEW from, NEW to,
         \A j \in S : BoardState[j] = from /\ BoardState'[j] = to,
         \A j \in Jobs \ S : status'[j] = status[j]
  PROVE  Board!Move(S, from, to)
  <1>1. \A j \in Jobs \ S : BoardState'[j] = BoardState[j]
    BY DEF BoardState
  <1>2. BoardState' = [j \in Jobs |-> BoardState'[j]]
    BY DEF BoardState
  <1>3. BoardState' = [j \in Jobs |-> IF j \in S THEN to ELSE BoardState[j]]
    BY <1>1, <1>2
  <1> QED
    BY <1>3 DEF Board!Move

(* The board counts as the queues do.                                      *)
LEMMA BoardCounts == \A S : Board!Cardinality(S) = Cardinality(S)
  <1>1. \A S : Board!IsFiniteSet(S) = IsFiniteSet(S)
    BY DEF Board!IsFiniteSet, IsFiniteSet
  <1> QED
    BY <1>1 DEF Board!Cardinality, Cardinality

LEMMA BoardStep ==
  ASSUME TypeOK, TypeOK', SlotsExact, JobMove
  PROVE  Board!Next \/ UNCHANGED BoardState
  <1>s. Shown /\ Shown'
    BY BoardShows, BoardShowsNext
  <1> USE DEF Active
  <1>1. CASE Quiet
    BY <1>1 DEF Quiet, BoardState
  <1>2. ASSUME \A j \in Jobs : status'[j] = status[j] PROVE UNCHANGED BoardState
    BY <1>2 DEF BoardState
  <1>3. ASSUME NEW q \in Queues, NEW S \in SUBSET Jobs, ToClaimed(q, S), S # {}
        PROVE  Board!Take(q, S)
    <2>1. \A j \in S : BoardState[j] = "waiting" /\ BoardState'[j] = "held"
      BY <1>s, <1>3 DEF Shown, ToClaimed, Eligible, Claimable
    <2>2. Board!Move(S, "waiting", "held")
      BY <1>3, <2>1, BoardMoves DEF ToClaimed
    <2>3. \A j \in S : QueueOf[j] = q /\ \A d \in Deps[j] : BoardState[d] = "done"
      <3>1. \A j \in S : Deps[j] \subseteq Jobs
        BY ConstantsAssumption
      <3> QED
        BY <1>s, <1>3, <3>1 DEF Shown, ToClaimed, Eligible, DepsDone
    <2>4. Cardinality(Board!HeldIn(q)) + Cardinality(S) <= Limit[q]
      <3>1. Board!HeldIn(q) = ActiveIn(q)
        BY <1>s DEF Shown, Board!HeldIn, ActiveIn
      <3>2. Cardinality(S) \in Nat /\ Limit[q] \in Nat /\ currentRunning[q] \in Nat
        BY ConstantsAssumption, FS_Subset, FS_CardinalityType DEF TypeOK
      <3>3. Cardinality(S) <= Limit[q] - currentRunning[q]
        BY <1>3 DEF ToClaimed, QueueRoom
      <3>4. Cardinality(Board!HeldIn(q)) = currentRunning[q]
        BY <3>1 DEF SlotsExact
      <3> QED
        BY <3>2, <3>3, <3>4
    <2> QED
      BY <2>2, <2>3, <2>4, BoardCounts DEF Board!Take
  <1>4. ASSUME NEW S \in SUBSET Jobs, ToQueue(S), S # {} PROVE Board!GiveBack(S)
    <2>1. \A j \in S : BoardState[j] = "held" /\ BoardState'[j] = "waiting"
      BY <1>s, <1>4 DEF Shown, ToQueue
    <2> QED
      BY <1>4, <2>1, BoardMoves DEF ToQueue, Board!GiveBack
  <1>5. ASSUME NEW j \in Jobs, ToRunning(j) PROVE UNCHANGED BoardState
    <2>1. \A x \in Jobs : BoardState'[x] = BoardState[x]
      BY <1>s, <1>5 DEF Shown, ToRunning, BoardState
    <2>2. /\ BoardState = [x \in Jobs |-> BoardState[x]]
          /\ BoardState' = [x \in Jobs |-> BoardState'[x]]
      BY DEF BoardState
    <2> QED
      BY <2>1, <2>2
  <1>6. ASSUME NEW j \in Jobs, FromDead(j) PROVE Board!Revive(j)
    <2>1. \A x \in {j} : BoardState[x] = "dead" /\ BoardState'[x] = "waiting"
      BY <1>s, <1>6 DEF Shown, FromDead
    <2>2. \A x \in Jobs \ {j} : status'[x] = status[x]
      BY <1>6 DEF FromDead
    <2> QED
      BY <2>1, <2>2, BoardMoves DEF Board!Revive
  <1>7. ASSUME NEW j \in Jobs, NEW to \in Ends, ToEnd(j, to)
        PROVE  Board!Finish(j) \/ Board!Bury(j) \/ Board!GiveBack({j})
    <2>1. BoardState[j] = "held" /\ \A x \in Jobs \ {j} : status'[x] = status[x]
      BY <1>s, <1>7 DEF Shown, ToEnd
    <2>2. CASE to = "completed"
      <3>1. \A x \in {j} : BoardState[x] = "held" /\ BoardState'[x] = "done"
        BY <1>s, <1>7, <2>1, <2>2 DEF Shown, ToEnd
      <3> QED
        BY <2>1, <3>1, BoardMoves DEF Board!Finish
    <2>3. CASE to = "dead-letter"
      <3>1. \A x \in {j} : BoardState[x] = "held" /\ BoardState'[x] = "dead"
        BY <1>s, <1>7, <2>1, <2>3 DEF Shown, ToEnd
      <3> QED
        BY <2>1, <3>1, BoardMoves DEF Board!Bury
    <2>4. CASE to \in {"queued", "scheduled"}
      <3>1. \A x \in {j} : BoardState[x] = "held" /\ BoardState'[x] = "waiting"
        BY <1>s, <1>7, <2>1, <2>4 DEF Shown, ToEnd
      <3> QED
        BY <2>1, <3>1, BoardMoves DEF Board!GiveBack
    <2> QED
      BY <2>2, <2>3, <2>4 DEF Ends
  <1>8. ASSUME NEW q \in Queues, NEW S \in SUBSET Jobs, ToClaimed(q, S)
        PROVE  Board!Next \/ UNCHANGED BoardState
    <2>1. CASE S = {}
      BY <1>2, <1>8, <2>1 DEF ToClaimed
    <2>2. CASE S # {}
      BY <1>3, <1>8, <2>2 DEF Board!Next
    <2> QED
      BY <2>1, <2>2
  <1>9. ASSUME NEW S \in SUBSET Jobs, ToQueue(S) PROVE Board!Next \/ UNCHANGED BoardState
    <2>1. CASE S = {}
      BY <1>2, <1>9, <2>1 DEF ToQueue
    <2>2. CASE S # {}
      BY <1>4, <1>9, <2>2 DEF Board!Next
    <2> QED
      BY <2>1, <2>2
  <1>10. ASSUME NEW j \in Jobs, FromDead(j) \/ \E to \in Ends : ToEnd(j, to) PROVE Board!Next
    <2>1. {j} \in SUBSET Jobs
      OBVIOUS
    <2> QED
      BY <1>6, <1>7, <1>10, <2>1 DEF Board!Next
  <1> QED
    BY <1>1, <1>5, <1>8, <1>9, <1>10 DEF JobMove

(* JobLifecycle implements the abstract board: whatever workers, detectors,*)
(* crashes and failed requests do, the jobs are taken within the limit of  *)
(* their queue and after their dependencies, and done is for ever.         *)
THEOREM LifecycleImplementsBoard ==
  ASSUME FalseSuspects = {}, Cancellable = {}
  PROVE  Spec => ImplementsBoard
  <1>1. Init => Board!Init
    <2>1. Init => \A j \in Jobs : OnBoard(status[j]) = "waiting"
      BY DEF Init, OnBoard
    <2> QED
      BY <2>1 DEF Board!Init, BoardState
  <1>2. Settled /\ SlotsExact /\ TypeOK' /\ [Next]_vars => [Board!Next]_BoardState
    BY MoveStep, BoardStep DEF Settled
  <1> QED
    BY <1>1, <1>2, TypeCorrect, AlwaysSettled, SlotsStayExact, PTL
    DEF Spec, ImplementsBoard, Board!Spec
=============================================================================
