--------------------------- MODULE SubmissionProofs ---------------------------
(***************************************************************************)
(* The invariants of Submission, for any number of requests, whatever each *)
(* may ask, and any number of requests cut short.                          *)
(*                                                                         *)
(* They hold because a handler's knowledge only ever goes stale in ways    *)
(* that the keys and foreign keys of the database turn into an error: a    *)
(* queue that was found may be gone, but it never comes back (its row has  *)
(* the name of a request that is over), and a job, once there, stays and   *)
(* keeps its queue and, through that, the queue's project.                 *)
(***************************************************************************)
EXTENDS Submission, FiniteSetTheorems, TLAPS

(* What a handler that has got to each statement is about, and that the    *)
(* queue a job handler has found was written by a request that is over.    *)
Underway ==
  \A r \in Requests :
    /\ pc[r] # "new" => req[r] \in Menu[r]
    /\ pc[r] \in {"find", "insert", "refetch"} => req[r].op = "createJob"
    /\ pc[r] \in {"batch", "jobs"} => req[r].op = "createBatch"
    /\ pc[r] \in {"find", "refetch"} => HasKey(r)
    /\ pc[r] = "refetch" => JobsWith(req[r].at, KeyOf(r)) # {}
    /\ pc[r] = "insert" => req[r].at \in Requests /\ pc[req[r].at] = "done"
    /\ pc[r] = "find" => req[r].at \in Requests /\ pc[req[r].at] = "done"
    /\ pc[r] = "jobs" => r \in BatchIds

(* Whoever has left a row is past the statement that writes it.            *)
Written ==
  /\ \A q \in queues : q.id \in Requests /\ pc[q.id] = "done"
                      /\ q = [id |-> q.id, project |-> q.project, name |-> q.name]
  /\ \A b \in batches :
       b.id \in Requests /\ pc[b.id] \in {"jobs", "done"} /\ req[b.id].op = "createBatch" /\ b.total = Len(req[b.id].keys)

(* The batch a job names was there when the request came, or is not known. *)
RefsNamed == \A r \in Requests : pc[r] # "new" => Nameable(req[r])

(* @@unique([queue_id, idempotency_key])                                   *)
KeysUnique ==
  \A j1, j2 \in jobs : j1.queue = j2.queue /\ j1.key = j2.key /\ j1.key # NoKey => j1 = j2

(* A keyed submission is answered with the job of its key, or fails because*)
(* its queue is gone for good, or because it named a batch that never was. *)
AnswerHasKey ==
  \A r \in Requests : pc[r] = "done" /\ req[r].op = "createJob" /\ HasKey(r) =>
    /\ answer[r].code = "ok" => answer[r].row \in JobsWith(req[r].at, KeyOf(r))
    /\ answer[r].code = "error" =>
         \/ faults > 0 \/ req[r].ref = Unknown
         \/ /\ req[r].at \notin QueueIds
            /\ req[r].at \in Requests /\ pc[req[r].at] = "done"

(* The jobs that a request writes are there from its answer on, and never  *)
(* before; those of a batch are all there then, or none of them.           *)
JobsOf(r)   == {j \in jobs : j.id = r}
JobsOfBatch ==
  \A r \in Requests :
    /\ pc[r] # "done" => JobsOf(r) = {}
    /\ pc[r] = "done" /\ req[r].op = "createBatch" =>
         JobsOf(r) = IF answer[r].code = "ok" THEN BatchRows(r) ELSE {}

(* The primary key of queues and @@unique([project_id, name]).             *)
NamesUnique ==
  \A q1, q2 \in queues :
    q1.id = q2.id \/ (q1.project = q2.project /\ q1.name = q2.name) => q1 = q2

Inv == TypeOK /\ Underway /\ Written /\ RefsNamed /\ KeysUnique /\ AnswerHasKey /\ JobsOfBatch /\ NamesUnique

LEMMA HeadOfOne ==
  ASSUME NEW S, NEW s \in Seq(S), Len(s) = 1
  PROVE  DOMAIN s = {1} /\ Head(s) = s[1]
  OBVIOUS

LEMMA InitInv == Init => Inv
  BY SubmissionAssumption
  DEF Init, Inv, TypeOK, Underway, Written, RefsNamed, KeysUnique, AnswerHasKey, JobsOfBatch, JobsOf,
      NamesUnique, Nothing

(* What every step of a handler leaves alone.                              *)
Shape == /\ req = [r \in Requests |-> req[r]] /\ answer = [r \in Requests |-> answer[r]]
         /\ pc = [r \in Requests |-> pc[r]] /\ faults \in Nat

LEMMA TypeShape == TypeOK => Shape
  <1> SUFFICES ASSUME TypeOK PROVE Shape
    OBVIOUS
  <1>1. req = [r \in Requests |-> req[r]] /\ faults \in 0 .. MaxFaults
    BY DEF TypeOK
  <1>2. pc = [r \in Requests |-> pc[r]]
    BY DEF TypeOK
  <1>3. answer = [r \in Requests |-> answer[r]]
    BY DEF TypeOK
  <1> QED
    BY <1>1, <1>2, <1>3, SubmissionAssumption DEF Shape

LEMMA AfterCheckPlaces ==
  ASSUME NEW r
  PROVE  /\ AfterCheck(r) \in {"name", "find", "insert", "batch", "write"}
         /\ AfterCheck(r) \in {"find", "insert"} => req[r].op = "createJob"
         /\ AfterCheck(r) = "find" => HasKey(r)
         /\ AfterCheck(r) = "batch" => req[r].op = "createBatch"
  BY DEF AfterCheck

LEMMA CheckPlaces ==
  ASSUME Shape, NEW r \in Requests, Check(r)
  PROVE  \/ /\ Found(r) /\ pc' = [pc EXCEPT ![r] = AfterCheck(r)] /\ answer' = answer
            /\ pc'[r] = AfterCheck(r)
         \/ /\ ~Found(r) /\ pc' = [pc EXCEPT ![r] = "done"] /\ pc'[r] = "done"
            /\ answer' = [answer EXCEPT ![r] = [code |-> "not found", row |-> None]]
            /\ answer'[r].code = "not found"
  <1>1. CASE Found(r)
    <2>1. pc' = [pc EXCEPT ![r] = AfterCheck(r)] /\ answer' = answer
      BY <1>1 DEF Check, Goes
    <2> HIDE DEF AfterCheck
    <2>2. pc'[r] = AfterCheck(r)
      BY <2>1 DEF Shape
    <2> QED
      BY <1>1, <2>1, <2>2
  <1>2. CASE ~Found(r)
    <2>1. /\ pc' = [pc EXCEPT ![r] = "done"]
          /\ answer' = [answer EXCEPT ![r] = [code |-> "not found", row |-> None]]
      BY <1>2 DEF Check, Answer
    <2> QED
      BY <1>2, <2>1 DEF Shape
  <1> QED
    BY <1>1, <1>2

LEMMA StepFrame ==
  ASSUME Shape, NEW r \in Requests, Step(r)
  PROVE  /\ pc[r] # "done" /\ pc'[r] # "new" /\ faults' \in {faults, faults + 1}
         /\ \A x \in Requests \ {r} : pc'[x] = pc[x] /\ req'[x] = req[x] /\ answer'[x] = answer[x]
         /\ IF pc[r] = "new" THEN req'[r] \in Menu[r] /\ Nameable(req'[r]) ELSE req' = req
         /\ pc[r] = "new" /\ pc'[r] = "done" => answer'[r].code = "invalid"
  <1> USE DEF Shape, Goes, Answer
  <1>1. CASE Arrive(r)
    BY <1>1 DEF Arrive
  <1>2. CASE Check(r)
    <2>1. pc'[r] # "new"
      BY <1>2, CheckPlaces, AfterCheckPlaces
    <2>2. /\ pc[r] = "check" /\ UNCHANGED <<req, faults>>
          /\ \A x \in Requests \ {r} : pc'[x] = pc[x] /\ answer'[x] = answer[x]
      BY <1>2, CheckPlaces DEF Check
    <2> QED
      BY <2>1, <2>2
  <1>3. CASE CreateProject(r) \/ UpdateProject(r) \/ RemoveProject(r)
    BY <1>3 DEF CreateProject, UpdateProject, RemoveProject
  <1>4. CASE CheckName(r) \/ CreateQueue(r) \/ UpdateQueue(r) \/ RemoveQueue(r)
    BY <1>4 DEF CheckName, CreateQueue, UpdateQueue, RemoveQueue
  <1>5. CASE FindKey(r) \/ InsertJob(r) \/ Refetch(r)
    BY <1>5 DEF FindKey, InsertJob, Refetch, Duplicate
  <1>6. CASE InsertBatch(r) \/ InsertJobs(r) \/ CreateScheduledJob(r)
    BY <1>6 DEF InsertBatch, InsertJobs, CreateScheduledJob
  <1>7. CASE CutShort(r)
    BY <1>7 DEF CutShort
  <1> QED
    BY <1>1, <1>2, <1>3, <1>4, <1>5, <1>6, <1>7 DEF Step

(* How a step changes the jobs, ...                                        *)
LEMMA StepJobs ==
  ASSUME Shape, Underway, NEW r \in Requests, Step(r)
  PROVE  \/ /\ jobs' = jobs
            /\ pc'[r] = "done" /\ req'[r].op = "createBatch" => answer'[r].code # "ok"
         \/ /\ pc[r] = "insert" /\ References(r) /\ ~Taken(req[r].at, KeyOf(r))
            /\ batches' = batches /\ jobs' = jobs \cup {NewJob(r, 1, req[r].ref)} /\ queues' = queues /\ req' = req
            /\ pc'[r] = "done" /\ answer'[r] = [code |-> "ok", row |-> NewJob(r, 1, req[r].ref)]
         \/ /\ pc[r] = "jobs" /\ req[r].at \in QueueIds /\ ~Collides(r)
            /\ jobs' = jobs \cup BatchRows(r) /\ queues' = queues /\ req' = req
            /\ batches' = batches /\ pc'[r] = "done" /\ answer'[r].code = "ok"
  <1> USE DEF Shape, Goes, Answer, rows
  <1>1. CASE Arrive(r) \/ CutShort(r)
    BY <1>1 DEF Arrive, CutShort
  <1>2. CASE Check(r)
    <2>1. jobs' = jobs
      BY <1>2 DEF Check
    <2> HIDE DEF Shape, Goes, Answer, rows
    <2> QED
      BY <1>2, <2>1, CheckPlaces, AfterCheckPlaces
  <1>3. CASE CreateProject(r) \/ UpdateProject(r) \/ RemoveProject(r)
    BY <1>3 DEF CreateProject, UpdateProject, RemoveProject
  <1>4. CASE CheckName(r) \/ CreateQueue(r) \/ UpdateQueue(r) \/ RemoveQueue(r)
    BY <1>4 DEF CheckName, CreateQueue, UpdateQueue, RemoveQueue
  <1>5. CASE FindKey(r) \/ InsertJob(r) \/ Refetch(r)
    BY <1>5 DEF FindKey, InsertJob, Refetch, Duplicate, Underway
  <1>6. CASE InsertBatch(r) \/ InsertJobs(r) \/ CreateScheduledJob(r)
    BY <1>6 DEF InsertBatch, InsertJobs, CreateScheduledJob, RolledBack
  <1> QED
    BY <1>1, <1>2, <1>3, <1>4, <1>5, <1>6 DEF Step

(* ... the queues, and the batches.                                        *)
LEMMA StepQueues ==
  ASSUME Shape, NEW r \in Requests, Step(r)
  PROVE  \/ queues' = queues
         \/ /\ pc[r] = "write" /\ Insertable(r) /\ pc'[r] = "done" /\ UNCHANGED <<jobs, schedules>>
            /\ queues' = queues \cup {[id |-> r, project |-> req[r].at, name |-> req[r].name]}
         \/ /\ pc[r] = "write" /\ ~InUse(req[r].at) /\ UNCHANGED <<jobs, schedules>>
            /\ queues' = {x \in queues : x.id # req[r].at}
         \/ /\ pc[r] = "write" /\ Updatable(r) /\ UNCHANGED <<jobs, schedules>>
            /\ queues' = {Renamed(q, r) : q \in queues}
  <1> USE DEF Shape, Goes, Answer, rows
  <1>1. CASE Arrive(r) \/ Check(r) \/ CutShort(r)
    BY <1>1 DEF Arrive, Check, CutShort
  <1>3. CASE CreateProject(r) \/ UpdateProject(r) \/ RemoveProject(r)
    BY <1>3 DEF CreateProject, UpdateProject, RemoveProject
  <1>4. CASE CheckName(r) \/ CreateQueue(r) \/ UpdateQueue(r) \/ RemoveQueue(r)
    BY <1>4 DEF CheckName, CreateQueue, UpdateQueue, RemoveQueue
  <1>5. CASE FindKey(r) \/ InsertJob(r) \/ Refetch(r)
    BY <1>5 DEF FindKey, InsertJob, Refetch
  <1>6. CASE InsertBatch(r) \/ InsertJobs(r) \/ CreateScheduledJob(r)
    BY <1>6 DEF InsertBatch, InsertJobs, CreateScheduledJob
  <1> QED
    BY <1>1, <1>3, <1>4, <1>5, <1>6 DEF Step

LEMMA StepBatches ==
  ASSUME Shape, NEW r \in Requests, Step(r)
  PROVE  \/ batches' = batches /\ (pc[r] = "jobs" => pc'[r] = "done")
         \/ /\ pc[r] = "batch" /\ pc'[r] = "jobs"
            /\ batches' = batches \cup {[id |-> r, total |-> Len(req[r].keys)]}
  <1> USE DEF Shape, Goes, Answer, rows
  <1>1. CASE Arrive(r) \/ Check(r) \/ CutShort(r)
    BY <1>1 DEF Arrive, Check, CutShort
  <1>3. CASE CreateProject(r) \/ UpdateProject(r) \/ RemoveProject(r)
    BY <1>3 DEF CreateProject, UpdateProject, RemoveProject
  <1>4. CASE CheckName(r) \/ CreateQueue(r) \/ UpdateQueue(r) \/ RemoveQueue(r)
    BY <1>4 DEF CheckName, CreateQueue, UpdateQueue, RemoveQueue
  <1>5. CASE FindKey(r) \/ InsertJob(r) \/ Refetch(r)
    BY <1>5 DEF FindKey, InsertJob, Refetch
  <1>6. CASE InsertBatch(r) \/ InsertJobs(r) \/ CreateScheduledJob(r)
    BY <1>6 DEF InsertBatch, InsertJobs, CreateScheduledJob
  <1> QED
    BY <1>1, <1>3, <1>4, <1>5, <1>6 DEF Step

(* Where a handler of jobs goes.                                           *)
LEMMA StepPlaces ==
  ASSUME Shape, Underway, NEW r \in Requests, Step(r)
  PROVE  /\ pc'[r] \in {"find", "insert"} =>
              /\ req[r].op = "createJob"
              /\ pc[r] = "check" => req[r].at \in QueueIds
              /\ pc[r] \in {"check", "find"}
         /\ pc'[r] \in {"find", "refetch"} => HasKey(r)
         /\ pc'[r] = "refetch" =>
              pc[r] = "insert" /\ JobsWith(req[r].at, KeyOf(r)) # {} /\ req[r].op = "createJob"
         /\ pc'[r] = "batch" => pc[r] = "check" /\ req[r].op = "createBatch"
         /\ pc'[r] = "jobs" => pc[r] = "batch" /\ r \in BatchIds'
  <1> USE DEF Shape, Goes, Answer, rows
  <1>1. CASE Arrive(r) \/ CutShort(r)
    BY <1>1 DEF Arrive, CutShort
  <1>2. CASE Check(r)
    <2>1. pc[r] = "check"
      BY <1>2 DEF Check
    <2>2. pc'[r] # "done" => Found(r) /\ pc'[r] = AfterCheck(r)
      BY <1>2, CheckPlaces
    <2>3. Found(r) /\ req[r].op = "createJob" => req[r].at \in QueueIds
      BY DEF Found
    <2> HIDE DEF Shape, Goes, Answer, rows
    <2> QED
      BY <2>1, <2>2, <2>3, AfterCheckPlaces
  <1>3. CASE CreateProject(r) \/ UpdateProject(r) \/ RemoveProject(r)
    BY <1>3 DEF CreateProject, UpdateProject, RemoveProject
  <1>4. CASE CheckName(r) \/ CreateQueue(r) \/ UpdateQueue(r) \/ RemoveQueue(r)
    BY <1>4 DEF CheckName, CreateQueue, UpdateQueue, RemoveQueue
  <1>5. CASE FindKey(r) \/ InsertJob(r) \/ Refetch(r)
    BY <1>5 DEF FindKey, InsertJob, Refetch, Duplicate, Taken, Underway
  <1>6. CASE InsertBatch(r)
    <2>1. [id |-> r, total |-> Len(req[r].keys)] \in batches'
      BY <1>6 DEF InsertBatch
    <2>2. r \in BatchIds'
      BY <2>1 DEF BatchIds
    <2>3. pc[r] = "batch" /\ pc'[r] = "jobs"
      BY <1>6 DEF InsertBatch
    <2> QED
      BY <2>2, <2>3
  <1>7. CASE InsertJobs(r) \/ CreateScheduledJob(r)
    BY <1>7 DEF InsertJobs, CreateScheduledJob
  <1> QED
    BY <1>1, <1>2, <1>3, <1>4, <1>5, <1>6, <1>7 DEF Step

(* And what a submission with a key is answered.                           *)
LEMMA StepAnswers ==
  ASSUME Shape, Underway, NEW r \in Requests, Step(r),
         pc'[r] = "done", req[r].op = "createJob", HasKey(r), pc[r] # "new"
  PROVE  /\ answer'[r].code = "ok" =>
              \/ answer'[r].row \in JobsWith(req[r].at, KeyOf(r))
              \/ pc[r] = "insert" /\ answer'[r].row = NewJob(r, 1, req[r].ref) /\ NewJob(r, 1, req[r].ref) \in jobs'
         /\ answer'[r].code = "error" =>
              \/ faults' = faults + 1
              \/ pc[r] = "insert" /\ req[r].at \notin QueueIds /\ queues' = queues
              \/ pc[r] = "insert" /\ req[r].ref \notin BatchIds \cup {None}
  <1> USE DEF Shape, Goes, Answer, rows
  <1>1. CASE Arrive(r) \/ CutShort(r)
    BY <1>1 DEF Arrive, CutShort
  <1>2. CASE Check(r)
    BY <1>2, CheckPlaces, AfterCheckPlaces
  <1>3. CASE CreateProject(r) \/ UpdateProject(r) \/ RemoveProject(r)
    BY <1>3 DEF CreateProject, UpdateProject, RemoveProject
  <1>4. CASE CheckName(r) \/ CreateQueue(r) \/ UpdateQueue(r) \/ RemoveQueue(r)
    BY <1>4 DEF CheckName, CreateQueue, UpdateQueue, RemoveQueue
  <1>5. CASE FindKey(r) \/ Refetch(r)
    BY <1>5 DEF FindKey, Refetch
  <1>6. CASE InsertJob(r)
    BY <1>6 DEF InsertJob, Duplicate, References
  <1>7. CASE InsertBatch(r) \/ InsertJobs(r) \/ CreateScheduledJob(r)
    BY <1>7 DEF InsertBatch, InsertJobs, CreateScheduledJob, Underway
  <1> QED
    BY <1>1, <1>2, <1>3, <1>4, <1>5, <1>6, <1>7 DEF Step

-----------------------------------------------------------------------------
(* Jobs stay, and a queue that is gone does not come back.                 *)
LEMMA JobsStay ==
  ASSUME Shape, Underway, NEW r \in Requests, Step(r)
  PROVE  jobs \subseteq jobs'
  BY StepJobs

LEMMA RenamedKeeps ==
  ASSUME Written, NEW r, NEW q \in queues
  PROVE  /\ Renamed(q, r).id = q.id /\ Renamed(q, r).project = q.project
         /\ Renamed(q, r).name = IF q.id = req[r].at /\ req[r].name # None THEN req[r].name ELSE q.name
         /\ Renamed(q, r) = [id |-> q.id, project |-> q.project, name |-> Renamed(q, r).name]
  <1>1. q = [id |-> q.id, project |-> q.project, name |-> q.name]
    BY DEF Written
  <1>2. CASE q.id = req[r].at /\ req[r].name # None
    <2>1. Renamed(q, r) = [id |-> q.id, project |-> q.project, name |-> req[r].name]
      BY <1>1, <1>2 DEF Renamed
    <2> QED
      BY <1>2, <2>1
  <1>3. CASE ~(q.id = req[r].at /\ req[r].name # None)
    BY <1>1, <1>3 DEF Renamed
  <1> QED
    BY <1>2, <1>3

LEMMA RenamedIds ==
  ASSUME Written, NEW r, queues' = {Renamed(q, r) : q \in queues}
  PROVE  QueueIds' = QueueIds
  BY RenamedKeeps DEF QueueIds

LEMMA QueuesGoneForGood ==
  ASSUME Shape, Written, NEW r \in Requests, Step(r), NEW q, q \notin QueueIds, q # r \/ pc'[r] # "done"
  PROVE  q \notin QueueIds'
  BY StepQueues, RenamedIds DEF QueueIds

LEMMA RefsStep ==
  ASSUME Shape, RefsNamed, NEW r \in Requests, Step(r)
  PROVE  RefsNamed'
  <1>1. BatchIds \subseteq BatchIds'
    BY StepBatches DEF BatchIds
  <1>2. \A m : Nameable(m) => Nameable(m)'
    BY <1>1 DEF Nameable
  <1>3. \A x \in Requests : pc'[x] # "new" => Nameable(req'[x])
    BY StepFrame DEF RefsNamed
  <1> QED
    BY <1>1, <1>3 DEF RefsNamed, Nameable

LEMMA UnderwayStep ==
  ASSUME Shape, Underway, Written, NEW r \in Requests, Step(r)
  PROVE  Underway'
  <1>1. \A x \in Requests : x # r =>
          /\ pc'[x] = pc[x] /\ req'[x] = req[x]
          /\ pc[x] = "done" => pc'[x] = "done"
    BY StepFrame
  <1>2. pc[r] # "done" /\ (pc[r] # "new" => req' = req)
    BY StepFrame
  <1>3. \A x \in Requests : JobsWith(req[x].at, KeyOf(x)) # {} /\ req'[x] = req[x] =>
          JobsWith(req[x].at, KeyOf(x))' # {}
    BY JobsStay DEF JobsWith, KeyOf
  <1>4. \A q \in QueueIds : q \in Requests /\ pc[q] = "done"
    BY DEF Written, QueueIds
  <1>5. BatchIds \subseteq BatchIds'
    BY StepBatches DEF BatchIds
  <1> QED
    <2> SUFFICES ASSUME NEW x \in Requests
                 PROVE  /\ pc'[x] # "new" => req'[x] \in Menu[x]
                        /\ pc'[x] \in {"find", "insert", "refetch"} => req'[x].op = "createJob"
                        /\ pc'[x] \in {"batch", "jobs"} => req'[x].op = "createBatch"
                        /\ pc'[x] \in {"find", "refetch"} => HasKey(x)'
                        /\ pc'[x] = "refetch" => JobsWith(req[x].at, KeyOf(x))' # {}
                        /\ pc'[x] = "insert" => req'[x].at \in Requests /\ pc'[req'[x].at] = "done"
                        /\ pc'[x] = "find" => req'[x].at \in Requests /\ pc'[req'[x].at] = "done"
                        /\ pc'[x] = "jobs" => x \in BatchIds'
      BY DEF Underway
    <2>1. CASE x # r
      <3>1. HasKey(x) => HasKey(x)'
        BY <1>1, <2>1 DEF HasKey
      <3> QED
        BY <1>1, <1>2, <1>3, <1>5, <2>1, <3>1 DEF Underway
    <2>2. CASE x = r
      <3>1. HasKey(r) /\ req' = req => HasKey(r)'
        BY DEF HasKey
      <3>2. pc[r] = "new" => req'[r] \in Menu[r]
        BY StepFrame
      <3>3. \A y \in Requests : pc[y] = "done" => pc'[y] = "done"
        BY <1>1, <1>2
      <3>4. pc'[r] \in {"find", "insert", "refetch", "batch", "jobs"} => pc[r] # "new"
        BY StepPlaces
      <3> QED
        BY <1>2, <1>3, <1>4, <2>2, <3>1, <3>2, <3>3, <3>4, StepPlaces DEF Underway
    <2> QED
      BY <2>1, <2>2

LEMMA WrittenStep ==
  ASSUME Shape, Underway, Written, NEW r \in Requests, Step(r)
  PROVE  Written'
  <1>1. \A x \in Requests : x # r => pc'[x] = pc[x] /\ req'[x] = req[x]
    BY StepFrame
  <1>2. pc[r] # "done" /\ (pc[r] # "new" => req' = req)
    BY StepFrame
  <1>3. \A q \in queues' : q.id \in Requests /\ pc'[q.id] = "done"
                           /\ q = [id |-> q.id, project |-> q.project, name |-> q.name]
    <2>1. \A q \in queues : q.id \in Requests /\ pc'[q.id] = "done"
                            /\ q = [id |-> q.id, project |-> q.project, name |-> q.name]
      BY <1>1, <1>2 DEF Written
    <2>2. CASE queues' \subseteq queues
      BY <2>1, <2>2
    <2>3. CASE /\ pc'[r] = "done"
               /\ queues' = queues \cup {[id |-> r, project |-> req[r].at, name |-> req[r].name]}
      BY <2>1, <2>3
    <2>4. CASE queues' = {Renamed(q, r) : q \in queues}
      BY <2>1, <2>4, RenamedKeeps
    <2> QED
      BY <2>2, <2>3, <2>4, StepQueues
  <1>4. \A b \in batches' :
          /\ b.id \in Requests /\ pc'[b.id] \in {"jobs", "done"}
          /\ req'[b.id].op = "createBatch" /\ b.total = Len(req'[b.id].keys)
    BY <1>1, <1>2, StepBatches DEF Written, Underway
  <1> QED
    BY <1>3, <1>4 DEF Written

(* The key of a job, for one that is created on its own.                   *)
LEMMA OwnKey ==
  ASSUME Underway, NEW r \in Requests, pc[r] = "insert"
  PROVE  KeyOf(r) = NewJob(r, 1, req[r].ref).key
  <1>1. req[r] \in Menu[r] /\ req[r].op = "createJob"
    BY DEF Underway
  <1>2. /\ req[r].keys \in Seq({req[r].keys[n] : n \in DOMAIN req[r].keys})
        /\ Len(req[r].keys) = 1
    BY <1>1, SubmissionAssumption
  <1> QED
    BY <1>2, HeadOfOne DEF KeyOf, NewJob

LEMMA KeysStep ==
  ASSUME Shape, Underway, KeysUnique, NEW r \in Requests, Step(r)
  PROVE  KeysUnique'
  <1>1. CASE jobs' = jobs
    BY <1>1 DEF KeysUnique
  <1>2. CASE /\ pc[r] = "insert" /\ ~Taken(req[r].at, KeyOf(r))
             /\ jobs' = jobs \cup {NewJob(r, 1, req[r].ref)}
    <2>1. NewJob(r, 1, req[r].ref).queue = req[r].at /\ NewJob(r, 1, req[r].ref).key = KeyOf(r)
      BY <1>2, OwnKey DEF NewJob
    <2>2. KeyOf(r) = NoKey \/ \A j \in jobs : ~(j.queue = req[r].at /\ j.key = KeyOf(r))
      BY <1>2 DEF Taken, JobsWith
    <2> QED
      BY <1>2, <2>1, <2>2 DEF KeysUnique
  <1>3. CASE ~Collides(r) /\ jobs' = jobs \cup BatchRows(r)
    <2>1. \A j \in BatchRows(r) : \E n \in DOMAIN req[r].keys :
            j = NewJob(r, n, r) /\ j.queue = req[r].at /\ j.key = req[r].keys[n]
      BY DEF BatchRows, NewJob
    <2>2. \A n \in DOMAIN req[r].keys : req[r].keys[n] = NoKey
            \/ \A j \in jobs : ~(j.queue = req[r].at /\ j.key = req[r].keys[n])
      BY <1>3 DEF Collides, Taken, JobsWith
    <2>3. \A n, m \in DOMAIN req[r].keys :
            req[r].keys[n] = req[r].keys[m] /\ req[r].keys[n] # NoKey => n = m
      BY <1>3 DEF Collides
    <2>4. \A j1, j2 \in BatchRows(r) : j1.key = j2.key /\ j1.key # NoKey => j1 = j2
      BY <2>1, <2>3
    <2>5. \A j1 \in BatchRows(r), j2 \in jobs : j1.queue = j2.queue /\ j1.key = j2.key => j1.key = NoKey
      BY <2>1, <2>2
    <2> QED
      BY <1>3, <2>4, <2>5 DEF KeysUnique
  <1> QED
    BY <1>1, <1>2, <1>3, StepJobs

LEMMA AnswerStep ==
  ASSUME Shape, Underway, Written, RefsNamed, AnswerHasKey, NEW r \in Requests, Step(r)
  PROVE  AnswerHasKey'
  <1> SUFFICES ASSUME NEW x \in Requests, pc'[x] = "done", req'[x].op = "createJob", HasKey(x)'
               PROVE  /\ answer'[x].code = "ok" => answer'[x].row \in JobsWith(req[x].at, KeyOf(x))'
                      /\ answer'[x].code = "error" =>
                           \/ faults' > 0 \/ req'[x].ref = Unknown
                           \/ /\ req'[x].at \notin QueueIds'
                              /\ req'[x].at \in Requests /\ pc'[req'[x].at] = "done"
    BY DEF AnswerHasKey
  <1>1. \A y \in Requests : y # r => pc'[y] = pc[y] /\ req'[y] = req[y] /\ answer'[y] = answer[y]
    BY StepFrame
  <1>2. pc[r] # "done" /\ (pc[r] # "new" => req' = req) /\ faults' \in {faults, faults + 1} /\ faults \in Nat
    BY StepFrame DEF Shape
  <1>3. req'[x] = req[x] =>
          JobsWith(req[x].at, KeyOf(x)) \subseteq JobsWith(req[x].at, KeyOf(x))'
    BY JobsStay DEF JobsWith, KeyOf
  <1>4. CASE x # r
    <2>1. req'[x] = req[x] /\ pc[x] = "done" /\ HasKey(x)
      BY <1>1, <1>4 DEF HasKey
    <2>2. answer[x].code = "error" /\ faults = 0 /\ req[x].ref # Unknown =>
            /\ req[x].at \notin QueueIds /\ req[x].at \in Requests /\ pc[req[x].at] = "done"
      BY <2>1, <1>1, <1>4 DEF AnswerHasKey
    <2>3. answer[x].code = "error" /\ faults = 0 /\ req[x].ref # Unknown => req[x].at \notin QueueIds'
      BY <1>2, <2>2, QueuesGoneForGood
    <2>4. answer'[x] = answer[x]
      BY <1>1, <1>4
    <2>5. answer[x].code = "ok" => answer[x].row \in JobsWith(req[x].at, KeyOf(x))
      BY <2>1, <1>1, <1>4 DEF AnswerHasKey
    <2>6. \A y \in Requests : pc[y] = "done" => pc'[y] = "done"
      BY <1>1, <1>2
    <2> QED
      BY <1>2, <1>3, <2>1, <2>2, <2>3, <2>4, <2>5, <2>6
  <1>5. CASE x = r
    <2>1. CASE pc[r] = "new"
      BY <1>5, <2>1, StepFrame
    <2>2. CASE pc[r] # "new"
      <3>1. req' = req /\ HasKey(r) /\ req[r].op = "createJob"
        BY <1>2, <1>5, <2>2 DEF HasKey
      <3>2. pc[r] = "insert" /\ NewJob(r, 1, req[r].ref) \in jobs' =>
              NewJob(r, 1, req[r].ref) \in JobsWith(req[r].at, KeyOf(r))'
        BY <3>1, OwnKey DEF JobsWith, NewJob, KeyOf
      <3>3. pc[r] = "insert" => req[r].at \in Requests /\ pc[req[r].at] = "done"
        BY DEF Underway
      <3>4. pc[r] = "insert" => pc'[req[r].at] = "done"
        BY <1>1, <1>2, <3>3
      <3>5. queues' = queues /\ req[r].at \notin QueueIds => req[r].at \notin QueueIds'
        BY DEF QueueIds
      <3>6. req[r].ref \notin BatchIds \cup {None} => req[r].ref = Unknown
        BY <2>2, <3>1 DEF RefsNamed, Nameable
      <3> QED
        BY <1>2, <1>3, <1>5, <2>2, <3>1, <3>2, <3>3, <3>4, <3>5, <3>6, StepAnswers
    <2> QED
      BY <2>1, <2>2
  <1> QED
    BY <1>4, <1>5

LEMMA BatchStep ==
  ASSUME Shape, Underway, JobsOfBatch, NEW r \in Requests, Step(r)
  PROVE  JobsOfBatch'
  <1>1. \A y \in Requests : y # r => pc'[y] = pc[y] /\ req'[y] = req[y] /\ answer'[y] = answer[y]
    BY StepFrame
  <1>2. pc[r] # "done" /\ (pc[r] # "new" => req' = req)
    BY StepFrame
  <1>3. JobsOf(r) = {}
    BY <1>2 DEF JobsOfBatch
  <1>4. \A j \in BatchRows(r) \cup {NewJob(r, 1, req[r].ref)} : j.id = r
    BY DEF BatchRows, NewJob
  <1> SUFFICES ASSUME NEW x \in Requests
               PROVE  /\ pc'[x] # "done" => JobsOf(x)' = {}
                      /\ pc'[x] = "done" /\ req'[x].op = "createBatch" =>
                           JobsOf(x)' = IF answer'[x].code = "ok" THEN BatchRows(x)' ELSE {}
    BY DEF JobsOfBatch
  <1>5. CASE x # r
    <2>1. JobsOf(x)' = JobsOf(x)
      BY <1>4, <1>5, StepJobs DEF JobsOf
    <2>2. BatchRows(x)' = BatchRows(x)
      BY <1>1, <1>5 DEF BatchRows, NewJob
    <2> QED
      BY <1>1, <1>5, <2>1, <2>2 DEF JobsOfBatch
  <1>6. CASE x = r
    <2>1. CASE /\ jobs' = jobs
               /\ pc'[r] = "done" /\ req'[r].op = "createBatch" => answer'[r].code # "ok"
      <3>1. JobsOf(r)' = {}
        BY <1>3, <2>1 DEF JobsOf
      <3> QED
        BY <1>6, <2>1, <3>1
    <2>2. CASE pc[r] = "insert" /\ req' = req /\ pc'[r] = "done"
      BY <1>6, <2>2 DEF Underway
    <2>3. CASE /\ pc[r] = "jobs" /\ jobs' = jobs \cup BatchRows(r) /\ req' = req
               /\ pc'[r] = "done" /\ answer'[r].code = "ok"
      <3>1. JobsOf(r)' = BatchRows(r)
        BY <1>3, <1>4, <2>3 DEF JobsOf
      <3>2. BatchRows(r)' = BatchRows(r)
        BY <2>3 DEF BatchRows, NewJob
      <3> QED
        BY <1>6, <2>3, <3>1, <3>2
    <2> QED
      BY <2>1, <2>2, <2>3, StepJobs
  <1> QED
    BY <1>5, <1>6

LEMMA NamesStep ==
  ASSUME Shape, Written, NamesUnique, NEW r \in Requests, Step(r)
  PROVE  NamesUnique'
  <1>1. \A q1, q2 \in queues :
          q1.id = q2.id \/ (q1.project = q2.project /\ q1.name = q2.name) => q1 = q2
    BY DEF NamesUnique
  <1>2. CASE queues' \subseteq queues
    BY <1>1, <1>2 DEF NamesUnique
  <1>3. CASE /\ pc[r] = "write" /\ Insertable(r)
             /\ queues' = queues \cup {[id |-> r, project |-> req[r].at, name |-> req[r].name]}
    <2>1. \A q \in queues : q.id # r
      BY <1>3 DEF Written
    <2>2. \A q \in queues : ~(q.project = req[r].at /\ q.name = req[r].name)
      BY <1>3 DEF Insertable, NameTaken, Named
    <2> QED
      BY <1>1, <1>3, <2>1, <2>2 DEF NamesUnique
  <1>4. CASE Updatable(r) /\ queues' = {Renamed(q, r) : q \in queues}
    <2>1. PICK u \in queues : u.id = req[r].at /\ Named(u.project, req[r].name) \subseteq {u.id}
      BY <1>4 DEF Updatable
    <2>2. \A q \in queues : q.project = u.project /\ q.name = req[r].name => q = u
      BY <1>1, <2>1 DEF Named
    <2>3. \A q \in queues :
            /\ Renamed(q, r).id = q.id /\ Renamed(q, r).project = q.project
            /\ Renamed(q, r).name = IF q = u /\ req[r].name # None THEN req[r].name ELSE q.name
      BY <1>1, <2>1, RenamedKeeps
    <2>4. \A q1, q2 \in queues :
            Renamed(q1, r).id = Renamed(q2, r).id
              \/ (Renamed(q1, r).project = Renamed(q2, r).project /\ Renamed(q1, r).name = Renamed(q2, r).name)
            => q1 = q2
      BY <1>1, <2>2, <2>3
    <2> HIDE DEF Renamed
    <2> QED
      BY <1>4, <2>4 DEF NamesUnique
  <1> QED
    BY <1>2, <1>3, <1>4, StepQueues

-----------------------------------------------------------------------------
(* Types: of the rows, ...                                                 *)
LEMMA ProjectsType ==
  ASSUME TypeOK, Written, NEW r \in Requests, Step(r)
  PROVE  /\ projects' \subseteq OldProjects \cup Requests /\ members' \subseteq projects'
         /\ \A q \in queues' : q.id \in Requests /\ q.project \in projects'
  <1> USE DEF Goes, Answer, rows
  <1>0. /\ projects \subseteq OldProjects \cup Requests /\ members \subseteq projects
        /\ \A q \in queues : q.id \in Requests /\ q.project \in projects
    BY DEF TypeOK
  <1>1. CASE Arrive(r) \/ Check(r) \/ CutShort(r)
    BY <1>0, <1>1 DEF Arrive, Check, CutShort
  <1>2. CASE CreateProject(r) \/ UpdateProject(r) \/ RemoveProject(r)
    BY <1>0, <1>2 DEF CreateProject, UpdateProject, RemoveProject, Restrained
  <1>3. CASE CheckName(r) \/ RemoveQueue(r)
    BY <1>0, <1>3 DEF CheckName, RemoveQueue
  <1>7. CASE UpdateQueue(r)
    <2>1. UNCHANGED <<projects, members>> /\ (queues' = queues \/ queues' = {Renamed(q, r) : q \in queues})
      BY <1>7 DEF UpdateQueue
    <2> QED
      BY <1>0, <2>1, RenamedKeeps
  <1>4. CASE CreateQueue(r)
    <2>1. queues' = queues \/ (req[r].at \in projects /\ queues' =
            queues \cup {[id |-> r, project |-> req[r].at, name |-> req[r].name]})
      BY <1>4 DEF CreateQueue, Insertable
    <2>2. UNCHANGED <<projects, members>>
      BY <1>4 DEF CreateQueue
    <2> QED
      BY <1>0, <2>1, <2>2
  <1>5. CASE FindKey(r) \/ InsertJob(r) \/ Refetch(r)
    BY <1>0, <1>5 DEF FindKey, InsertJob, Refetch
  <1>6. CASE InsertBatch(r) \/ InsertJobs(r) \/ CreateScheduledJob(r)
    BY <1>0, <1>6 DEF InsertBatch, InsertJobs, CreateScheduledJob
  <1> QED
    BY <1>1, <1>2, <1>3, <1>4, <1>5, <1>6, <1>7 DEF Step

LEMMA JobsType ==
  ASSUME TypeOK, Underway, Written, NEW r \in Requests, Step(r)
  PROVE  /\ \A j \in jobs' : j.id \in Requests /\ j.queue \in QueueIds' /\ j.batch \in BatchIds' \cup {None}
         /\ batches' \subseteq [id : Requests, total : Nat]
  <1> Shape
    BY TypeShape
  <1>0. BatchIds \subseteq BatchIds'
    BY StepBatches DEF BatchIds
  <1>1. \A j \in jobs : j.id \in Requests /\ j.queue \in QueueIds /\ j.batch \in BatchIds \cup {None}
    BY DEF TypeOK
  <1>2. \A j \in jobs' :
          j.id \in Requests /\ j.batch \in BatchIds' \cup {None} /\ (j \in jobs \/ j.queue \in QueueIds)
    <2>1. CASE jobs' = jobs
      BY <1>0, <1>1, <2>1
    <2>2. CASE References(r) /\ jobs' = jobs \cup {NewJob(r, 1, req[r].ref)}
      BY <1>0, <1>1, <2>2 DEF References, NewJob
    <2>3. CASE pc[r] = "jobs" /\ req[r].at \in QueueIds /\ jobs' = jobs \cup BatchRows(r)
      <3>1. \A j \in BatchRows(r) : j.id = r /\ j.batch = r /\ j.queue = req[r].at
        BY DEF BatchRows, NewJob
      <3> QED
        BY <1>0, <1>1, <2>3, <3>1 DEF Underway
    <2> QED
      BY <2>1, <2>2, <2>3, StepJobs
  <1>3. \A j \in jobs : j.queue \in QueueIds'
    BY <1>1, StepQueues, RenamedIds DEF QueueIds, InUse
  <1>4. jobs' # jobs => QueueIds' = QueueIds
    BY StepJobs DEF QueueIds
  <1>5. pc[r] = "batch" => Len(req[r].keys) \in Nat
    <2> SUFFICES ASSUME pc[r] = "batch" PROVE Len(req[r].keys) \in Nat
      OBVIOUS
    <2>1. req[r] \in Menu[r]
      BY DEF Underway
    <2>2. req[r].keys \in Seq({req[r].keys[n] : n \in DOMAIN req[r].keys})
      BY <2>1, SubmissionAssumption
    <2> QED
      BY <2>2
  <1>6. batches \subseteq [id : Requests, total : Nat]
    BY DEF TypeOK
  <1>7. batches' \subseteq [id : Requests, total : Nat]
    BY <1>5, <1>6, StepBatches
  <1> QED
    BY <1>1, <1>2, <1>3, <1>4, <1>7

LEMMA SchedulesType ==
  ASSUME TypeOK, Written, NEW r \in Requests, Step(r)
  PROVE  schedules' \subseteq [id : Requests, queue : QueueIds']
  <1> Shape
    BY TypeShape
  <1> USE DEF Goes, Answer, rows
  <1>0. schedules \subseteq [id : Requests, queue : QueueIds]
    BY DEF TypeOK
  <1>1. schedules' = schedules
          \/ /\ schedules' = schedules \cup {[id |-> r, queue |-> req[r].at]}
             /\ req[r].at \in QueueIds /\ queues' = queues
    <2>1. CASE Arrive(r) \/ Check(r) \/ CutShort(r)
      BY <2>1 DEF Arrive, Check, CutShort
    <2>2. CASE CreateProject(r) \/ UpdateProject(r) \/ RemoveProject(r)
      BY <2>2 DEF CreateProject, UpdateProject, RemoveProject
    <2>3. CASE CheckName(r) \/ CreateQueue(r) \/ UpdateQueue(r) \/ RemoveQueue(r)
      BY <2>3 DEF CheckName, CreateQueue, UpdateQueue, RemoveQueue
    <2>4. CASE FindKey(r) \/ InsertJob(r) \/ Refetch(r)
      BY <2>4 DEF FindKey, InsertJob, Refetch
    <2>5. CASE InsertBatch(r) \/ InsertJobs(r) \/ CreateScheduledJob(r)
      BY <2>5 DEF InsertBatch, InsertJobs, CreateScheduledJob
    <2> QED
      BY <2>1, <2>2, <2>3, <2>4, <2>5 DEF Step
  <1>2. \A s \in schedules : s.queue \in QueueIds'
    BY <1>0, StepQueues, RenamedIds DEF QueueIds, InUse
  <1>3. queues' = queues => QueueIds' = QueueIds
    BY DEF QueueIds
  <1>4. \A s \in schedules : s \in [id : Requests, queue : QueueIds']
    BY <1>0, <1>2
  <1> QED
    BY <1>1, <1>3, <1>4

(* ... and of what the handlers keep.                                      *)
Places  == {"new", "check", "name", "write", "find", "insert", "refetch", "batch", "jobs", "done"}
Codes   == {"none", "ok", "invalid", "not found", "conflict", "error"}
Answers == [code : Codes, row : Requests \cup jobs \cup {None}]

LEMMA HandlerShape ==
  ASSUME Shape, NEW r \in Requests, Step(r)
  PROVE  /\ req' = [x \in Requests |-> req'[x]] /\ pc' = [x \in Requests |-> pc'[x]]
         /\ answer' = [x \in Requests |-> answer'[x]]
  <1> USE DEF Shape, Goes, Answer, rows
  <1>1. CASE Arrive(r)
    BY <1>1 DEF Arrive
  <1>2. CASE Check(r)
    <2>1. req' = [x \in Requests |-> req'[x]]
      BY <1>2 DEF Check
    <2> QED
      BY <1>2, <2>1, CheckPlaces
  <1>3. CASE CreateProject(r) \/ UpdateProject(r) \/ RemoveProject(r)
    BY <1>3 DEF CreateProject, UpdateProject, RemoveProject
  <1>4. CASE CheckName(r) \/ CreateQueue(r) \/ UpdateQueue(r) \/ RemoveQueue(r)
    BY <1>4 DEF CheckName, CreateQueue, UpdateQueue, RemoveQueue
  <1>5. CASE FindKey(r) \/ Refetch(r)
    BY <1>5 DEF FindKey, Refetch, JobsWith
  <1>6. CASE InsertJob(r)
    BY <1>6 DEF InsertJob, Duplicate
  <1>7. CASE InsertBatch(r) \/ InsertJobs(r) \/ CreateScheduledJob(r)
    BY <1>7 DEF InsertBatch, InsertJobs, CreateScheduledJob
  <1>8. CASE CutShort(r)
    BY <1>8 DEF CutShort
  <1> QED
    BY <1>1, <1>2, <1>3, <1>4, <1>5, <1>6, <1>7, <1>8 DEF Step

LEMMA PlaceType ==
  ASSUME Shape, NEW r \in Requests, Step(r)
  PROVE  pc'[r] \in Places
  <1> USE DEF Shape, Goes, Answer, rows, Places
  <1>1. CASE Arrive(r)
    BY <1>1 DEF Arrive
  <1>2. CASE Check(r)
    BY <1>2, CheckPlaces, AfterCheckPlaces
  <1>3. CASE CreateProject(r) \/ UpdateProject(r) \/ RemoveProject(r)
    BY <1>3 DEF CreateProject, UpdateProject, RemoveProject
  <1>4. CASE CheckName(r) \/ CreateQueue(r) \/ UpdateQueue(r) \/ RemoveQueue(r)
    BY <1>4 DEF CheckName, CreateQueue, UpdateQueue, RemoveQueue
  <1>5. CASE FindKey(r) \/ Refetch(r)
    BY <1>5 DEF FindKey, Refetch, JobsWith
  <1>6. CASE InsertJob(r)
    BY <1>6 DEF InsertJob, Duplicate
  <1>7. CASE InsertBatch(r) \/ InsertJobs(r) \/ CreateScheduledJob(r)
    BY <1>7 DEF InsertBatch, InsertJobs, CreateScheduledJob
  <1>8. CASE CutShort(r)
    BY <1>8 DEF CutShort
  <1> QED
    BY <1>1, <1>2, <1>3, <1>4, <1>5, <1>6, <1>7, <1>8 DEF Step

LEMMA AnswerGiven ==
  ASSUME Shape, NEW r \in Requests, Step(r)
  PROVE  \/ answer'[r] = answer[r]
         \/ answer'[r] = [code |-> "invalid", row |-> None]
         \/ answer'[r] = [code |-> "not found", row |-> None]
         \/ answer'[r] = [code |-> "conflict", row |-> None]
         \/ answer'[r] = [code |-> "error", row |-> None]
         \/ answer'[r] = [code |-> "ok", row |-> None]
         \/ answer'[r] = [code |-> "ok", row |-> r]
         \/ \E j \in jobs' : answer'[r] = [code |-> "ok", row |-> j]
  <1> USE DEF Shape, Goes, Answer, rows
  <1>1. CASE Arrive(r)
    BY <1>1 DEF Arrive
  <1>2. CASE Check(r)
    BY <1>2, CheckPlaces
  <1>3. CASE CreateProject(r) \/ UpdateProject(r) \/ RemoveProject(r)
    BY <1>3 DEF CreateProject, UpdateProject, RemoveProject
  <1>4. CASE CheckName(r) \/ CreateQueue(r) \/ UpdateQueue(r) \/ RemoveQueue(r)
    BY <1>4 DEF CheckName, CreateQueue, UpdateQueue, RemoveQueue
  <1>5. CASE FindKey(r) \/ Refetch(r)
    BY <1>5 DEF FindKey, Refetch, JobsWith
  <1>6. CASE InsertJob(r)
    BY <1>6 DEF InsertJob, Duplicate
  <1>7. CASE InsertBatch(r) \/ InsertJobs(r) \/ CreateScheduledJob(r)
    BY <1>7 DEF InsertBatch, InsertJobs, CreateScheduledJob
  <1>8. CASE CutShort(r)
    BY <1>8 DEF CutShort
  <1> QED
    BY <1>1, <1>2, <1>3, <1>4, <1>5, <1>6, <1>7, <1>8 DEF Step

LEMMA AnswerType ==
  ASSUME Shape, NEW r \in Requests, Step(r)
  PROVE  answer'[r] = answer[r] \/ answer'[r] \in Answers'
  <1>1. \A x \in Requests \cup jobs' \cup {None}, c \in Codes : [code |-> c, row |-> x] \in Answers'
    BY DEF Answers
  <1> QED
    BY <1>1, AnswerGiven DEF Codes

LEMMA FaultsType ==
  ASSUME TypeOK, NEW r \in Requests, Step(r)
  PROVE  faults' \in 0 .. MaxFaults
  <1>0. faults \in 0 .. MaxFaults
    BY DEF TypeOK
  <1>1. CASE CutShort(r)
    BY <1>0, <1>1, SubmissionAssumption DEF CutShort
  <1>2. CASE ~CutShort(r)
    BY <1>0, <1>2
    DEF Step, Arrive, Check, CreateProject, UpdateProject, RemoveProject, CheckName, CreateQueue,
        UpdateQueue, RemoveQueue, FindKey, InsertJob, Refetch, InsertBatch, InsertJobs,
        CreateScheduledJob
  <1> QED
    BY <1>1, <1>2

LEMMA TypeStep ==
  ASSUME TypeOK, Underway, Written, NEW r \in Requests, Step(r)
  PROVE  TypeOK'
  <1> Shape
    BY TypeShape
  <1>1. \A x \in Requests : req'[x] \in Menu[x] \cup {None}
    BY StepFrame DEF TypeOK
  <1>2. pc' \in [Requests -> Places]
    <2>1. pc \in [Requests -> Places]
      BY DEF TypeOK, Places
    <2>2. \A x \in Requests : pc'[x] \in Places
      BY <2>1, StepFrame, PlaceType
    <2> QED
      BY <2>2, HandlerShape
  <1>3. answer \in [Requests -> Answers]
    BY DEF TypeOK, Answers, Codes
  <1>4. Answers \subseteq Answers'
    BY JobsStay DEF Answers
  <1>5. answer' \in [Requests -> Answers']
    <2> HIDE DEF Answers
    <2>1. \A x \in Requests : answer'[x] \in Answers'
      BY <1>3, <1>4, StepFrame, AnswerType
    <2> QED
      BY <2>1, HandlerShape
  <1>6. /\ projects' \subseteq OldProjects \cup Requests /\ members' \subseteq projects'
        /\ \A q \in queues' : q.id \in Requests /\ q.project \in projects'
        /\ schedules' \subseteq [id : Requests, queue : QueueIds']
        /\ req' = [x \in Requests |-> req'[x]] /\ faults' \in 0 .. MaxFaults
    BY ProjectsType, SchedulesType, HandlerShape, FaultsType
  <1> QED
    BY <1>1, <1>2, <1>5, <1>6, JobsType DEF TypeOK, Places, Answers, Codes

-----------------------------------------------------------------------------
LEMMA NextInv == Inv /\ [Next]_vars => Inv'
  <1> SUFFICES ASSUME Inv, [Next]_vars PROVE Inv'
    OBVIOUS
  <1>0. TypeOK /\ Shape /\ Underway /\ Written /\ RefsNamed /\ KeysUnique /\ AnswerHasKey /\ JobsOfBatch /\ NamesUnique
    BY TypeShape DEF Inv
  <1>1. ASSUME NEW r \in Requests, Step(r) PROVE Inv'
    BY <1>0, <1>1, TypeStep, UnderwayStep, WrittenStep, RefsStep, KeysStep, AnswerStep, BatchStep,
       NamesStep DEF Inv
  <1>2. CASE UNCHANGED vars
    <2> USE <1>0, <1>2 DEF vars, rows
    <2>1. TypeOK' /\ Written' /\ RefsNamed'
      BY DEF TypeOK, Written, RefsNamed, Nameable, QueueIds, BatchIds
    <2>2. Underway'
      BY DEF Underway, HasKey, JobsWith, KeyOf, BatchIds
    <2>3. KeysUnique' /\ NamesUnique'
      BY DEF KeysUnique, NamesUnique
    <2>4. AnswerHasKey'
      BY DEF AnswerHasKey, HasKey, JobsWith, KeyOf, QueueIds
    <2>5. JobsOfBatch'
      BY DEF JobsOfBatch, JobsOf, BatchRows, NewJob
    <2> QED
      BY <2>1, <2>2, <2>3, <2>4, <2>5 DEF Inv
  <1> QED
    BY <1>1, <1>2 DEF Next

(* The handlers' knowledge and the rows agree, in every reachable state.   *)
THEOREM Invariance == Spec => []Inv
  BY InitInv, NextInv, PTL DEF Spec

THEOREM TypeCorrect == Spec => []TypeOK
  <1>1. Inv => TypeOK
    BY DEF Inv
  <1> QED
    BY <1>1, Invariance, PTL

(* "A duplicate submission returns the original job": all requests for one *)
(* idempotency key that are answered got the same job, in whatever order   *)
(* any number of them checks, inserts, collides and reads again.           *)
THEOREM SubmittedOnce == Spec => []KeyedOnce
  <1>1. Inv => KeyedOnce
    <2> SUFFICES ASSUME Inv, NEW r1 \in Requests, NEW r2 \in Requests,
                        Done(r1, "createJob", "ok"), Done(r2, "createJob", "ok"),
                        req[r1].at = req[r2].at, KeyOf(r1) = KeyOf(r2), HasKey(r1)
                 PROVE  answer[r1].row = answer[r2].row
      BY DEF KeyedOnce
    <2>1. HasKey(r2) /\ KeyOf(r1) # NoKey
      BY DEF HasKey, KeyOf
    <2>2. /\ answer[r1].row \in JobsWith(req[r1].at, KeyOf(r1))
          /\ answer[r2].row \in JobsWith(req[r1].at, KeyOf(r1))
      BY <2>1 DEF Inv, AnswerHasKey, Done
    <2> QED
      BY <2>1, <2>2 DEF Inv, KeysUnique, JobsWith
  <1> QED
    BY <1>1, Invariance, PTL

(* The race for a key never costs a request an error: unless a statement   *)
(* fails, it fails only when its queue was removed or it named a batch that*)
(* is not there.                                                           *)
THEOREM RaceCostsNothing == Spec => []KeyedAnswered
  <1>1. Inv => KeyedAnswered
    <2>1. Inv => Unknown \notin BatchIds \cup {None}
      BY SubmissionAssumption DEF Inv, Written, BatchIds
    <2> QED
      BY <2>1 DEF Inv, AnswerHasKey, KeyedAnswered, Done
  <1> QED
    BY <1>1, Invariance, PTL

(* A batch of any size has all the jobs it was created with once it is     *)
(* answered, or none of them, whatever jobs have joined it by its id.      *)
THEOREM BatchesWhole == Spec => []BatchWhole
  <1>1. Inv => BatchWhole
    <2> SUFFICES ASSUME Inv, NEW b \in batches, pc[b.id] = "done"
                 PROVE  /\ Cardinality(JobsOf(b.id)) = IF answer[b.id].code = "ok" THEN b.total ELSE 0
                        /\ \A j \in JobsOf(b.id) : j.batch = b.id
      BY DEF BatchWhole, JobsOf
    <2> DEFINE r == b.id
               k == req[r].keys
    <2>1. r \in Requests /\ req[r].op = "createBatch" /\ b.total = Len(k) /\ req[r] \in Menu[r]
      BY DEF Inv, Written, Underway
    <2>2. JobsOf(r) = IF answer[r].code = "ok" THEN BatchRows(r) ELSE {}
      BY <2>1 DEF Inv, JobsOfBatch
    <2>3. k \in Seq({k[n] : n \in DOMAIN k})
      BY <2>1, SubmissionAssumption
    <2>4. Len(k) \in Nat /\ DOMAIN k = 1 .. Len(k)
      BY <2>3
    <2> HIDE DEF k
    <2>5. Cardinality(BatchRows(r)) = Len(k)
      <3> DEFINE f == [n \in 1 .. Len(k) |-> NewJob(r, n, r)]
      <3>1. BatchRows(r) = {NewJob(r, n, r) : n \in 1 .. Len(k)}
        BY <2>4 DEF BatchRows, k
      <3>2. \A n, m \in 1 .. Len(k) : f[n] = f[m] => n = m
        BY DEF NewJob
      <3>3. f \in Bijection(1 .. Len(k), BatchRows(r))
        <4>1. f \in [1 .. Len(k) -> BatchRows(r)]
          BY <3>1
        <4>2. \A j \in BatchRows(r) : \E n \in 1 .. Len(k) : f[n] = j
          BY <3>1
        <4> HIDE DEF f
        <4> QED
          BY <3>2, <4>1, <4>2 DEF Bijection, Injection, Surjection, IsInjective
      <3>4. IsFiniteSet(1 .. Len(k)) /\ Cardinality(1 .. Len(k)) = Len(k)
        <4>1. 1 \in Int /\ Len(k) \in Int
          BY <2>4
        <4>2. Cardinality(1 .. Len(k)) = IF 1 > Len(k) THEN 0 ELSE Len(k) - 1 + 1
          BY <4>1, FS_Interval
        <4>3. IsFiniteSet(1 .. Len(k))
          BY <4>1, FS_Interval
        <4> QED
          BY <2>4, <4>2, <4>3
      <3> QED
        BY <3>3, <3>4, FS_Bijection DEF ExistsBijection
    <2>6. Cardinality({}) = 0
      BY FS_EmptySet
    <2>7. \A j \in BatchRows(r) : j.batch = r
      BY DEF BatchRows, NewJob
    <2> QED
      BY <2>1, <2>2, <2>5, <2>6, <2>7 DEF k
  <1> QED
    BY <1>1, Invariance, PTL

(* However many users create, rename, fill and remove at once, a project   *)
(* has one queue of a name, no job or schedule is left outside a queue, nor*)
(* a queue outside a project, and no job names a batch that is not there.  *)
THEOREM TreeStaysIntact == Spec => []TreeIntact
  <1>1. Inv => TreeIntact
    <2> SUFFICES ASSUME Inv PROVE TreeIntact
      OBVIOUS
    <2>1. \A q1, q2 \in queues : q1.project = q2.project /\ q1.name = q2.name => q1 = q2
      BY DEF Inv, NamesUnique
    <2>2. \A q \in queues : q.project \in projects
      BY DEF Inv, TypeOK
    <2>3. {j.queue : j \in jobs} \subseteq QueueIds
      BY DEF Inv, TypeOK
    <2>4. {s.queue : s \in schedules} \subseteq QueueIds
      BY DEF Inv, TypeOK
    <2>5. {j.batch : j \in jobs} \subseteq BatchIds \cup {None}
      BY DEF Inv, TypeOK
    <2> QED
      BY <2>1, <2>2, <2>3, <2>4, <2>5 DEF TreeIntact
  <1> QED
    BY <1>1, Invariance, PTL
=============================================================================
