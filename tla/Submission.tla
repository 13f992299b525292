----------------------------- MODULE Submission -----------------------------
(***************************************************************************)
(* What the REST API writes for its users: projects, queues, jobs, batches *)
(* and scheduled jobs (projects.service.ts, queues.service.ts,             *)
(* jobs.service.ts), with the keys and foreign keys of schema.prisma that  *)
(* the handlers rely on.                                                   *)
(*                                                                         *)
(* Every request is a handler of its own; one action is one statement or   *)
(* transaction it sends to PostgreSQL, and requests interleave in between. *)
(* A row gets the name of the request that creates it.  All users belong   *)
(* to one organization.  Payloads, names of no consequence and times are   *)
(* left out.                                                               *)
(***************************************************************************)
EXTENDS Naturals, Sequences, FiniteSets

CONSTANTS
  Requests,       \* requests that reach the API
  Menu,           \* what each request may ask: [op, at, name, ref, keys, cron]
  OldProjects,    \* projects that exist with no member, written by no handler
  NoKey,          \* idempotency_key is left out
  EmptyKey,       \* idempotency_key is ""
  Malformed,      \* in place of its key: a job that is not as CreateJobDto says
  None,           \* no row, no name
  Unknown,        \* an id that no row has
  MaxFaults       \* bound: requests cut short by a failed statement or a crash

ProjectOps == {"createProject", "updateProject", "removeProject"}
QueueOps   == {"createQueue", "updateQueue", "removeQueue"}   \* pause and resume are updates
JobOps     == {"createJob", "createBatch", "createScheduledJob"}
Crons      == {"none", "good", "bad", "bad zone"}

(* A job has one key; a batch has one for each of its jobs.  ref is another*)
(* row that the body names: the batch a job is to join, the retry policy of*)
(* a queue (rows that no handler writes).                                  *)
ASSUME SubmissionAssumption ==
  /\ \A r \in Requests : \A m \in Menu[r] :
       /\ m.op \in ProjectOps \cup QueueOps \cup JobOps /\ m.cron \in Crons
       /\ m.keys \in Seq({m.keys[n] : n \in DOMAIN m.keys})
       /\ m.op = "createJob" => Len(m.keys) = 1
       /\ m.op = "createQueue" => m.name # None
  /\ Cardinality({NoKey, EmptyKey, Malformed}) = 3 /\ MaxFaults \in Nat
  /\ {None, Unknown} \cap Requests = {} /\ None # Unknown

VARIABLES
  projects,       \* rows of projects
  members,        \* projects that have a row in project_members
  queues,         \* [id, project, name]
  jobs,           \* [id, n, queue, key, batch]: the n-th row that request id creates
  batches,        \* [id, total]
  schedules,      \* [id, queue]
  req,            \* what each request asks
  pc,             \* the statement each handler is about to send
  answer,         \* [code, row] for each request; row is the job, if any
  faults

rows == <<projects, members, queues, jobs, batches, schedules>>
vars == <<rows, req, pc, answer, faults>>

Nothing == [code |-> "none", row |-> None]

Init ==
  /\ projects = OldProjects
  /\ members = {} /\ queues = {} /\ jobs = {} /\ batches = {} /\ schedules = {}
  /\ req = [r \in Requests |-> None]
  /\ pc = [r \in Requests |-> "new"]
  /\ answer = [r \in Requests |-> Nothing]
  /\ faults = 0

-----------------------------------------------------------------------------
Goes(r, s) == pc' = [pc EXCEPT ![r] = s] /\ UNCHANGED answer
Answer(r, code, row) ==
  /\ pc' = [pc EXCEPT ![r] = "done"]
  /\ answer' = [answer EXCEPT ![r] = [code |-> code, row |-> row]]

QueueIds == {q.id : q \in queues}
BatchIds == {b.id : b \in batches}
JobsWith(q, k) == {j \in jobs : j.queue = q /\ j.key = k}

(* @@unique([queue_id, idempotency_key]): NULLs do not collide.            *)
SlipTaken(q, k) == FALSE
Taken(q, k)     == k # NoKey /\ JobsWith(q, k) # {}

(* if (dto.idempotency_key): the empty string is no key.                   *)
HasKey(r) == Head(req[r].keys) \notin {NoKey, EmptyKey}
KeyOf(r)  == Head(req[r].keys)

(* IsCronExpression leaves the time zone out.                              *)
ValidJobs(m) == \A n \in DOMAIN m.keys : m.keys[n] # Malformed
ValidCron(m) == m.cron # "bad"

(* Ids are random: no body names a batch before it is there.               *)
Nameable(m) == m.op = "createJob" => m.ref \in {None, Unknown} \cup BatchIds

(* The body reaches the handler when the validation pipes let it: a batch  *)
(* is refused for one bad job before any row is written.                   *)
Arrive(r) ==
  /\ pc[r] = "new"
  /\ \E m \in Menu[r] :
       /\ Nameable(m)
       /\ req' = [req EXCEPT ![r] = m]
       /\ IF ~ValidJobs(m) \/ ~ValidCron(m)
            THEN Answer(r, "invalid", None)
            ELSE Goes(r, IF m.op = "createProject" THEN "write" ELSE "check")
  /\ UNCHANGED <<rows, faults>>

(* findFirst of the project or the queue the request names.                *)
Found(r) ==
  IF req[r].op \in {"updateProject", "removeProject", "createQueue"}
    THEN req[r].at \in projects ELSE req[r].at \in QueueIds

AfterCheck(r) ==
  CASE req[r].op = "createQueue" -> "name"
    [] req[r].op = "createJob"   -> IF HasKey(r) THEN "find" ELSE "insert"
    [] req[r].op = "createBatch" -> "batch"
    [] OTHER                     -> "write"

Check(r) ==
  /\ pc[r] = "check"
  /\ IF Found(r) THEN Goes(r, AfterCheck(r)) ELSE Answer(r, "not found", None)
  /\ UNCHANGED <<rows, req, faults>>

-----------------------------------------------------------------------------
(* Projects.  create writes the project and its owner in one statement.    *)

CreateProject(r) ==
  /\ pc[r] = "write" /\ req[r].op = "createProject"
  /\ projects' = projects \cup {r} /\ members' = members \cup {r}
  /\ Answer(r, "ok", r)
  /\ UNCHANGED <<queues, jobs, batches, schedules, req, faults>>

UpdateProject(r) ==
  /\ pc[r] = "write" /\ req[r].op = "updateProject"
  /\ Answer(r, IF req[r].at \in projects THEN "ok" ELSE "error", None)
  /\ UNCHANGED <<rows, req, faults>>

(* project_members and queues refer to the project: ON DELETE RESTRICT.    *)
Restrained(p) == p \in members \/ \E q \in queues : q.project = p

RemoveProject(r) ==
  LET p == req[r].at IN
  /\ pc[r] = "write" /\ req[r].op = "removeProject"
  /\ IF p \in projects /\ ~Restrained(p)
       THEN projects' = projects \ {p} /\ Answer(r, "ok", None)
       ELSE UNCHANGED projects /\ Answer(r, "error", None)
  /\ UNCHANGED <<members, queues, jobs, batches, schedules, req, faults>>

-----------------------------------------------------------------------------
(* Queues.                                                                 *)

Named(p, name) == {q.id : q \in {x \in queues : x.project = p /\ x.name = name}}
NameTaken(r)   == Named(req[r].at, req[r].name) # {}

CheckName(r) ==
  /\ pc[r] = "name"
  /\ IF NameTaken(r) THEN Answer(r, "conflict", None) ELSE Goes(r, "write")
  /\ UNCHANGED <<rows, req, faults>>

(* @@unique([project_id, name]) and the foreign keys.                      *)
SlipInsertable(r) == req[r].at \in projects /\ req[r].ref # Unknown
Insertable(r)     == req[r].at \in projects /\ req[r].ref # Unknown /\ ~NameTaken(r)

CreateQueue(r) ==
  /\ pc[r] = "write" /\ req[r].op = "createQueue"
  /\ IF Insertable(r)
       THEN /\ queues' = queues \cup {[id |-> r, project |-> req[r].at, name |-> req[r].name]}
            /\ Answer(r, "ok", r)
       ELSE UNCHANGED queues /\ Answer(r, "error", None)
  /\ UNCHANGED <<projects, members, jobs, batches, schedules, req, faults>>

(* update writes what the body has, a name included, with no check before; *)
(* pause and resume write no name.  The row may be gone by now, and the    *)
(* name taken.                                                             *)
Renamed(q, r) == IF q.id = req[r].at /\ req[r].name # None THEN [q EXCEPT !.name = req[r].name] ELSE q
Updatable(r) ==
  /\ req[r].ref # Unknown
  /\ \E q \in queues : q.id = req[r].at /\ Named(q.project, req[r].name) \subseteq {q.id}

UpdateQueue(r) ==
  /\ pc[r] = "write" /\ req[r].op = "updateQueue"
  /\ IF Updatable(r)
       THEN queues' = {Renamed(q, r) : q \in queues} /\ Answer(r, "ok", None)
       ELSE UNCHANGED queues /\ Answer(r, "error", None)
  /\ UNCHANGED <<projects, members, jobs, batches, schedules, req, faults>>

SlipInUse(q) == FALSE                                  \* onDelete: Cascade
InUse(q)     == (\E j \in jobs : j.queue = q) \/ \E s \in schedules : s.queue = q

RemoveQueue(r) ==
  LET q == req[r].at IN
  /\ pc[r] = "write" /\ req[r].op = "removeQueue"
  /\ IF q \in QueueIds /\ ~InUse(q)
       THEN queues' = {x \in queues : x.id # q} /\ Answer(r, "ok", None)
       ELSE UNCHANGED queues /\ Answer(r, "error", None)
  /\ UNCHANGED <<projects, members, jobs, batches, schedules, req, faults>>

-----------------------------------------------------------------------------
(* Jobs.                                                                   *)

NewJob(r, n, b) == [id |-> r, n |-> n, queue |-> req[r].at, key |-> req[r].keys[n], batch |-> b]

FindKey(r) ==
  /\ pc[r] = "find"
  /\ IF JobsWith(req[r].at, KeyOf(r)) = {}
       THEN Goes(r, "insert")
       ELSE \E j \in JobsWith(req[r].at, KeyOf(r)) : Answer(r, "ok", j)
  /\ UNCHANGED <<rows, req, faults>>

SlipDuplicate(r) == Answer(r, "error", None)           \* P2002 is thrown on
Duplicate(r)     == IF HasKey(r) THEN Goes(r, "refetch") ELSE Answer(r, "error", None)

(* The unique index is looked at first, the foreign keys at the end of the *)
(* statement.  Any batch will do, of whatever queue and however old; the   *)
(* row of the batch is not written.                                        *)
References(r) == req[r].at \in QueueIds /\ req[r].ref \in BatchIds \cup {None}

InsertJob(r) ==
  LET job == NewJob(r, 1, req[r].ref)  taken == Taken(req[r].at, KeyOf(r)) IN
  /\ pc[r] = "insert"
  /\ CASE taken                   -> UNCHANGED jobs /\ Duplicate(r)
       [] ~taken /\ ~References(r) -> UNCHANGED jobs /\ Answer(r, "error", None)
       [] OTHER                   -> jobs' = jobs \cup {job} /\ Answer(r, "ok", job)
  /\ UNCHANGED <<projects, members, queues, batches, schedules, req, faults>>

(* Somebody else inserted the key since FindKey: their job is the answer.  *)
Refetch(r) ==
  /\ pc[r] = "refetch"
  /\ \E j \in JobsWith(req[r].at, KeyOf(r)) : Answer(r, "ok", j)
  /\ UNCHANGED <<rows, req, faults>>

(* createBatch writes the batch in a statement of its own, ...             *)
InsertBatch(r) ==
  /\ pc[r] = "batch"
  /\ batches' = batches \cup {[id |-> r, total |-> Len(req[r].keys)]}
  /\ Goes(r, "jobs")
  /\ UNCHANGED <<projects, members, queues, jobs, schedules, req, faults>>

(* ... and its jobs, whatever batch_id they name, in one transaction, which*)
(* a key that is taken, in the queue or within the batch, or a queue that  *)
(* is gone rolls back.                                                     *)
Collides(r) ==
  LET k == req[r].keys IN
  \/ \E n \in DOMAIN k : Taken(req[r].at, k[n])
  \/ \E n, m \in DOMAIN k : n # m /\ k[n] = k[m] /\ k[n] # NoKey

BatchRows(r) == {NewJob(r, n, r) : n \in DOMAIN req[r].keys}

SlipRolledBack(r) == {j \in BatchRows(r) : ~Taken(req[r].at, j.key)}   \* no transaction
RolledBack(r)     == {}

InsertJobs(r) ==
  /\ pc[r] = "jobs"
  /\ IF req[r].at \in QueueIds /\ ~Collides(r)
       THEN jobs' = jobs \cup BatchRows(r) /\ Answer(r, "ok", None)
       ELSE jobs' = jobs \cup RolledBack(r) /\ Answer(r, "error", None)
  /\ UNCHANGED <<projects, members, queues, batches, schedules, req, faults>>

CreateScheduledJob(r) ==
  /\ pc[r] = "write" /\ req[r].op = "createScheduledJob"
  /\ IF req[r].at \in QueueIds /\ req[r].cron = "good"
       THEN schedules' = schedules \cup {[id |-> r, queue |-> req[r].at]} /\ Answer(r, "ok", None)
       ELSE UNCHANGED schedules /\ Answer(r, IF req[r].cron = "good" THEN "error" ELSE "invalid", None)
  /\ UNCHANGED <<projects, members, queues, jobs, batches, req, faults>>

(* A statement fails, or the process that serves the request stops.        *)
CutShort(r) ==
  /\ pc[r] \notin {"new", "done"} /\ faults < MaxFaults
  /\ faults' = faults + 1
  /\ Answer(r, "error", None)
  /\ UNCHANGED <<rows, req>>

Step(r) ==
  \/ Arrive(r) \/ Check(r)
  \/ CreateProject(r) \/ UpdateProject(r) \/ RemoveProject(r)
  \/ CheckName(r) \/ CreateQueue(r) \/ UpdateQueue(r) \/ RemoveQueue(r)
  \/ FindKey(r) \/ InsertJob(r) \/ Refetch(r)
  \/ InsertBatch(r) \/ InsertJobs(r) \/ CreateScheduledJob(r)
  \/ CutShort(r)

Next == \E r \in Requests : Step(r)

Spec == Init /\ [][Next]_vars

-----------------------------------------------------------------------------
(* Correctness.                                                            *)

(* Every variable has its type.                                            *)
TypeOK ==
  /\ projects \subseteq OldProjects \cup Requests /\ members \subseteq projects
  /\ \A q \in queues : q.id \in Requests /\ q.project \in projects
  /\ \A j \in jobs : j.id \in Requests /\ j.queue \in QueueIds /\ j.batch \in BatchIds \cup {None}
  /\ batches \subseteq [id : Requests, total : Nat]
  /\ schedules \subseteq [id : Requests, queue : QueueIds]
  /\ req = [r \in Requests |-> req[r]] /\ \A r \in Requests : req[r] \in Menu[r] \cup {None}
  /\ pc \in [Requests -> {"new", "check", "name", "write", "find", "insert", "refetch",
                         "batch", "jobs", "done"}]
  /\ answer \in [Requests -> [code : {"none", "ok", "invalid", "not found", "conflict", "error"},
                             row : Requests \cup jobs \cup {None}]]
  /\ faults \in 0 .. MaxFaults

Done(r, op, code) == pc[r] = "done" /\ req[r].op = op /\ answer[r].code = code

(* "a duplicate submission returns the original job": all the requests for *)
(* one key that are answered get the same job, however they race, and the  *)
(* race itself never costs one of them an error.                           *)
KeyedOnce ==
  \A r1, r2 \in Requests :
    (Done(r1, "createJob", "ok") /\ Done(r2, "createJob", "ok")
       /\ req[r1].at = req[r2].at /\ KeyOf(r1) = KeyOf(r2) /\ HasKey(r1))
    => answer[r1].row = answer[r2].row

KeyedAnswered ==
  \A r \in Requests :
    Done(r, "createJob", "error") /\ HasKey(r) =>
      faults > 0 \/ req[r].at \notin QueueIds \/ req[r].ref \notin BatchIds \cup {None}

(* What createBatch was given is all there once it has answered, or nothing*)
(* of it, as its answer says; so total_jobs is the number of its jobs.     *)
(* Jobs that joined the batch by batch_id are beyond it: they may be there *)
(* even if nothing else is.                                                *)
BatchWhole ==
  \A b \in batches : pc[b.id] = "done" =>
    LET own == {j \in jobs : j.id = b.id} IN
    /\ Cardinality(own) = IF answer[b.id].code = "ok" THEN b.total ELSE 0
    /\ \A j \in own : j.batch = b.id

(* Two users that create or rename a queue at once, or remove the project  *)
(* or the queue another is filling, leave no two queues of one name in a   *)
(* project, no job or schedule outside a queue of a project, and no job in *)
(* a batch that is not there.                                              *)
TreeIntact ==
  /\ \A q1, q2 \in queues : q1.project = q2.project /\ q1.name = q2.name => q1 = q2
  /\ \A q \in queues : q.project \in projects
  /\ {j.queue : j \in jobs} \cup {s.queue : s \in schedules} \subseteq QueueIds
  /\ {j.batch : j \in jobs} \subseteq BatchIds \cup {None}
=============================================================================
