----------------------------- MODULE Scheduler ------------------------------
(***************************************************************************)
(* SchedulerService (scheduler.service.ts): worker processes compete for a *)
(* lease in Redis, and whichever process believes it holds the lease turns *)
(* due scheduled jobs into jobs and then looks for orphans.                *)
(*                                                                         *)
(* One action is one Redis command, or the steps of one PostgreSQL         *)
(* transaction up to the next statement that another process can notice,   *)
(* with the process-local code around it.  The belief (isLeader) is a      *)
(* variable of the process and may be wrong; every process has a clock of  *)
(* its own; passes of one process may overlap, because setInterval does    *)
(* not wait for them.  What detectOrphans does is JobLifecycle's; here it  *)
(* is one step that clears `stranded'.                                     *)
(***************************************************************************)
EXTENDS Naturals, FiniteSets

CONSTANTS
  Procs,          \* worker processes, each with a leaderInstanceId
  Nobody,         \* the value of a key that does not exist
  Templates,      \* the rows of scheduled_jobs with is_active
  Poison,         \* those whose job_template no row of jobs can hold
  BadCron,        \* those whose cron_expression does not parse
  CronNext,       \* CronNext[t][n]: the first occurrence after n
  Forever         \* 9999-12-31

CONSTANTS         \* bounds, and what the environment may do
  LastTime,       \* bound: the clocks stop there
  Overlap,        \* bound: passes of one process that run at once
  MaxLapses,      \* bound: leases that expire under a process that lives
  MaxErrors,      \* bound: failed requests to Redis and PostgreSQL
  MaxDeaths,      \* bound: how often workers die and leave jobs behind
  Crashable,      \* processes that may stop without notice
  Closable        \* processes closed by app.close(), as the tests do

Times == 0 .. LastTime

ASSUME SchedulerAssumption ==
  /\ Nobody \notin Procs
  /\ Poison \subseteq Templates /\ BadCron \subseteq Templates
  /\ Crashable \subseteq Procs /\ Closable \subseteq Procs
  /\ {LastTime, Overlap, MaxLapses, MaxErrors, MaxDeaths, Forever} \subseteq Nat
  /\ LastTime < Forever
  /\ \A t \in Templates, n \in Times : CronNext[t][n] \in Nat /\ CronNext[t][n] > n

VARIABLES
  clock,          \* new Date() of each process
  proc,           \* the process: new, up, closed (isRunning = false) or down
  key,            \* the Redis key scheduler:leader
  isLeader,       \* what each process believes
  election,       \* the Redis answer tryAcquireLeader is about to act on
  nextRun,        \* scheduled_jobs.next_run_at
  created,        \* how many jobs were created for each occurrence
  pass,           \* where each call of materializeJobs has got to
  now,            \* the `now' it read when it started
  rows,           \* next_run_at of each row it selected and holds locked, or 0
  stranded,       \* some dead worker has jobs that nobody requeued
  lapses, errors, deaths

leaseVars == <<key, isLeader, election>>
rowVars   == <<nextRun, created>>
passVars  == <<pass, now, rows>>
bounds    == <<lapses, errors, deaths>>
vars == <<clock, proc, leaseVars, rowVars, passVars, stranded, bounds>>

Passes    == Procs \X (1 .. Overlap)
ProcOf(i) == i[1]
NoRows    == [t \in Templates |-> 0]
Held(i)   == {t \in Templates : rows[i][t] # 0}

Init ==
  /\ clock = [p \in Procs |-> 0]
  /\ proc = [p \in Procs |-> "new"]
  /\ key = Nobody
  /\ isLeader = [p \in Procs |-> FALSE]
  /\ election = [p \in Procs |-> "idle"]
  /\ nextRun = [t \in Templates |-> CronNext[t][0]]
  /\ created = [t \in Templates |-> [o \in Times |-> 0]]
  /\ pass = [i \in Passes |-> "idle"]
  /\ now = [i \in Passes |-> 0]
  /\ rows = [i \in Passes |-> NoRows]
  /\ stranded = FALSE
  /\ lapses = 0 /\ errors = 0 /\ deaths = 0

-----------------------------------------------------------------------------
(* Processes and time.                                                     *)

Tick(p) ==
  /\ clock[p] < LastTime
  /\ clock' = [clock EXCEPT ![p] = @ + 1]
  /\ UNCHANGED <<proc, leaseVars, rowVars, passVars, stranded, bounds>>

Start(p) ==
  /\ proc[p] = "new"
  /\ proc' = [proc EXCEPT ![p] = "up"]
  /\ UNCHANGED <<clock, leaseVars, rowVars, passVars, stranded, bounds>>

(* What a process that is gone leaves behind: PostgreSQL rolls back, and   *)
(* its key stays in Redis until it expires.                                *)
Forget(p) ==
  /\ isLeader' = [isLeader EXCEPT ![p] = FALSE]
  /\ election' = [election EXCEPT ![p] = "idle"]
  /\ pass' = [i \in Passes |-> IF ProcOf(i) = p THEN "idle" ELSE pass[i]]
  /\ rows' = [i \in Passes |-> IF ProcOf(i) = p THEN NoRows ELSE rows[i]]
  /\ UNCHANGED now

Crash(p) ==
  /\ proc[p] \in {"up", "closed"} /\ p \in Crashable
  /\ proc' = [proc EXCEPT ![p] = "down"]
  /\ Forget(p)
  /\ UNCHANGED <<clock, key, rowVars, stranded, bounds>>

(* onModuleDestroy: no new election or pass starts, those under way go on; *)
(* a believed leader deletes the key, whoever it belongs to by now.        *)
Close(p) ==
  /\ proc[p] = "up" /\ p \in Closable
  /\ proc' = [proc EXCEPT ![p] = "closed"]
  /\ key' = IF isLeader[p] THEN Nobody ELSE key
  /\ UNCHANGED <<clock, isLeader, election, rowVars, passVars, stranded, bounds>>

(* The 15 s of the lease pass; a live leader renews it every 10 s, so this *)
(* takes a dead or closed one, or one that was held up.                    *)
KeyExpires ==
  /\ key # Nobody
  /\ key' = Nobody
  /\ UNCHANGED <<clock, proc, isLeader, election, rowVars, passVars, stranded, errors, deaths>>
  /\ \/ proc[key] # "up" /\ UNCHANGED lapses
     \/ proc[key] = "up" /\ lapses < MaxLapses /\ lapses' = lapses + 1

WorkerDies ==
  /\ deaths < MaxDeaths
  /\ deaths' = deaths + 1
  /\ stranded' = TRUE
  /\ UNCHANGED <<clock, proc, leaseVars, rowVars, passVars, lapses, errors>>

-----------------------------------------------------------------------------
(* tryAcquireLeader(), every 10 s.                                         *)

Believe(p, b) == isLeader' = [isLeader EXCEPT ![p] = b]
AwaitsIn(p, s) == election' = [election EXCEPT ![p] = s]

(* SET key id EX 15 NX.                                                    *)
SetNx(p) ==
  /\ proc[p] = "up" /\ election[p] = "idle"
  /\ IF key = Nobody
       THEN key' = p /\ Believe(p, TRUE) /\ UNCHANGED election
       ELSE AwaitsIn(p, "get") /\ UNCHANGED <<key, isLeader>>
  /\ UNCHANGED <<clock, proc, rowVars, passVars, stranded, bounds>>

SlipGet(p) ==                               \* no else branch: belief is kept
  /\ election[p] = "get"
  /\ AwaitsIn(p, IF key = p THEN "expire" ELSE "idle")
  /\ UNCHANGED <<clock, proc, key, isLeader, rowVars, passVars, stranded, bounds>>

Get(p) ==
  /\ election[p] = "get"
  /\ IF key = p
       THEN AwaitsIn(p, "expire") /\ UNCHANGED isLeader
       ELSE AwaitsIn(p, "idle") /\ Believe(p, FALSE)
  /\ UNCHANGED <<clock, proc, key, rowVars, passVars, stranded, bounds>>

(* EXPIRE renews whatever lease is there by now, and its answer is not     *)
(* looked at.                                                              *)
Expire(p) ==
  /\ election[p] = "expire"
  /\ AwaitsIn(p, "idle") /\ Believe(p, TRUE)
  /\ UNCHANGED <<clock, proc, key, rowVars, passVars, stranded, bounds>>

(* A command fails before Redis runs it; the belief is given up.           *)
RedisError(p) ==
  /\ proc[p] = "up" \/ election[p] # "idle"
  /\ proc[p] # "new" /\ errors < MaxErrors
  /\ errors' = errors + 1
  /\ AwaitsIn(p, "idle") /\ Believe(p, FALSE)
  /\ UNCHANGED <<clock, proc, key, rowVars, passVars, stranded, lapses, deaths>>

-----------------------------------------------------------------------------
(* materializeJobs(), every 15 s.                                          *)

Goes(i, s) == pass' = [pass EXCEPT ![i] = s]

Begin(i) ==
  /\ pass[i] = "idle"
  /\ proc[ProcOf(i)] = "up" /\ isLeader[ProcOf(i)]
  /\ now' = [now EXCEPT ![i] = clock[ProcOf(i)]]
  /\ Goes(i, "selecting")
  /\ UNCHANGED <<clock, proc, leaseVars, rowVars, rows, stranded, bounds>>

SlipUnlocked == Templates                   \* no FOR UPDATE SKIP LOCKED
Unlocked     == Templates \ UNION {Held(i) : i \in Passes}

Due(i) == {t \in Unlocked : nextRun[t] <= now[i]}

SlipAfter(S) == IF S = {} THEN "idle" ELSE "creating"   \* with no due row the pass ends
After(S)     == IF S = {} THEN "sweeping" ELSE "creating"

(* SELECT ... FOR UPDATE SKIP LOCKED; with no due row the transaction ends.*)
Select(i) ==
  /\ pass[i] = "selecting"
  /\ rows' = [rows EXCEPT ![i] = [t \in Templates |-> IF t \in Due(i) THEN nextRun[t] ELSE 0]]
  /\ Goes(i, After(Due(i)))
  /\ UNCHANGED <<clock, proc, leaseVars, rowVars, now, stranded, bounds>>

(* The occurrence after now, or never again when the expression is bad.    *)
SlipNextRunAt(t, n) == IF t \in BadCron THEN 0 - 1 ELSE CronNext[t][n]   \* an invalid date
NextRunAt(t, n)     == IF t \in BadCron THEN Forever ELSE CronNext[t][n]

SlipAdvance(i, S) ==                        \* the catch branch writes nothing
  nextRun' = [t \in Templates |-> IF t \in S \ BadCron THEN NextRunAt(t, now[i]) ELSE nextRun[t]]
Advance(i, S) ==
  nextRun' = [t \in Templates |-> IF t \in S THEN NextRunAt(t, now[i]) ELSE nextRun[t]]

Unlock(i) == rows' = [rows EXCEPT ![i] = NoRows]

(* A job and a new next_run_at for each selected row, and COMMIT.          *)
Commit(i) ==
  /\ created' = [t \in Templates |->
       IF t \in Held(i) THEN [created[t] EXCEPT ![rows[i][t]] = @ + 1] ELSE created[t]]
  /\ Advance(i, Held(i))
  /\ Unlock(i) /\ Goes(i, "sweeping")
  /\ UNCHANGED <<clock, proc, leaseVars, now, stranded, bounds>>

SlipRollback(i) == UNCHANGED <<rows, rowVars>>   \* the transaction stays open
Rollback(i)     == Unlock(i) /\ UNCHANGED rowVars

(* One template that no job can be made of: jobs and dates of all the      *)
(* others are rolled back, and detectOrphans is not reached.               *)
Reject(i) ==
  /\ Rollback(i) /\ Goes(i, "idle")
  /\ UNCHANGED <<clock, proc, leaseVars, now, stranded, bounds>>

Materialize(i) ==
  /\ pass[i] = "creating"
  /\ IF Held(i) \cap Poison = {} THEN Commit(i) ELSE Reject(i)

DbError(i) ==
  /\ pass[i] \in {"selecting", "creating", "sweeping"}
  /\ errors < MaxErrors
  /\ errors' = errors + 1
  /\ Rollback(i) /\ Goes(i, "idle")
  /\ UNCHANGED <<clock, proc, leaseVars, now, stranded, lapses, deaths>>

(* detectOrphans().                                                        *)
DetectOrphans(i) ==
  /\ pass[i] = "sweeping"
  /\ stranded' = FALSE
  /\ Goes(i, "idle")
  /\ UNCHANGED <<clock, proc, leaseVars, rowVars, now, rows, bounds>>

-----------------------------------------------------------------------------
Elect(p)    == SetNx(p) \/ Get(p) \/ Expire(p)
PassStep(i) == Begin(i) \/ Select(i) \/ Materialize(i) \/ DetectOrphans(i)

Next ==
  \/ \E p \in Procs :
       Tick(p) \/ Start(p) \/ Crash(p) \/ Close(p) \/ Elect(p) \/ RedisError(p)
  \/ \E i \in Passes : PassStep(i) \/ DbError(i)
  \/ KeyExpires \/ WorkerDies

Spec == Init /\ [][Next]_vars

(* Timers fire, awaited answers arrive, clocks advance and a lease that    *)
(* nobody renews expires.                                                  *)
Fairness ==
  /\ \A p \in Procs : WF_vars(Tick(p)) /\ WF_vars(Start(p)) /\ WF_vars(Elect(p))
  /\ \A i \in Passes : WF_vars(PassStep(i))
  /\ WF_vars(KeyExpires /\ UNCHANGED lapses)

FairSpec == Spec /\ Fairness

-----------------------------------------------------------------------------
(* Correctness.                                                            *)

(* Every variable has its type.                                            *)
TypeOK ==
  /\ clock \in [Procs -> Times]
  /\ proc \in [Procs -> {"new", "up", "closed", "down"}]
  /\ key \in Procs \cup {Nobody}
  /\ isLeader \in [Procs -> BOOLEAN]
  /\ election \in [Procs -> {"idle", "get", "expire"}]
  /\ nextRun \in [Templates -> Nat]
  /\ created \in [Templates -> [Times -> Nat]]
  /\ pass \in [Passes -> {"idle", "selecting", "creating", "sweeping"}]
  /\ now \in [Passes -> Times]
  /\ rows \in [Passes -> [Templates -> Nat]]
  /\ stranded \in BOOLEAN
  /\ lapses \in 0 .. MaxLapses /\ errors \in 0 .. MaxErrors /\ deaths \in 0 .. MaxDeaths

(* The rows of scheduled_jobs behave as one well-kept schedule, however    *)
(* many processes believe they are the leader, whatever their clocks say,  *)
(* whoever crashes and however passes overlap.                             *)
Cron == INSTANCE Schedule
ImplementsSchedule == Cron!Spec

(* "Leader election prevents duplicate materialization": an occurrence has *)
(* one job at most, even when there are two leaders.                       *)
AtMostOnce == Cron!AtMostOnce

(* A row is given up to one pass at a time, and stays due for it.          *)
RowsHeldOnce ==
  \A i \in Passes, t \in Templates : t \in Held(i) =>
    /\ pass[i] = "creating"
    /\ rows[i][t] = nextRun[t] /\ nextRun[t] <= now[i]
    /\ \A k \in Passes \ {i} : t \notin Held(k)

(* A process that has lost the lease comes to know it.                     *)
StaleBeliefHeals ==
  \A p \in Procs : (isLeader[p] /\ proc[p] = "up" /\ key # p) ~>
                   (~isLeader[p] \/ proc[p] # "up" \/ key = p)

(* No schedule stalls: the occurrences the clocks reach are all behind it  *)
(* in the end, through crashes, lost leases and failed requests.           *)
SchedulesAdvance == \A t \in Templates : <>(nextRun[t] > LastTime)

(* Whatever else a pass has to do, dead workers are looked for.            *)
OrphansLookedFor == stranded ~> ~stranded
=============================================================================
