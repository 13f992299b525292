-------------------------- MODULE SchedulerProofs ---------------------------
(***************************************************************************)
(* For any number of processes, clocks, passes and templates, the rows of  *)
(* scheduled_jobs are one well-kept schedule (module Schedule), so no      *)
(* occurrence ever has two jobs.  Neither needs a unique leader: the proof *)
(* rests on the row locks of Select alone.                                 *)
(***************************************************************************)
EXTENDS Scheduler, TLAPS

Typed ==
  /\ clock \in [Procs -> Times]
  /\ nextRun \in [Templates -> Nat \ {0}]
  /\ created \in [Templates -> [Times -> Nat]]
  /\ pass \in [Passes -> {"idle", "selecting", "creating", "sweeping"}]
  /\ now \in [Passes -> Times]
  /\ rows \in [Passes -> [Templates -> Nat]]

IInv == Typed /\ RowsHeldOnce

LEMMA InitInv == Init => IInv
  BY SchedulerAssumption DEF Init, IInv, Typed, RowsHeldOnce, Times, Passes, NoRows, Held

LEMMA NextAfterNow ==
  ASSUME NEW t \in Templates, NEW n \in Times
  PROVE  NextRunAt(t, n) \in Nat /\ NextRunAt(t, n) > n
  BY SchedulerAssumption DEF NextRunAt, Times

LEMMA PassesTyped == \A i \in Passes : ProcOf(i) \in Procs
  BY DEF Passes, ProcOf

(* What every step but Tick, Begin, Select and the ends of passes leaves.  *)
LEMMA QuietStep ==
  ASSUME IInv, UNCHANGED <<rowVars, passVars>>, clock' \in [Procs -> Times]
  PROVE  IInv'
  BY DEF IInv, Typed, RowsHeldOnce, Held, rowVars, passVars

(* Passes that end, or go on without rows, release what they held.         *)
LEMMA ReleaseStep ==
  ASSUME IInv, UNCHANGED <<clock, rowVars>>,
         now' \in [Passes -> Times],
         pass' \in [Passes -> {"idle", "selecting", "creating", "sweeping"}],
         rows' \in [Passes -> [Templates -> Nat]],
         \A i \in Passes : \/ pass'[i] = pass[i] /\ rows'[i] = rows[i] /\ now'[i] = now[i]
                           \/ \A t \in Templates : rows'[i][t] = 0
  PROVE  IInv'
<1> USE DEF IInv, Typed, rowVars
<1>1. \A i \in Passes, t \in Templates :
        t \in Held(i)' => /\ t \in Held(i) /\ rows'[i][t] = rows[i][t]
                          /\ pass'[i] = pass[i] /\ now'[i] = now[i]
  BY DEF Held
<1>2. RowsHeldOnce'
  BY <1>1 DEF RowsHeldOnce
<1> QED BY <1>2

LEMMA IdleHoldsNothing ==
  ASSUME IInv, NEW i \in Passes, pass[i] # "creating", NEW t \in Templates
  PROVE  rows[i][t] = 0
  BY DEF IInv, Typed, RowsHeldOnce, Held

LEMMA SelectStep ==
  ASSUME IInv, NEW i \in Passes, Select(i)
  PROVE  IInv'
<1> USE DEF IInv, Typed
<1>1. Typed'
  BY DEF Select, After, Goes, Due, Unlocked, rowVars
<1>2. \A k \in Passes \ {i} : rows'[k] = rows[k] /\ pass'[k] = pass[k]
  BY DEF Select, Goes
<1>3. \A t \in Templates : t \in Held(i)' => t \in Due(i) /\ rows'[i][t] = nextRun[t]
  BY DEF Select, Held, Due
<1>4. \A t \in Due(i), k \in Passes : t \notin Held(k) /\ nextRun[t] <= now[i]
  BY DEF Due, Unlocked
<1>5. \A t \in Templates : t \in Held(i)' => pass'[i] = "creating"
  BY <1>3 DEF Select, After, Goes
<1>6. \A k \in Passes \ {i} : Held(k)' = Held(k)
  BY <1>2 DEF Held
<1>7. nextRun' = nextRun /\ now' = now
  BY DEF Select, rowVars
<1>8. RowsHeldOnce'
  BY <1>2, <1>3, <1>4, <1>5, <1>6, <1>7 DEF RowsHeldOnce
<1> QED BY <1>1, <1>8

LEMMA CommitStep ==
  ASSUME IInv, NEW i \in Passes, pass[i] = "creating", Commit(i)
  PROVE  /\ IInv'
         /\ Cron!Fire(Held(i))
<1> USE DEF IInv, Typed
<1>1. \A t \in Templates : NextRunAt(t, now[i]) \in Nat \ {0} /\ NextRunAt(t, now[i]) > now[i]
  BY NextAfterNow DEF Times
<1>2. \A t \in Held(i) : /\ rows[i][t] = nextRun[t] /\ nextRun[t] <= now[i]
                         /\ nextRun[t] \in Times
  <2> SUFFICES ASSUME NEW t \in Held(i)
               PROVE  rows[i][t] = nextRun[t] /\ nextRun[t] <= now[i] /\ nextRun[t] \in Times
    OBVIOUS
  <2>1. t \in Templates
    BY DEF Held
  <2>2. rows[i][t] = nextRun[t] /\ nextRun[t] <= now[i]
    BY <2>1 DEF RowsHeldOnce
  <2>3. nextRun[t] \in Times
    BY <2>1, <2>2, SchedulerAssumption DEF Times
  <2> QED BY <2>2, <2>3
<1>3. nextRun' = [t \in Templates |-> IF t \in Held(i) THEN NextRunAt(t, now[i]) ELSE nextRun[t]]
  BY DEF Commit, Advance
<1>4. nextRun' \in [Templates -> Nat \ {0}]
  BY <1>1, <1>3
<1>5. created' = [t \in Templates |->
         IF t \in Held(i) THEN [created[t] EXCEPT ![nextRun[t]] = @ + 1] ELSE created[t]]
  BY <1>2 DEF Commit, Held
<1>6. created' \in [Templates -> [Times -> Nat]]
  <2>1. ASSUME NEW t \in Held(i) PROVE [created[t] EXCEPT ![nextRun[t]] = @ + 1] \in [Times -> Nat]
    <3>1. created[t] \in [Times -> Nat] /\ nextRun[t] \in Times
      BY <1>2 DEF Held
    <3> QED BY <3>1
  <2> QED BY <1>5, <2>1
<1>7. Typed'
  BY <1>4, <1>6 DEF Commit, Goes, Unlock, NoRows
<1>8. \A k \in Passes \ {i} : rows'[k] = rows[k] /\ pass'[k] = pass[k] /\ now'[k] = now[k]
  BY DEF Commit, Goes, Unlock
<1>9. \A k \in Passes, t \in Templates : t \in Held(k)' => k # i /\ t \in Held(k) /\ t \notin Held(i)
  BY <1>8 DEF Commit, Unlock, NoRows, Held, RowsHeldOnce
<1>10. RowsHeldOnce'
  <2> SUFFICES ASSUME NEW k \in Passes, NEW t \in Templates, t \in Held(k)'
               PROVE  /\ pass'[k] = "creating"
                      /\ rows'[k][t] = nextRun'[t] /\ nextRun'[t] <= now'[k]
                      /\ \A l \in Passes \ {k} : t \notin Held(l)'
    BY DEF RowsHeldOnce
  <2>1. k # i /\ t \in Held(k) /\ t \notin Held(i)
    BY <1>9
  <2>2. nextRun'[t] = nextRun[t]
    BY <1>3, <2>1
  <2>3. \A l \in Passes \ {k} : t \notin Held(l)'
    BY <1>9, <2>1 DEF RowsHeldOnce
  <2> QED BY <1>8, <2>1, <2>2, <2>3 DEF RowsHeldOnce
<1>11. \A t \in Held(i) : nextRun'[t] > nextRun[t]
  BY <1>1, <1>2, <1>3 DEF Held, Times
<1>12. Cron!Fire(Held(i))
  BY <1>2, <1>3, <1>4, <1>5, <1>11 DEF Cron!Fire, Cron!Times, Times, Held
<1> QED BY <1>7, <1>10, <1>12

LEMMA StepInv ==
  ASSUME IInv, [Next]_vars
  PROVE  /\ IInv'
         /\ [Cron!Next]_<<nextRun, created>>
<1> USE PassesTyped
<1>1. ASSUME UNCHANGED vars PROVE IInv' /\ UNCHANGED <<nextRun, created>>
  BY <1>1, QuietStep DEF vars, IInv, Typed, rowVars, passVars
<1>2. ASSUME NEW p \in Procs, Tick(p) PROVE IInv' /\ UNCHANGED <<nextRun, created>>
  <2>1. clock' \in [Procs -> Times]
    BY <1>2, SchedulerAssumption DEF Tick, IInv, Typed, Times
  <2> QED BY <1>2, <2>1, QuietStep DEF Tick, rowVars
<1>3. ASSUME NEW p \in Procs, Start(p) \/ Close(p) \/ Elect(p) \/ RedisError(p)
      PROVE  IInv' /\ UNCHANGED <<nextRun, created>>
  BY <1>3, QuietStep
     DEF Start, Close, Elect, SetNx, Get, Expire, RedisError, IInv, Typed, rowVars, passVars
<1>4. ASSUME NEW p \in Procs, Crash(p) PROVE IInv' /\ UNCHANGED <<nextRun, created>>
  BY <1>4, ReleaseStep DEF Crash, Forget, IInv, Typed, NoRows, rowVars
<1>5. ASSUME NEW i \in Passes, Begin(i) PROVE IInv' /\ UNCHANGED <<nextRun, created>>
  BY <1>5, ReleaseStep, IdleHoldsNothing DEF Begin, Goes, IInv, Typed, rowVars
<1>6. ASSUME NEW i \in Passes, Select(i) PROVE IInv' /\ UNCHANGED <<nextRun, created>>
  BY <1>6, SelectStep DEF Select, rowVars
<1>7. ASSUME NEW i \in Passes, pass[i] = "creating", Commit(i) PROVE IInv' /\ Cron!Next
  BY <1>7, CommitStep DEF Cron!Next, Held
<1>8. ASSUME NEW i \in Passes, Reject(i) \/ DbError(i) PROVE IInv' /\ UNCHANGED <<nextRun, created>>
  <2>1. /\ Rollback(i) /\ Goes(i, "idle")
        /\ UNCHANGED <<clock, now>>
    BY <1>8 DEF Reject, DbError
  <2>2. UNCHANGED <<clock, rowVars, now>> /\ UNCHANGED <<nextRun, created>>
    BY <2>1 DEF Rollback, rowVars
  <2>3. rows' = [rows EXCEPT ![i] = NoRows] /\ pass' = [pass EXCEPT ![i] = "idle"]
    BY <2>1 DEF Rollback, Unlock, Goes
  <2>4. NoRows \in [Templates -> Nat] /\ \A t \in Templates : NoRows[t] = 0
    BY DEF NoRows
  <2>5. /\ rows' \in [Passes -> [Templates -> Nat]]
        /\ pass' \in [Passes -> {"idle", "selecting", "creating", "sweeping"}]
        /\ now' \in [Passes -> Times]
    BY <2>2, <2>3, <2>4 DEF IInv, Typed
  <2>6. \A k \in Passes : \/ pass'[k] = pass[k] /\ rows'[k] = rows[k] /\ now'[k] = now[k]
                         \/ \A t \in Templates : rows'[k][t] = 0
    BY <2>2, <2>3, <2>4 DEF IInv, Typed
  <2> QED BY <2>2, <2>5, <2>6, ReleaseStep
<1>9. ASSUME NEW i \in Passes, DetectOrphans(i) PROVE IInv' /\ UNCHANGED <<nextRun, created>>
  BY <1>9, ReleaseStep, IdleHoldsNothing DEF DetectOrphans, Goes, IInv, Typed, rowVars
<1>10. ASSUME KeyExpires \/ WorkerDies PROVE IInv' /\ UNCHANGED <<nextRun, created>>
  BY <1>10, QuietStep DEF KeyExpires, WorkerDies, IInv, Typed, rowVars, passVars
<1> QED
  BY <1>1, <1>2, <1>3, <1>4, <1>5, <1>6, <1>7, <1>8, <1>9, <1>10 DEF Next, PassStep, Materialize

(* What the rest of the variables may do; the counters stay within bounds. *)
LEMMA TypeStep ==
  ASSUME TypeOK, IInv, IInv', [Next]_vars
  PROVE  TypeOK'
<1> DEFINE Lease ==
      /\ proc \in [Procs -> {"new", "up", "closed", "down"}]
      /\ key \in Procs \cup {Nobody}
      /\ isLeader \in [Procs -> BOOLEAN]
      /\ election \in [Procs -> {"idle", "get", "expire"}]
    Bounds ==
      /\ stranded \in BOOLEAN
      /\ lapses \in 0 .. MaxLapses /\ errors \in 0 .. MaxErrors /\ deaths \in 0 .. MaxDeaths
<1>0. Lease /\ Bounds
  BY DEF TypeOK
<1> USE SchedulerAssumption DEF leaseVars, bounds
<1>1. ASSUME NEW p \in Procs, Tick(p) \/ Start(p) \/ Close(p) \/ Elect(p)
      PROVE  Lease' /\ Bounds'
  BY <1>0, <1>1 DEF Tick, Start, Close, Elect, SetNx, Get, Expire, Believe, AwaitsIn
<1>b. {MaxLapses, MaxErrors, MaxDeaths} \subseteq Nat
  OBVIOUS
<1>2. ASSUME NEW p \in Procs, Crash(p) PROVE Lease' /\ Bounds'
  BY <1>0, <1>2 DEF Crash, Forget
<1>7. ASSUME NEW p \in Procs, RedisError(p) PROVE Lease' /\ Bounds'
  <2>1. Lease'
    BY <1>0, <1>7 DEF RedisError, Believe, AwaitsIn
  <2>2. errors' = errors + 1 /\ errors < MaxErrors /\ UNCHANGED <<stranded, lapses, deaths>>
    BY <1>7 DEF RedisError
  <2> QED BY <1>0, <1>b, <2>1, <2>2
<1>3. ASSUME NEW i \in Passes, PassStep(i) PROVE Lease' /\ Bounds'
  BY <1>0, <1>3
  DEF PassStep, Begin, Select, Materialize, Commit, Reject, DetectOrphans
<1>4. ASSUME NEW i \in Passes, DbError(i) PROVE Lease' /\ Bounds'
  BY <1>0, <1>4 DEF DbError
<1>5. ASSUME KeyExpires \/ WorkerDies PROVE Lease' /\ Bounds'
  <2>1. Lease'
    BY <1>0, <1>5 DEF KeyExpires, WorkerDies
  <2>2. /\ UNCHANGED errors /\ stranded' \in BOOLEAN
        /\ lapses' = lapses \/ (lapses < MaxLapses /\ lapses' = lapses + 1)
        /\ deaths' = deaths \/ (deaths < MaxDeaths /\ deaths' = deaths + 1)
    BY <1>0, <1>5 DEF KeyExpires, WorkerDies
  <2> QED BY <1>0, <1>b, <2>1, <2>2
<1>6. ASSUME UNCHANGED vars PROVE Lease' /\ Bounds'
  BY <1>0, <1>6 DEF vars
<1>8. Lease' /\ Bounds'
  <2> HIDE DEF Lease, Bounds
  <2> QED BY <1>1, <1>2, <1>3, <1>4, <1>5, <1>6, <1>7 DEF Next
<1> QED BY <1>8 DEF TypeOK, IInv, Typed

(* Every variable keeps its type, and nextRun never becomes an invalid     *)
(* date: a bad expression gets the last date there is.                     *)
THEOREM TypeCorrect == Spec => []TypeOK
<1>1. Init => IInv
  BY InitInv
<1>2. Init => TypeOK
  <2> SUFFICES ASSUME Init PROVE TypeOK
    OBVIOUS
  <2>1. 0 \in 0 .. MaxLapses /\ 0 \in 0 .. MaxErrors /\ 0 \in 0 .. MaxDeaths
    BY SchedulerAssumption
  <2>2. Typed
    BY <1>1 DEF IInv
  <2> QED BY <2>1, <2>2 DEF Init, TypeOK, Typed
<1>3. IInv /\ [Next]_vars => IInv'
  BY StepInv
<1>4. TypeOK /\ IInv /\ IInv' /\ [Next]_vars => TypeOK'
  BY TypeStep
<1> QED BY <1>1, <1>2, <1>3, <1>4, PTL DEF Spec

(* Rows given up to passes are given up to one pass at a time.             *)
THEOREM HeldOnce == Spec => []RowsHeldOnce
<1>1. Init => IInv
  BY InitInv
<1>2. IInv /\ [Next]_vars => IInv'
  BY StepInv
<1>3. IInv => RowsHeldOnce
  BY DEF IInv
<1> QED BY <1>1, <1>2, <1>3, PTL DEF Spec

(* The scheduler implements the abstract schedule, with any number of      *)
(* believed leaders, skewed clocks, crashes and overlapping passes.        *)
THEOREM SchedulerImplementsSchedule == Spec => ImplementsSchedule
<1>1. Init => IInv
  BY InitInv
<1>2. IInv /\ [Next]_vars => IInv'
  BY StepInv
<1>3. Init => Cron!Init
  BY SchedulerAssumption DEF Init, Cron!Init, Times, Cron!Times
<1>4. IInv /\ [Next]_vars => [Cron!Next]_(Cron!vars)
  BY StepInv DEF Cron!vars
<1> QED BY <1>1, <1>2, <1>3, <1>4, PTL DEF Spec, ImplementsSchedule, Cron!Spec

(* No occurrence ever has two jobs, nor a job before its turn.             *)
THEOREM OccurrenceOnce == Spec => []AtMostOnce
<1> DEFINE Counted ==
      /\ nextRun \in [Templates -> Nat]
      /\ created \in [Templates -> [Times -> Nat]]
      /\ Cron!AtMostOnce
<1>1. Cron!Init => Counted
  BY SchedulerAssumption DEF Cron!Init, Cron!AtMostOnce, Cron!Times, Times
<1>2. Counted /\ [Cron!Next]_(Cron!vars) => Counted'
  <2> SUFFICES ASSUME Counted, [Cron!Next]_(Cron!vars) PROVE Counted'
    OBVIOUS
  <2>1. CASE UNCHANGED Cron!vars
    BY <2>1 DEF Cron!vars, Cron!AtMostOnce
  <2>2. ASSUME NEW S \in SUBSET Templates, Cron!Fire(S) PROVE Counted'
    <3>1. nextRun' \in [Templates -> Nat] /\ created' \in [Templates -> [Times -> Nat]]
      <4>1. nextRun' \in [Templates -> Nat]
        BY <2>2 DEF Cron!Fire
      <4>2. ASSUME NEW t \in S PROVE [created[t] EXCEPT ![nextRun[t]] = @ + 1] \in [Times -> Nat]
        <5>1. created[t] \in [Times -> Nat]
          OBVIOUS
        <5>2. nextRun[t] \in Times
          BY <2>2, <4>2 DEF Cron!Fire, Cron!Times, Times
        <5> QED BY <5>1, <5>2
      <4>3. created' = [t \in Templates |->
              IF t \in S THEN [created[t] EXCEPT ![nextRun[t]] = @ + 1] ELSE created[t]]
        BY <2>2 DEF Cron!Fire
      <4> QED BY <4>1, <4>2, <4>3
    <3>2. ASSUME NEW t \in Templates, NEW o \in Cron!Times
          PROVE  created'[t][o] <= IF o < nextRun'[t] THEN 1 ELSE 0
      <4>0. o \in Times /\ o \in Nat
        BY DEF Times, Cron!Times
      <4>1. created[t][o] <= IF o < nextRun[t] THEN 1 ELSE 0
        BY DEF Cron!AtMostOnce
      <4>2. CASE t \in S
        <5>1. nextRun'[t] > nextRun[t] /\ created'[t] = [created[t] EXCEPT ![nextRun[t]] = @ + 1]
          BY <2>2, <4>2 DEF Cron!Fire
        <5>2. CASE o = nextRun[t]
          BY <4>0, <4>1, <5>1, <5>2, <3>1
        <5>3. CASE o # nextRun[t]
          BY <4>0, <4>1, <5>1, <5>3, <3>1
        <5> QED BY <5>2, <5>3
      <4>3. CASE t \notin S
        BY <2>2, <4>1, <4>3 DEF Cron!Fire
      <4> QED BY <4>2, <4>3
    <3> QED BY <3>1, <3>2 DEF Cron!AtMostOnce
  <2> QED BY <2>1, <2>2 DEF Cron!Next
<1>3. Counted => AtMostOnce
  BY DEF AtMostOnce
<1> QED
  BY <1>1, <1>2, <1>3, SchedulerImplementsSchedule, PTL DEF ImplementsSchedule, Cron!Spec
=============================================================================
