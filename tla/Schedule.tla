------------------------------ MODULE Schedule ------------------------------
(***************************************************************************)
(* What a recurring schedule promises, whoever keeps it: each scheduled    *)
(* job has one next occurrence, the occurrence is consumed by one step     *)
(* that creates exactly one job for it, and the schedule only moves on to  *)
(* a later occurrence.  Occurrences that pass unnoticed are skipped.       *)
(***************************************************************************)
EXTENDS Naturals

CONSTANTS
  Templates,      \* the rows of scheduled_jobs
  LastTime        \* bound: occurrences after it are not distinguished

VARIABLES
  nextRun,        \* the occurrence each scheduled job waits for
  created         \* how many jobs were created for each occurrence

vars == <<nextRun, created>>

Times == 0 .. LastTime

Init ==
  /\ nextRun \in [Templates -> Nat]
  /\ created = [t \in Templates |-> [o \in Times |-> 0]]

(* The occurrences that some scheduled jobs wait for are consumed.         *)
Fire(S) ==
  /\ \A t \in S : nextRun[t] \in Times
  /\ nextRun' \in [Templates -> Nat]
  /\ \A t \in S : nextRun'[t] > nextRun[t]
  /\ \A t \in Templates \ S : nextRun'[t] = nextRun[t]
  /\ created' = [t \in Templates |->
       IF t \in S THEN [created[t] EXCEPT ![nextRun[t]] = @ + 1] ELSE created[t]]

Next == \E S \in SUBSET Templates : Fire(S)

Spec == Init /\ [][Next]_vars

(* No occurrence ever has two jobs, and none has a job before its turn.    *)
AtMostOnce ==
  \A t \in Templates, o \in Times : created[t][o] <= IF o < nextRun[t] THEN 1 ELSE 0
=============================================================================
