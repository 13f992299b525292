---------------------------- MODULE MCScheduler -----------------------------
(* Small instances of Scheduler: two processes with clocks of their own and*)
(* schedules that fire at every instant.                                   *)
EXTENDS Scheduler

MCCronNext == [t \in Templates |-> [n \in Times |-> n + 1]]
=============================================================================
