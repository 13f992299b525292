------------------------------ MODULE JobBoard ------------------------------
(***************************************************************************)
(* What the scheduler promises about its jobs, with no worker, no database *)
(* and no clock in sight: a board of jobs, each waiting, held by somebody, *)
(* done, dead or withdrawn.  A queue never has more jobs held than its     *)
(* concurrency limit, a job is held only after the jobs it depends on are  *)
(* done, and done is for ever.  JobLifecycle implements it.                *)
(***************************************************************************)
EXTENDS Integers, FiniteSets

CONSTANTS Jobs, Queues, QueueOf, Deps, Limit

VARIABLE state    \* what the board says of each job

State == {"waiting", "held", "done", "dead", "withdrawn"}

HeldIn(q) == {j \in Jobs : QueueOf[j] = q /\ state[j] = "held"}

Move(S, from, to) ==
  /\ S # {} /\ \A j \in S : state[j] = from
  /\ state' = [j \in Jobs |-> IF j \in S THEN to ELSE state[j]]

Init == state = [j \in Jobs |-> "waiting"]

(* A worker takes jobs of one queue, within the limit of the queue.        *)
Take(q, S) ==
  /\ Move(S, "waiting", "held")
  /\ \A j \in S : QueueOf[j] = q /\ \A d \in Deps[j] : state[d] = "done"
  /\ Cardinality(HeldIn(q)) + Cardinality(S) <= Limit[q]

(* Jobs come back: an attempt failed, or the holder was lost.              *)
GiveBack(S) == Move(S, "held", "waiting")

Finish(j)   == Move({j}, "held", "done")
Bury(j)     == Move({j}, "held", "dead")
Revive(j)   == Move({j}, "dead", "waiting")
Withdraw(j) == Move({j}, "waiting", "withdrawn")

Next ==
  \/ \E S \in SUBSET Jobs : GiveBack(S) \/ \E q \in Queues : Take(q, S)
  \/ \E j \in Jobs : Finish(j) \/ Bury(j) \/ Revive(j) \/ Withdraw(j)

Spec == Init /\ [][Next]_state
=============================================================================
