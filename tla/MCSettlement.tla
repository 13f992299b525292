---------------------------- MODULE MCSettlement ----------------------------
(* A small instance of Settlement: a batch that was created with one job   *)
(* and that another job of the same queue has joined.                      *)
EXTENDS Settlement

CONSTANTS q1

Together == [j \in Jobs |-> q1]
MCLimit  == [q \in Queues |-> 2]
=============================================================================
