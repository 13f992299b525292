------------------------------ MODULE MCGateway ------------------------------
(* A small instance of Gateway: a queue of each of two organizations.      *)
EXTENDS Gateway, TLC

CONSTANTS q1, q2, o1, o2

MCOrgOf == q1 :> o1 @@ q2 :> o2
Sames   == Permutations(Sockets) \cup Permutations(Asks)
=============================================================================
