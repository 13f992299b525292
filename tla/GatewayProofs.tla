---------------------------- MODULE GatewayProofs ----------------------------
(***************************************************************************)
(* The invariants of Gateway, for any number of sockets, queues,           *)
(* organizations and waiting subscriptions.  Together they are inductive:  *)
(* a late answer is harmless because it compares the organization with a   *)
(* user that never changes, and tells in the step in which it joins.       *)
(***************************************************************************)
EXTENDS Gateway, TLAPS

(* Nobody is told anything before the connection is open.                  *)
Untold == \A s \in Sockets, q \in Queues : socket[s] = "new" => told[s][q] = "nothing"

Inv == TypeOK /\ RoomsAuthorized /\ AnswersTrue /\ Untold

LEMMA InitInv == Init => Inv
  BY GatewayAssumption DEF Init, Inv, TypeOK, RoomsAuthorized, AnswersTrue, Untold, Answers

LEMMA NextInv == Inv /\ [Next]_vars => Inv'
<1> SUFFICES ASSUME Inv, [Next]_vars PROVE Inv'
  OBVIOUS
<1> USE GatewayAssumption DEF Inv, TypeOK, RoomsAuthorized, AnswersTrue, Untold, Answers
<1>1. ASSUME NEW s \in Sockets, NEW org \in Orgs \cup {None}, Connect(s, org) PROVE Inv'
  <2>1. /\ socket' \in [Sockets -> {"new", "open", "closed"}]
        /\ user' \in [Sockets -> Orgs \cup {None}]
    BY <1>1 DEF Connect
  <2>2. rooms[s] = {}
    BY <1>1 DEF Connect
  <2>3. \A q \in Queues : told[s][q] = "nothing"
    BY <1>1 DEF Connect
  <2> QED
    BY <1>1, <2>1, <2>2, <2>3 DEF Connect, Admitted
<1>2. ASSUME NEW s \in Sockets, Disconnect(s) PROVE Inv'
  BY <1>2 DEF Disconnect
<1>3. ASSUME NEW s \in Sockets, NEW q \in Queues, Unsubscribe(s, q) PROVE Inv'
  BY <1>3 DEF Unsubscribe, Tell
<1>4. ASSUME NEW s \in Sockets, NEW q \in Queues, NEW a \in Asks, Subscribe(s, q, a) PROVE Inv'
  BY <1>4 DEF Subscribe
<1>5. ASSUME NEW a \in Asks, Subscribed(a) PROVE Inv'
  <2>1. PICK s \in Sockets, q \in Queues : ask[a] = <<s, q>>
    BY <1>5 DEF Subscribed
  <2>2. /\ ask' \in [Asks -> (Sockets \X Queues) \cup {<<>>}]
        /\ UNCHANGED <<socket, user, queues>>
    BY <1>5 DEF Subscribed
  <2>3. CASE MayFollow(s, q) /\ socket[s] = "open"
    <3>1. /\ rooms' = [rooms EXCEPT ![s] = @ \cup {q}]
          /\ told' = [told EXCEPT ![s][q] = "subscribed"]
      BY <1>5, <2>1, <2>3 DEF Subscribed, Reply, Tell
    <3>2. OrgOf[q] = user[s]
      BY <2>3 DEF MayFollow
    <3> QED
      BY <2>2, <2>3, <3>1, <3>2
  <2>4. CASE ~MayFollow(s, q) /\ socket[s] = "open"
    <3>1. told' = [told EXCEPT ![s][q] = "error"] /\ UNCHANGED rooms
      BY <1>5, <2>1, <2>4 DEF Subscribed, Reply, Tell
    <3> QED
      BY <2>2, <2>4, <3>1
  <2>5. CASE socket[s] # "open"
    <3>1. UNCHANGED <<rooms, told>>
      BY <1>5, <2>1, <2>5 DEF Subscribed
    <3> QED
      BY <2>2, <3>1
  <2> QED
    BY <2>3, <2>4, <2>5
<1>6. ASSUME NEW a \in Asks, SubscribeFails(a) PROVE Inv'
  <2>1. PICK s \in Sockets, q \in Queues : ask[a] = <<s, q>>
    BY <1>6 DEF SubscribeFails
  <2>2. /\ ask' \in [Asks -> (Sockets \X Queues) \cup {<<>>}]
        /\ UNCHANGED <<socket, user, rooms, queues>>
    BY <1>6 DEF SubscribeFails
  <2>3. CASE socket[s] = "open"
    <3>1. told' = [told EXCEPT ![s][q] = "error"]
      BY <1>6, <2>1, <2>3 DEF SubscribeFails, Tell
    <3> QED
      BY <2>2, <2>3, <3>1
  <2>4. CASE socket[s] # "open"
    <3>1. UNCHANGED told
      BY <1>6, <2>1, <2>4 DEF SubscribeFails
    <3> QED
      BY <2>2, <3>1
  <2> QED
    BY <2>3, <2>4
<1>7. ASSUME NEW q \in Queues, RemoveQueue(q) PROVE Inv'
  BY <1>7 DEF RemoveQueue
<1>8. CASE UNCHANGED vars
  BY <1>8 DEF vars
<1> QED
  BY <1>1, <1>2, <1>3, <1>4, <1>5, <1>6, <1>7, <1>8 DEF Next, SocketStep

THEOREM Invariance == Spec => []Inv
  BY InitInv, NextInv, PTL DEF Spec

(* Every variable keeps its type, and an open socket has a user: the tests *)
(* of client.user in the handlers never fail.                              *)
THEOREM TypeCorrect == Spec => []TypeOK
  BY Invariance, PTL DEF Inv

(* Rooms hold connected sockets of the queue's own organization only,      *)
(* however long the database takes to answer a subscription.               *)
THEOREM OnlyOwnRooms == Spec => []RoomsAuthorized
  BY Invariance, PTL DEF Inv

(* Who was last told 'subscribed' is in the room, and who was last told    *)
(* 'unsubscribed', or nothing, is not; only after an 'error' must a client *)
(* remember what it was told before.                                       *)
THEOREM ClientsKnow == Spec => []AnswersTrue
  BY Invariance, PTL DEF Inv
=============================================================================
