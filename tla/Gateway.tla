------------------------------- MODULE Gateway -------------------------------
(***************************************************************************)
(* EventsGateway (events.gateway.ts): socket.io clients that follow queues *)
(* by joining a room for each.  A subscription asks the database first and *)
(* joins afterwards; meanwhile the same client may unsubscribe, subscribe  *)
(* again or disconnect, and the queue may be deleted.                      *)
(*                                                                         *)
(* One action is the handler's code up to its next await.  handleConnection*)
(* awaits only the check of a signature, which lets no other event in.     *)
(* No service calls broadcastJobUpdate, so nothing is sent to a room here. *)
(***************************************************************************)
CONSTANTS
  Sockets,        \* connections; a client that reconnects is another one
  Queues, Orgs,
  OrgOf,          \* the organization of each queue's project
  Asks,           \* bound: subscriptions that wait for the database at once
  None            \* no user; a token that is missing, malformed or too old

ASSUME GatewayAssumption == OrgOf \in [Queues -> Orgs] /\ None \notin Orgs

VARIABLES
  socket,         \* "new", "open" or "closed"
  user,           \* the organization of client.user
  rooms,          \* the rooms each socket is in
  told,           \* the last answer each client got to what it asked of a queue
  ask,            \* the subscriptions that wait: <<socket, queue>> or <<>>
  queues          \* rows of queues

vars == <<socket, user, rooms, told, ask, queues>>

Init ==
  /\ socket = [s \in Sockets |-> "new"] /\ user = [s \in Sockets |-> None]
  /\ rooms = [s \in Sockets |-> {}]
  /\ told = [s \in Sockets |-> [q \in Queues |-> "nothing"]]
  /\ ask = [a \in Asks |-> <<>>]
  /\ queues = Queues

-----------------------------------------------------------------------------
SlipAdmitted(org) == TRUE                   \* the catch branch does not disconnect
Admitted(org)     == org # None

(* The token is looked for in the handshake; without a good one the socket *)
(* is disconnected at once.                                                *)
Connect(s, org) ==
  /\ socket[s] = "new"
  /\ socket' = [socket EXCEPT ![s] = IF Admitted(org) THEN "open" ELSE "closed"]
  /\ user' = [user EXCEPT ![s] = org]
  /\ UNCHANGED <<rooms, told, ask, queues>>

(* socket.io takes the socket out of its rooms; a handler that waits for   *)
(* the database goes on.                                                   *)
Disconnect(s) ==
  /\ socket[s] = "open"
  /\ socket' = [socket EXCEPT ![s] = "closed"]
  /\ rooms' = [rooms EXCEPT ![s] = {}]
  /\ UNCHANGED <<user, told, ask, queues>>

Answers == {"nothing", "subscribed", "unsubscribed", "error"}
Tell(s, q, answer) == told' = [told EXCEPT ![s][q] = answer]

SlipSubscribe(s, q, a) ==                   \* joins while the database is asked
  /\ socket[s] = "open" /\ ask[a] = <<>>
  /\ ask' = [ask EXCEPT ![a] = <<s, q>>]
  /\ rooms' = [rooms EXCEPT ![s] = @ \cup {q}]
  /\ UNCHANGED <<socket, user, told, queues>>

Subscribe(s, q, a) ==
  /\ socket[s] = "open" /\ ask[a] = <<>>
  /\ ask' = [ask EXCEPT ![a] = <<s, q>>]
  /\ UNCHANGED <<socket, user, rooms, told, queues>>

SlipMayFollow(s, q) == q \in queues         \* the organization is not compared
MayFollow(s, q)     == q \in queues /\ OrgOf[q] = user[s]

(* Who may not follow is answered 'error', and is not taken out of a room  *)
(* that was joined earlier.                                                *)
Reply(s, q) ==
  \/ /\ MayFollow(s, q)
     /\ rooms' = [rooms EXCEPT ![s] = @ \cup {q}] /\ Tell(s, q, "subscribed")
  \/ /\ ~MayFollow(s, q)
     /\ Tell(s, q, "error") /\ UNCHANGED rooms

(* The database answers.  Nothing is told to, and no room is joined by, a  *)
(* socket that is gone.                                                    *)
Subscribed(a) ==
  LET s == ask[a][1]  q == ask[a][2] IN
  /\ ask[a] # <<>> /\ ask' = [ask EXCEPT ![a] = <<>>]
  /\ IF socket[s] = "open" THEN Reply(s, q) ELSE UNCHANGED <<rooms, told>>
  /\ UNCHANGED <<socket, user, queues>>

SubscribeFails(a) ==
  LET s == ask[a][1]  q == ask[a][2] IN
  /\ ask[a] # <<>> /\ ask' = [ask EXCEPT ![a] = <<>>]
  /\ IF socket[s] = "open" THEN Tell(s, q, "error") ELSE UNCHANGED told
  /\ UNCHANGED <<socket, user, rooms, queues>>

Unsubscribe(s, q) ==
  /\ socket[s] = "open"
  /\ rooms' = [rooms EXCEPT ![s] = @ \ {q}] /\ Tell(s, q, "unsubscribed")
  /\ UNCHANGED <<socket, user, ask, queues>>

(* DELETE /queues/:id; the rooms are not told.                             *)
RemoveQueue(q) ==
  /\ q \in queues /\ queues' = queues \ {q}
  /\ UNCHANGED <<socket, user, rooms, told, ask>>

SocketStep(s) ==
  \/ \E org \in Orgs \cup {None} : Connect(s, org)
  \/ Disconnect(s)
  \/ \E q \in Queues : Unsubscribe(s, q) \/ \E a \in Asks : Subscribe(s, q, a)

Next ==
  \/ \E s \in Sockets : SocketStep(s)
  \/ \E a \in Asks : Subscribed(a) \/ SubscribeFails(a)
  \/ \E q \in Queues : RemoveQueue(q)

Spec == Init /\ [][Next]_vars

-----------------------------------------------------------------------------
(* Correctness.                                                            *)

(* Every variable has its type, and who is open has a user: the handlers'  *)
(* own test of client.user never fails.                                    *)
TypeOK ==
  /\ socket \in [Sockets -> {"new", "open", "closed"}]
  /\ user \in [Sockets -> Orgs \cup {None}]
  /\ rooms \in [Sockets -> SUBSET Queues]
  /\ told \in [Sockets -> [Queues -> Answers]]
  /\ ask \in [Asks -> (Sockets \X Queues) \cup {<<>>}]
  /\ queues \subseteq Queues
  /\ \A s \in Sockets : socket[s] = "open" => user[s] \in Orgs

(* Whoever is in a room is connected and belongs to the organization of    *)
(* the queue, although the database was asked earlier.                     *)
RoomsAuthorized ==
  \A s \in Sockets : \A q \in rooms[s] : socket[s] = "open" /\ OrgOf[q] = user[s]

(* A client that subscribes and unsubscribes without waiting may end in    *)
(* the room against its last wish, but never against the last answer it    *)
(* got, 'subscribed' or 'unsubscribed'.  An 'error' alone decides nothing: *)
(* it leaves who was in the room there.                                    *)
AnswersTrue ==
  \A s \in Sockets, q \in Queues : socket[s] = "open" =>
    /\ told[s][q] = "subscribed" => q \in rooms[s]
    /\ q \in rooms[s] => told[s][q] \in {"subscribed", "error"}
=============================================================================
