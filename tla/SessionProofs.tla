---------------------------- MODULE SessionProofs ----------------------------
(***************************************************************************)
(* Proofs about Session, for any number of users and of requests under     *)
(* way, any lifetimes of the tokens and any number of lost requests.       *)
(***************************************************************************)
EXTENDS Session, TLAPS

(* Every pair that is stored or carried by a request belongs to an account *)
(* the API has, so that a refresh is refused because of its age alone; and *)
(* a renewed request carries a pair.                                       *)
Owned(pair) == pair # None => pair.user \in accounts
PairsOwned ==
  /\ Owned(stored)
  /\ \A c \in Calls : /\ Owned(call[c].pair)
                      /\ call[c].phase = "renewed" => call[c].pair # None
Inv == TypeOK /\ PairsOwned

CallType == [phase : Phases, pair : Pairs \cup {None}]

(* The rest of the types.                                                  *)
PageType ==
  /\ clock \in 0 .. LastTime /\ lost \in 0 .. MaxLost
  /\ accounts \subseteq Users
  /\ authed \in BOOLEAN /\ leaving \in BOOLEAN
  /\ path \in Paths /\ (path \in Guarded => authed)
  /\ form \in [user : Users, kind : {"login", "register"}] \cup {None}

LEMMA TypeParts ==
  TypeOK <=> PageType /\ stored \in Pairs \cup {None} /\ call \in [Calls -> CallType]
  BY DEF TypeOK, PageType, CallType

LEMMA IssueType ==
  ASSUME TypeOK, NEW u \in Users
  PROVE  Issue(u) \in Pairs /\ Issue(u).user = u /\ Issue(u) # None
  BY SessionAssumption DEF Issue, TypeOK, Pairs

LEMMA CallsType ==
  ASSUME NEW f \in [Calls -> CallType], NEW c \in Calls,
         NEW phase \in Phases, NEW pair \in Pairs \cup {None}
  PROVE  [f EXCEPT ![c] = [phase |-> phase, pair |-> pair]] \in [Calls -> CallType]
  BY DEF CallType

LEMMA InvInit == Init => Inv
  <1> SUFFICES ASSUME Init PROVE Inv
    OBVIOUS
  <1>1. Idle \in CallType /\ Idle.pair = None /\ Idle.phase = "idle"
    BY DEF Idle, CallType, Phases
  <1>2. 0 \in 0 .. LastTime /\ 0 \in 0 .. MaxLost
    BY SessionAssumption
  <1>3. PageType /\ stored \in Pairs \cup {None} /\ call \in [Calls -> CallType]
    BY <1>1, <1>2 DEF Init, PageType, Paths, Guarded
  <1>4. PairsOwned
    BY <1>1 DEF Init, PairsOwned, Owned
  <1> QED
    BY <1>3, <1>4, TypeParts DEF Inv

(* One request moves on; the pair it carries is the stored one, its own or *)
(* a renewed one.                                                          *)
LEMMA CallMoves ==
  ASSUME Inv, NEW c \in Calls, NEW phase \in Phases, NEW pair \in Pairs \cup {None},
         call' = [call EXCEPT ![c] = [phase |-> phase, pair |-> pair]],
         Owned(pair), phase = "renewed" => pair # None,
         UNCHANGED accounts, stored' \in {stored, pair, None}
  PROVE  /\ call' \in [Calls -> CallType]
         /\ stored' \in Pairs \cup {None}
         /\ PairsOwned'
  <1>1. call \in [Calls -> CallType] /\ stored \in Pairs \cup {None}
    BY DEF Inv, TypeOK, CallType
  <1>2. call' \in [Calls -> CallType]
    BY <1>1, CallsType
  <1>3. \A d \in Calls : call'[d] = IF d = c THEN [phase |-> phase, pair |-> pair] ELSE call[d]
    BY <1>1
  <1>4. \A d \in Calls : Owned(call[d].pair) /\ (call[d].phase = "renewed" => call[d].pair # None)
    BY DEF Inv, PairsOwned
  <1>5. Owned(stored) /\ Owned(None)
    BY DEF Inv, PairsOwned, Owned
  <1>6. \A x : Owned(x) => (x # None => x.user \in accounts')
    BY DEF Owned
  <1>7. ASSUME NEW d \in Calls
        PROVE  Owned(call[d].pair)' /\ (call'[d].phase = "renewed" => call'[d].pair # None)
    <2>1. CASE d = c
      BY <1>3, <2>1 DEF Owned
    <2>2. CASE d # c
      BY <1>3, <1>4, <2>2 DEF Owned
    <2> QED
      BY <2>1, <2>2
  <1>8. Owned(stored)'
    BY <1>5 DEF Owned
  <1> QED
    BY <1>1, <1>2, <1>7, <1>8 DEF PairsOwned, CallType

LEMMA PageStep ==
  ASSUME TypeOK, [Next]_vars
  PROVE  PageType'
  <1>0. PageType /\ {LastTime, MaxLost} \subseteq Nat
    BY TypeParts, SessionAssumption
  <1>r. /\ \A p \in Paths, guard \in BOOLEAN :
             Routed(p, guard) \in Paths /\ (Routed(p, guard) \in Guarded => guard)
        /\ Guarded \subseteq Paths /\ "/" \in Guarded /\ "/login" \in Paths \ Guarded
    BY DEF Routed, Paths, Guarded
  <1>1. CASE Tick \/ Back \/ Follow \/ Logout \/ NotSignedIn
    BY <1>0, <1>1, <1>r DEF PageType, Tick, Back, Follow, Logout, NotSignedIn
  <1>2. CASE SignedIn
    <2>1. form.user \in Users
      BY <1>0, <1>2 DEF PageType, SignedIn
    <2> QED
      BY <1>0, <1>2, <1>r, <2>1 DEF PageType, SignedIn
  <1>3. CASE FormLost
    <2>1. form.user \in Users
      BY <1>0, <1>3 DEF PageType, FormLost
    <2>2. accounts' \subseteq Users
      BY <1>0, <1>3, <2>1 DEF PageType, FormLost
    <2> QED
      BY <1>0, <1>3, <2>2 DEF PageType, FormLost
  <1>4. ASSUME NEW p \in Paths, Load(p) PROVE PageType'
    <2>1. authed' \in BOOLEAN /\ path' \in Paths /\ (path' \in Guarded => authed')
      BY <1>4, <1>r DEF Load
    <2> QED
      BY <1>0, <1>4, <2>1 DEF PageType, Load
  <1>5. ASSUME NEW u \in Users, NEW kind \in {"login", "register"}, Submit(u, kind)
        PROVE  PageType'
    BY <1>0, <1>5 DEF PageType, Submit
  <1>6. ASSUME NEW c \in Calls, Send(c) \/ CallStep(c) PROVE PageType'
    BY <1>0, <1>6
    DEF PageType, Send, CallStep, Answered, Unauthorized, Refresh, Renewed, RefreshRefused, SignOut,
        Leave
  <1>7. ASSUME NEW c \in Calls, CallFault(c) PROVE PageType'
    <2>1. lost < MaxLost /\ lost' = lost + 1 /\ UNCHANGED <<clock, accounts, authed, path, form>>
          /\ leaving' \in {leaving, TRUE}
      BY <1>7 DEF CallFault, RefreshLost, CallLost, Lose, SignOut, Leave
    <2>2. MaxLost \in Nat /\ lost \in 0 .. MaxLost
      BY <1>0 DEF PageType
    <2>3. lost' \in 0 .. MaxLost
      BY <2>1, <2>2
    <2> QED
      BY <1>0, <2>1, <2>3 DEF PageType
  <1>8. CASE UNCHANGED vars
    BY <1>0, <1>8 DEF PageType, vars
  <1> QED
    BY <1>1, <1>2, <1>3, <1>4, <1>5, <1>6, <1>7, <1>8 DEF Next

SessionInv ==
  stored \in Pairs \cup {None} /\ call \in [Calls -> CallType] /\ PairsOwned

(* No request moves; accounts are only added.                              *)
LEMMA CallsStay ==
  ASSUME SessionInv, UNCHANGED call, accounts \subseteq accounts',
         stored' \in Pairs \cup {None}, stored' # None => stored'.user \in accounts'
  PROVE  SessionInv'
  <1>1. \A c \in Calls : call'[c] = call[c]
    OBVIOUS
  <1>2. \A c \in Calls : /\ call[c].pair # None => call[c].pair.user \in accounts
                         /\ call[c].phase = "renewed" => call[c].pair # None
    BY DEF SessionInv, PairsOwned, Owned
  <1>3. PairsOwned'
    BY <1>1, <1>2 DEF PairsOwned, Owned
  <1> QED
    BY <1>3 DEF SessionInv

LEMMA NextInv == Inv /\ [Next]_vars => Inv'
  <1> SUFFICES ASSUME Inv, [Next]_vars PROVE Inv'
    OBVIOUS
  <1>0. /\ SessionInv /\ PageType
        /\ \A c \in Calls : call[c].pair \in Pairs \cup {None} /\ Owned(call[c].pair)
        /\ Owned(stored) /\ Owned(None)
    BY TypeParts DEF SessionInv, Inv, PairsOwned, CallType, Owned
  <1>i. Idle = [phase |-> "idle", pair |-> None] /\ "idle" \in Phases
    BY DEF Idle, Phases
  <1>1. ASSUME UNCHANGED <<stored, call>>, accounts \subseteq accounts' PROVE SessionInv'
    BY <1>0, <1>1, CallsStay DEF SessionInv, Owned
  <1>2. ASSUME Tick \/ Back \/ Follow \/ NotSignedIn \/ FormLost
               \/ \E u \in Users, kind \in {"login", "register"} : Submit(u, kind)
        PROVE  SessionInv'
    <2>1. UNCHANGED <<stored, call>> /\ accounts \subseteq accounts'
      BY <1>2 DEF Tick, Back, Follow, NotSignedIn, FormLost, Submit
    <2> QED
      BY <1>1, <2>1
  <1>3. ASSUME Logout PROVE SessionInv'
    BY <1>0, <1>3, CallsStay DEF Logout
  <1>4. ASSUME SignedIn PROVE SessionInv'
    <2>1. form.user \in Users
      BY <1>0, <1>4 DEF PageType, SignedIn
    <2>2. stored' \in Pairs /\ stored'.user = form.user
      BY <1>4, <2>1, IssueType DEF SignedIn, Inv
    <2>3. accounts' = accounts \cup {form.user} /\ call' = call
      BY <1>4 DEF SignedIn
    <2> QED
      BY <1>0, <2>2, <2>3, CallsStay
  <1>5. ASSUME NEW p \in Paths, Load(p) PROVE SessionInv'
    <2>1. call' = [c \in Calls |-> Idle] /\ UNCHANGED <<stored, accounts>>
      BY <1>5 DEF Load
    <2>2. Idle \in CallType /\ Idle.pair = None /\ Idle.phase = "idle"
      BY DEF Idle, CallType, Phases
    <2> QED
      BY <1>0, <2>1, <2>2 DEF SessionInv, PairsOwned, Owned
  <1>6. ASSUME NEW c \in Calls, Send(c) \/ CallStep(c) \/ CallFault(c) PROVE SessionInv'
    <2>1. CASE Send(c) \/ Unauthorized(c)
      <3>1. PICK phase \in {"sent", "refreshing"} :
              call' = [call EXCEPT ![c] = [phase |-> phase, pair |-> stored]]
        BY <2>1 DEF Send, Unauthorized, Become
      <3>2. UNCHANGED <<stored, accounts>> /\ phase \in Phases /\ phase # "renewed"
        BY <2>1 DEF Send, Unauthorized, Phases
      <3> QED
        BY <1>0, <3>1, <3>2, CallMoves DEF SessionInv
    <2>2. CASE Answered(c) \/ CallLost(c)
      <3>1. call' = [call EXCEPT ![c] = [phase |-> "idle", pair |-> None]]
            /\ UNCHANGED <<stored, accounts>>
        BY <1>i, <2>2 DEF Answered, CallLost, Done
      <3> QED
        BY <1>0, <1>i, <3>1, CallMoves DEF SessionInv
    <2>3. CASE Refresh(c)
      <3>1. call[c].pair # None /\ call[c].pair.user \in accounts
        BY <2>3 DEF Refresh, Refreshable, Younger
      <3>2. accounts \subseteq Users
        BY <1>0 DEF PageType
      <3> DEFINE fresh == Issue(call[c].pair.user)
      <3>3. fresh \in Pairs /\ fresh # None /\ Owned(fresh)
        BY <3>1, <3>2, IssueType DEF Inv, Owned
      <3>4. call' = [call EXCEPT ![c] = [phase |-> "renewed", pair |-> fresh]]
            /\ UNCHANGED <<stored, accounts>>
        BY <2>3 DEF Refresh, Become
      <3> HIDE DEF fresh
      <3> QED
        BY <3>3, <3>4, CallMoves DEF SessionInv, Phases
    <2>4. CASE Renewed(c)
      <3>1. call' = [call EXCEPT ![c] = [phase |-> "resent", pair |-> call[c].pair]]
            /\ stored' = call[c].pair /\ UNCHANGED accounts
        BY <2>4 DEF Renewed, Become
      <3> DEFINE own == call[c].pair
      <3>2. own \in Pairs \cup {None} /\ Owned(own)
        BY <1>0
      <3> HIDE DEF own
      <3> QED
        BY <3>1, <3>2, CallMoves DEF SessionInv, Phases, own
    <2>5. CASE RefreshRefused(c) \/ RefreshLost(c)
      <3>1. call' = [call EXCEPT ![c] = [phase |-> "idle", pair |-> None]]
            /\ stored' = None /\ UNCHANGED accounts
        BY <1>i, <2>5 DEF RefreshRefused, RefreshLost, SignOut, Done
      <3> QED
        BY <1>0, <1>i, <3>1, CallMoves DEF SessionInv
    <2> QED
      BY <1>6, <2>1, <2>2, <2>3, <2>4, <2>5 DEF CallStep, CallFault
  <1>7. ASSUME UNCHANGED vars PROVE SessionInv'
    <2>1. UNCHANGED <<stored, call>> /\ accounts \subseteq accounts'
      BY <1>7 DEF vars
    <2> QED
      BY <1>1, <2>1
  <1>8. SessionInv'
    BY <1>2, <1>3, <1>4, <1>5, <1>6, <1>7 DEF Next
  <1>9. PageType'
    BY PageStep DEF Inv
  <1>10. TypeOK'
    BY <1>8, <1>9 DEF SessionInv, TypeOK, PageType, CallType
  <1> QED
    BY <1>8, <1>10 DEF SessionInv, Inv

(* Every pair in the browser belongs to an account of the API.             *)
THEOREM Invariance == Spec => []Inv
  BY InvInit, NextInv, PTL DEF Spec

(* Every variable keeps its type.                                          *)
THEOREM TypeCorrect == Spec => []TypeOK
  <1>1. Inv => TypeOK
    BY DEF Inv
  <1> QED
    BY <1>1, Invariance, PTL

(* "WHEN a refresh token is presented and valid THE SYSTEM SHALL issue a   *)
(* new access token": however many requests find the access token expired  *)
(* together and present the same refresh token, one after another, before  *)
(* or after another has renewed it, none is refused but for its own age.   *)
THEOREM RacesKeepSession == Spec => RefreshHonoured
  <1> DEFINE Outcome(c) ==
               \/ call'[c] = call[c]
               \/ call'[c] = [phase |-> "renewed", pair |-> [user |-> call[c].pair.user, at |-> clock]]
               \/ lost' > lost
               \/ (\A d \in Calls : call'[d] = Idle) /\ stored' = stored
  <1>1. ASSUME Inv, [Next]_vars, NEW c \in Calls,
               call[c].phase = "refreshing", Younger(call[c].pair, RefreshTTL)
        PROVE  Outcome(c)
    <2>0. /\ call = [d \in Calls |-> call[d]] /\ call[c].pair.user \in accounts
          /\ lost \in Nat
      BY <1>1, SessionAssumption DEF Inv, TypeOK, PairsOwned, Owned, Younger
    <2>1. ASSUME UNCHANGED call PROVE Outcome(c)
      BY <2>1
    <2>2. CASE \/ Tick \/ Back \/ Follow \/ Logout \/ SignedIn \/ NotSignedIn \/ FormLost
               \/ \E u \in Users, kind \in {"login", "register"} : Submit(u, kind)
      BY <2>1, <2>2 DEF Tick, Back, Follow, Logout, SignedIn, NotSignedIn, FormLost, Submit
    <2>3. ASSUME NEW p \in Paths, Load(p) PROVE Outcome(c)
      BY <2>3 DEF Load
    <2>4. ASSUME NEW d \in Calls, d # c, Send(d) \/ CallStep(d) \/ CallFault(d) PROVE Outcome(c)
      <3>1. call'[c] = call[c]
        BY <2>0, <2>4
        DEF Send, CallStep, Answered, Unauthorized, Refresh, Renewed, RefreshRefused, SignOut,
            CallFault, RefreshLost, CallLost, Become, Done
      <3> QED
        BY <3>1
    <2>5. CASE Send(c) \/ Answered(c) \/ Unauthorized(c) \/ Renewed(c) \/ CallLost(c)
      BY <1>1, <2>5 DEF Send, Answered, Unauthorized, Renewed, CallLost, Idle
    <2>6. CASE Refresh(c)
      BY <2>0, <2>6 DEF Refresh, Become, Issue
    <2>7. CASE RefreshRefused(c)
      BY <1>1, <2>0, <2>7 DEF RefreshRefused, Refreshable
    <2>8. CASE RefreshLost(c)
      BY <2>0, <2>8 DEF RefreshLost, Lose
    <2>9. CASE UNCHANGED vars
      BY <2>1, <2>9 DEF vars
    <2> HIDE DEF Outcome
    <2> QED
      BY <1>1, <2>2, <2>3, <2>4, <2>5, <2>6, <2>7, <2>8, <2>9 DEF Next, CallStep, CallFault
  <1>2. Inv /\ [Next]_vars =>
          [\A c \in Calls :
             call[c].phase = "refreshing" /\ Younger(call[c].pair, RefreshTTL) => Outcome(c)]_vars
    BY <1>1
  <1> QED
    BY <1>2, Invariance, PTL DEF Spec, RefreshHonoured
=============================================================================
