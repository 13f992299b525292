------------------------------- MODULE Session -------------------------------
(***************************************************************************)
(* A browser's session: the token pairs that the API issues                *)
(* (apps/api/src/auth), the pair in localStorage, the axios interceptors   *)
(* that renew it when a call is answered 401 (apps/web/src/lib/api.ts),    *)
(* and the router, whose guard reads localStorage when the page is loaded  *)
(* and never again (App.tsx).                                              *)
(*                                                                         *)
(* A pair is [user, at]: the user it was signed for and when.  It is       *)
(* stored and removed as a whole.  The tokens are stateless: the API knows *)
(* no pair it has issued, it only verifies signature and age.  One browser *)
(* has one form, so registrations do not race here.                        *)
(***************************************************************************)
EXTENDS Integers

CONSTANTS
  Users,
  Calls,          \* requests that the pages may have under way at once
  AccessTTL,      \* expiresIn of the access token
  RefreshTTL,     \* expiresIn of the refresh token
  LastTime,       \* bound of the clock
  MaxLost,        \* bound: requests and answers that are lost
  None

Pairs == [user : Users, at : 0 .. LastTime]

ASSUME SessionAssumption ==
  /\ {AccessTTL, RefreshTTL, LastTime, MaxLost} \subseteq Nat
  /\ AccessTTL \in 1 .. RefreshTTL /\ None \notin Users \cup Pairs

VARIABLES
  clock, lost,
  accounts,       \* rows of users
  stored,         \* the pair in localStorage
  authed,         \* isAuthenticated of the loaded page
  path,           \* where its router is
  form,           \* the sign-in or registration under way
  call,           \* of each request: its phase, and the pair it carries
  leaving         \* location.href was set and the page is not yet unloaded

vars == <<clock, lost, accounts, stored, authed, path, form, call, leaving>>

Guarded == {"/", "/queue"}              \* the dashboard, and the page of a queue
Paths   == Guarded \cup {"/login"}
Idle    == [phase |-> "idle", pair |-> None]
Phases  == {"idle", "sent", "refreshing", "renewed", "resent"}

(* The answer to a login, registration or refresh: generateTokens.         *)
SlipIssue(u) == [user |-> None, at |-> clock]          \* signs a field the user does not have
Issue(u)     == [user |-> u, at |-> clock]

Younger(pair, ttl) == pair # None /\ clock < pair.at + ttl
ValidAccess(pair)  == Younger(pair, AccessTTL)

SlipRefreshable(pair) == Younger(pair, RefreshTTL) /\ pair = stored   \* each refresh token once
Refreshable(pair)     == Younger(pair, RefreshTTL) /\ pair.user \in accounts

Init ==
  /\ clock = 0 /\ lost = 0 /\ accounts = {} /\ stored = None
  /\ authed = FALSE /\ path = "/login" /\ form = None
  /\ call = [c \in Calls |-> Idle] /\ leaving = FALSE

Tick ==
  /\ clock < LastTime /\ clock' = clock + 1
  /\ UNCHANGED <<lost, accounts, stored, authed, path, form, call, leaving>>

-----------------------------------------------------------------------------
(* The page and its router.                                                *)

(* <Route path="/" element={isAuthenticated ? <Layout/> : <Navigate/>}>,   *)
(* with the page of a queue below it.                                      *)
Routed(p, guard) == IF p \in Guarded /\ ~guard THEN "/login" ELSE p

(* Loading a page drops what the one before was doing.                     *)
Load(p) ==
  /\ leaving => p = "/login"
  /\ authed' = (stored # None) /\ path' = Routed(p, authed')
  /\ form' = None /\ call' = [c \in Calls |-> Idle] /\ leaving' = FALSE
  /\ UNCHANGED <<clock, lost, accounts, stored>>

(* The browser's back button and the links between the pages; they load    *)
(* nothing.                                                                *)
Back ==
  /\ path = "/login" /\ \E p \in Guarded : path' = Routed(p, authed)
  /\ UNCHANGED <<clock, lost, accounts, stored, authed, form, call, leaving>>

Follow ==
  /\ path \in Guarded /\ path' \in Guarded
  /\ UNCHANGED <<clock, lost, accounts, stored, authed, form, call, leaving>>

Logout ==
  /\ path \in Guarded
  /\ stored' = None /\ path' = "/login"
  /\ UNCHANGED <<clock, lost, accounts, authed, form, call, leaving>>

Submit(u, kind) ==
  /\ path = "/login" /\ form = None
  /\ form' = [user |-> u, kind |-> kind]
  /\ UNCHANGED <<clock, lost, accounts, stored, authed, path, call, leaving>>

(* register refuses a known email, login an unknown one.                   *)
Admits(f) == (f.kind = "register") = (f.user \notin accounts)

SignedIn ==
  /\ form # None /\ Admits(form)
  /\ accounts' = accounts \cup {form.user}
  /\ stored' = Issue(form.user)
  /\ path' = Routed("/", authed) /\ form' = None
  /\ UNCHANGED <<clock, lost, authed, call, leaving>>

NotSignedIn ==
  /\ form # None /\ ~Admits(form) /\ form' = None
  /\ UNCHANGED <<clock, lost, accounts, stored, authed, path, call, leaving>>

FormLost ==
  /\ form # None /\ lost < MaxLost /\ lost' = lost + 1 /\ form' = None
  /\ accounts' \in {accounts} \cup (IF form.kind = "register" THEN {accounts \cup {form.user}} ELSE {})
  /\ UNCHANGED <<clock, stored, authed, path, call, leaving>>

-----------------------------------------------------------------------------
(* A request of the pages through the interceptors.                        *)

Become(c, phase, pair) == call' = [call EXCEPT ![c] = [phase |-> phase, pair |-> pair]]
Done(c) == call' = [call EXCEPT ![c] = Idle]

(* A page asks when it is opened and when the user does something.         *)
Send(c) ==
  /\ path \in Guarded /\ call[c] = Idle
  /\ Become(c, "sent", stored)
  /\ UNCHANGED <<clock, lost, accounts, stored, authed, path, form, leaving>>

(* The page of a queue asks every five seconds; the dashboard does not.    *)
Poll(c) == path = "/queue" /\ Send(c)

Answered(c) ==
  /\ call[c].phase \in {"sent", "resent"}
  /\ ValidAccess(call[c].pair) \/ call[c].phase = "resent"    \* _retry: a second 401 is final
  /\ Done(c)
  /\ UNCHANGED <<clock, lost, accounts, stored, authed, path, form, leaving>>

(* A 401: what is in localStorage by now is sent to /auth/refresh.         *)
Unauthorized(c) ==
  /\ call[c].phase = "sent" /\ ~ValidAccess(call[c].pair)
  /\ Become(c, "refreshing", stored)
  /\ UNCHANGED <<clock, lost, accounts, stored, authed, path, form, leaving>>

Refresh(c) ==
  /\ call[c].phase = "refreshing" /\ Refreshable(call[c].pair)
  /\ Become(c, "renewed", Issue(call[c].pair.user))
  /\ UNCHANGED <<clock, lost, accounts, stored, authed, path, form, leaving>>

Renewed(c) ==
  /\ call[c].phase = "renewed"
  /\ stored' = call[c].pair
  /\ Become(c, "resent", call[c].pair)
  /\ UNCHANGED <<clock, lost, accounts, authed, path, form, leaving>>

SlipLeave == UNCHANGED leaving          \* the redirect is forgotten
Leave     == leaving' = TRUE

(* The catch branch, for a refusal as for a request that got no answer.    *)
SignOut(c) ==
  /\ stored' = None /\ Done(c) /\ Leave
  /\ UNCHANGED <<clock, accounts, authed, path, form>>

RefreshRefused(c) ==
  /\ call[c].phase = "refreshing" /\ ~Refreshable(call[c].pair)
  /\ SignOut(c) /\ UNCHANGED lost

Lose == lost < MaxLost /\ lost' = lost + 1

RefreshLost(c) == call[c].phase \in {"refreshing", "renewed"} /\ Lose /\ SignOut(c)

CallLost(c) ==
  /\ call[c].phase \in {"sent", "resent"} /\ Lose /\ Done(c)
  /\ UNCHANGED <<clock, accounts, stored, authed, path, form, leaving>>

-----------------------------------------------------------------------------
CallStep(c) ==
  Answered(c) \/ Unauthorized(c) \/ Refresh(c) \/ Renewed(c) \/ RefreshRefused(c)
CallFault(c) == RefreshLost(c) \/ CallLost(c)

Next ==
  \/ Tick \/ Back \/ Follow \/ Logout \/ SignedIn \/ NotSignedIn \/ FormLost
  \/ \E p \in Paths : Load(p)
  \/ \E u \in Users, kind \in {"login", "register"} : Submit(u, kind)
  \/ \E c \in Calls : Send(c) \/ CallStep(c) \/ CallFault(c)

Spec == Init /\ [][Next]_vars

(* The page of a queue asks again, requests are answered, and a page that  *)
(* is being left is unloaded.                                              *)
Fairness ==
  /\ \A c \in Calls : WF_vars(Poll(c)) /\ WF_vars(CallStep(c))
  /\ WF_vars(leaving /\ Load("/login"))

FairSpec == Spec /\ Fairness

-----------------------------------------------------------------------------
(* Correctness.                                                            *)

(* Every variable has its type; the router shows a guarded page only to a  *)
(* page that was loaded with a token.                                      *)
TypeOK ==
  /\ clock \in 0 .. LastTime /\ lost \in 0 .. MaxLost
  /\ accounts \subseteq Users /\ stored \in Pairs \cup {None}
  /\ authed \in BOOLEAN /\ leaving \in BOOLEAN
  /\ path \in Paths /\ (path \in Guarded => authed)
  /\ form \in [user : Users, kind : {"login", "register"}] \cup {None}
  /\ call \in [Calls -> [phase : Phases, pair : Pairs \cup {None}]]

(* "WHEN a refresh token is presented and valid THE SYSTEM SHALL issue a   *)
(* new access token": requests that find the access token expired at the   *)
(* same time each present the refresh token they find, the same one or one *)
(* that another has just renewed, and whoever presents one that is not too *)
(* old is given a pair, unless the answer is lost or the page unloaded.    *)
(* The pair in localStorage is not so protected: a request whose own token *)
(* is refused removes whatever is stored by then.                          *)
RefreshHonoured ==
  [][\A c \in Calls :
       call[c].phase = "refreshing" /\ Younger(call[c].pair, RefreshTTL) =>
         \/ call'[c] = call[c]
         \/ call'[c] = [phase |-> "renewed", pair |-> [user |-> call[c].pair.user, at |-> clock]]
         \/ lost' > lost
         \/ (\A d \in Calls : call'[d] = Idle) /\ stored' = stored]_vars

(* isAuthenticated goes stale: after a logout the back button shows the    *)
(* pages again, to nobody.  The page of a queue does not stay so: a request*)
(* it makes ends that.                                                     *)
NobodyWatches ==
  path = "/queue" /\ stored = None ~> path # "/queue" \/ stored # None
=============================================================================
