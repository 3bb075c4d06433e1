-------------------------- MODULE RequestPipelineProofs --------------------------
(***************************************************************************)
(* What RequestPipeline says of decisions, limits, confirmed writes and    *)
(* logged statuses, for any users, tokens, limits and requests.  The       *)
(* argument: the guards read one row at one moment, between the arrival    *)
(* of the request and its handler, and the tracker of the limiter is the   *)
(* user that the token of a protected route is of.                         *)
(***************************************************************************)
EXTENDS RequestPipeline, FiniteSetTheorems, TLAPS

-----------------------------------------------------------------------------
(* The routes. *)

Errors == {Http(400), Http(401), Http(404), Http(409), Http(502), Tagged(502), Tagged(504), Plain}

AuthPaths == {"/auth/github", "/auth/github/callback", "/auth/refresh", "/auth/logout", "/auth/whoami"}
OtherPaths == {"/", "/health", "/api/users/me", "/api/users", "/api/users/:githubId",
    "/api/profiles", "/api/profiles/search", "/api/profiles/export", "/api/profiles/import",
    "/api/profiles/:id", "/api/classify"}

\* An entry of a table of routes with paths in P, as the filter and the limiter
\* see it.
Fits(entry, P) ==
    entry.path \in P /\ entry.ok \subseteq {200, 201, 204, 302} /\ entry.throws \subseteq Errors

LEMMA AuthRoutesFit == \A n \in DOMAIN AuthRoutes : Fits(AuthRoutes[n], AuthPaths)
BY DEF AuthRoutes, Entry, Fits, AuthPaths, Errors

LEMMA AppRoutesFit == \A n \in DOMAIN AppRoutes : Fits(AppRoutes[n], OtherPaths)
BY DEF AppRoutes, Entry, Fits, OtherPaths, Errors

LEMMA UserRoutesFit == \A n \in DOMAIN UserRoutes : Fits(UserRoutes[n], OtherPaths)
BY DEF UserRoutes, Entry, Fits, OtherPaths, Errors

LEMMA ProfileRoutesFit == \A n \in DOMAIN ProfileRoutes : Fits(ProfileRoutes[n], OtherPaths)
BY DEF ProfileRoutes, Entry, Fits, OtherPaths, Errors

LEMMA ClassificationRoutesFit ==
    \A n \in DOMAIN ClassificationRoutes : Fits(ClassificationRoutes[n], OtherPaths)
BY DEF ClassificationRoutes, Entry, Fits, OtherPaths, Errors

\* Each route is in one table.
LEMMA TablesAreApart ==
    /\ DOMAIN AuthRoutes = {"githubLogin", "githubCallback", "refresh", "logout", "whoami"}
    /\ DOMAIN AppRoutes = {"getHello", "getHealth"}
    /\ DOMAIN UserRoutes = {"me", "createUser", "findUser"}
    /\ DOMAIN ProfileRoutes = {"create", "findAll", "search", "exportCsv", "importCsv",
                               "findById", "remove"}
BY DEF AuthRoutes, AppRoutes, UserRoutes, ProfileRoutes, Entry

LEMMA RoutesFit ==
    \A n \in RouteNames :
        Fits(Route[n], IF n \in DOMAIN AuthRoutes THEN AuthPaths ELSE OtherPaths)
<1> SUFFICES ASSUME NEW n \in RouteNames
             PROVE  Fits(Route[n], IF n \in DOMAIN AuthRoutes THEN AuthPaths ELSE OtherPaths)
  OBVIOUS
<1>1. Route[n] = CASE n \in DOMAIN AuthRoutes -> AuthRoutes[n]
                   [] n \in DOMAIN AppRoutes -> AppRoutes[n]
                   [] n \in DOMAIN UserRoutes -> UserRoutes[n]
                   [] n \in DOMAIN ProfileRoutes -> ProfileRoutes[n]
                   [] OTHER -> ClassificationRoutes[n]
  BY DEF Route
<1>2. CASE n \in DOMAIN AuthRoutes
  <2>1. n \notin DOMAIN AppRoutes \cup DOMAIN UserRoutes \cup DOMAIN ProfileRoutes
    BY <1>2, TablesAreApart
  <2>2. Route[n] = AuthRoutes[n]
    BY <1>1, <1>2, <2>1
  <2> QED
    BY <1>2, <2>2, AuthRoutesFit
<1>3. CASE n \notin DOMAIN AuthRoutes /\ n \in DOMAIN AppRoutes
  <2>1. n \notin DOMAIN UserRoutes \cup DOMAIN ProfileRoutes
    BY <1>3, TablesAreApart
  <2>2. Route[n] = AppRoutes[n]
    BY <1>1, <1>3, <2>1
  <2> QED
    BY <1>3, <2>2, AppRoutesFit
<1>4. CASE n \notin DOMAIN AuthRoutes \cup DOMAIN AppRoutes /\ n \in DOMAIN UserRoutes
  BY <1>1, <1>4, UserRoutesFit, TablesAreApart
<1>5. CASE /\ n \notin DOMAIN AuthRoutes \cup DOMAIN AppRoutes \cup DOMAIN UserRoutes
           /\ n \in DOMAIN ProfileRoutes
  BY <1>1, <1>5, ProfileRoutesFit, TablesAreApart
<1>6. CASE n \notin DOMAIN AuthRoutes \cup DOMAIN AppRoutes \cup DOMAIN UserRoutes
                 \cup DOMAIN ProfileRoutes
  <2>1. n \in DOMAIN ClassificationRoutes
    BY <1>6 DEF RouteNames
  <2>2. Route[n] = ClassificationRoutes[n]
    BY <1>1, <1>6
  <2> QED
    BY <1>6, <2>1, <2>2, ClassificationRoutesFit
<1> QED
  BY <1>2, <1>3, <1>4, <1>5, <1>6

\* The throttler of a request is one of its path: no path has two.
LEMMA PathHasOneThrottler ==
    ASSUME NEW m \in RouteNames, NEW n \in RouteNames, Route[m].path = Route[n].path
    PROVE  throttlerOf(m) = throttlerOf(n)
BY RoutesFit DEF Fits, AuthPaths, OtherPaths, throttlerOf

-----------------------------------------------------------------------------
(* The filter and the interceptor. *)

\* For every error of a handler, filter and interceptor find one status.
LEMMA ErrorFacts ==
    ASSUME NEW e \in Errors
    PROVE  /\ filterStatus(e) = interceptorStatus(e)
           /\ filterStatus(e) \in Status \ {403}
BY ConstantsAssumption DEF Errors, Http, Tagged, Plain, filterStatus, interceptorStatus, Status

LEMMA RefusalFacts ==
    \A s \in Status : filterStatus(Http(s)) = s
BY DEF filterStatus, Http

LEMMA ExceptionFacts ==
    ASSUME NEW failed
    PROVE  /\ filterStatus(exceptionFactory(failed)) = interceptorStatus(exceptionFactory(failed))
           /\ filterStatus(exceptionFactory(failed)) \in {400, 422}
BY ConstantsAssumption DEF exceptionFactory, Http, filterStatus, interceptorStatus, Status

\* A request is answered with s and its lines tell it.
Answered(r, s) ==
    /\ s \in Status
    /\ pc' = [pc EXCEPT ![r] = "done"] /\ answer' = [answer EXCEPT ![r] = s]
    /\ lines' \in [Request -> Seq(Status)]
    /\ Tells(lines'[r], wire'[r].route, s)
    /\ \A q \in Request \ {r} : lines'[q] = lines[q]

\* Finish with lines that tell the status.
LEMMA TellingFacts ==
    ASSUME TypeOK, NEW r \in Request, NEW s \in Status, NEW logged \in Seq(Status),
           Tells(logged, wire'[r].route, s), Finish(r, s, logged)
    PROVE  Answered(r, s)
<1>1. lines' = [lines EXCEPT ![r] = logged]
  BY DEF Finish
<1>2. lines'[r] = logged /\ lines' \in [Request -> Seq(Status)]
      /\ \A q \in Request \ {r} : lines'[q] = lines[q]
  BY <1>1 DEF TypeOK
<1> QED
  BY <1>2 DEF Finish, Answered

\* Of one line, of two, of three.
LEMMA OneLine == ASSUME NEW s \in Status
                 PROVE  <<s>> \in Seq(Status) /\ DOMAIN <<s>> = 1 .. 1 /\ <<s>>[1] = s
<1>1. Len(<<s>>) = 1 /\ <<s>> \in Seq(Status) /\ <<s>>[1] = s
  OBVIOUS
<1> QED
  BY <1>1

LEMMA TwoLines ==
    ASSUME NEW s \in Status, NEW u \in Status
    PROVE  <<s, u>> \in Seq(Status) /\ DOMAIN <<s, u>> = 1 .. 2 /\ <<s, u>>[1] = s /\ <<s, u>>[2] = u
<1>1. Len(<<s, u>>) = 2 /\ <<s, u>> \in Seq(Status) /\ <<s, u>>[1] = s /\ <<s, u>>[2] = u
  OBVIOUS
<1> QED
  BY <1>1

LEMMA ThreeLines ==
    ASSUME NEW s \in Status, NEW u \in Status
    PROVE  /\ <<s, u, u>> \in Seq(Status) /\ DOMAIN <<s, u, u>> = 1 .. 3
           /\ <<s, u, u>>[1] = s /\ <<s, u, u>>[2] = u /\ <<s, u, u>>[3] = u
<1>1. Len(<<s, u, u>>) = 3 /\ <<s, u, u>> \in Seq(Status)
      /\ <<s, u, u>>[1] = s /\ <<s, u, u>>[2] = u /\ <<s, u, u>>[3] = u
  OBVIOUS
<1> QED
  BY <1>1

\* Finish with one line, or with two that agree.
LEMMA FinishFacts ==
    ASSUME TypeOK, NEW r \in Request, NEW s \in Status, NEW logged \in {<<s>>, <<s, s>>},
           Finish(r, s, logged)
    PROVE  Answered(r, s)
<1>1. logged \in Seq(Status) /\ DOMAIN logged # {} /\ \A i \in DOMAIN logged : logged[i] = s
  <2>1. CASE logged = <<s>>
    BY <2>1, OneLine
  <2>2. CASE logged = <<s, s>>
    BY <2>2, TwoLines
  <2> QED
    BY <2>1, <2>2
<1>2. Tells(logged, wire'[r].route, s)
  BY <1>1 DEF Tells
<1> QED
  BY <1>1, <1>2, TellingFacts

\* What a handler that succeeds sends, and what is logged of it.
LEMMA SucceedFacts ==
    ASSUME TypeOK, NEW r \in Request, wire' = wire, Succeed(r),
           Route[wire[r].route].ok \subseteq {200, 201, 204, 302}
    PROVE  \E s \in Status \ {403} : Answered(r, s)
<1> DEFINE n == wire[r].route
<1>1. PICK ok \in Route[n].ok : \E status \in sends(n, ok) :
           IF n = "githubCallback" /\ ok = 200
             THEN \E logged \in {<<status, 500>>, <<status, 500, 500>>} : Finish(r, status, logged)
             ELSE Finish(r, status, <<ok>>)
  BY DEF Succeed
<1>2. PICK status \in sends(n, ok) :
           IF n = "githubCallback" /\ ok = 200
             THEN \E logged \in {<<status, 500>>, <<status, 500, 500>>} : Finish(r, status, logged)
             ELSE Finish(r, status, <<ok>>)
  BY <1>1
<1>3. ok \in Status \ {403} /\ 500 \in Status
  BY <1>1 DEF Status
<1>4. (status = ok \/ (ok = 200 /\ status = 304)) /\ status \in Status \ {403}
  BY <1>2, <1>3 DEF sends, Status
<1>5. CASE n = "githubCallback" /\ ok = 200
  <2>1. PICK logged \in {<<status, 500>>, <<status, 500, 500>>} : Finish(r, status, logged)
    BY <1>2, <1>5
  <2>2. status \in {200, 304}
    BY <1>4, <1>5
  <2>3. logged \in Seq(Status) /\ Tells(logged, n, status)
    <3>1. CASE logged = <<status, 500>>
      BY <1>3, <1>4, <1>5, <2>2, <3>1, TwoLines DEF Tells
    <3>2. CASE logged = <<status, 500, 500>>
      BY <1>3, <1>4, <1>5, <2>2, <3>2, ThreeLines DEF Tells
    <3> QED
      BY <2>1, <3>1, <3>2
  <2> QED
    BY <1>4, <2>1, <2>3, TellingFacts
<1>6. CASE ~(n = "githubCallback" /\ ok = 200)
  <2>1. Finish(r, status, <<ok>>)
    BY <1>2, <1>6
  <2>2. <<ok>> \in Seq(Status) /\ DOMAIN <<ok>> = 1 .. 1 /\ <<ok>>[1] = ok
    BY <1>3, OneLine
  <2>3. Tells(<<ok>>, n, status)
    BY <1>4, <2>2 DEF Tells
  <2> QED
    BY <1>4, <2>1, <2>2, <2>3, TellingFacts
<1> QED
  BY <1>5, <1>6

LEMMA RefuseFacts ==
    ASSUME TypeOK, NEW r \in Request, NEW s \in Status, Refuse(r, Http(s))
    PROVE  Answered(r, s)
<1>1. Finish(r, s, <<s>>)
  BY RefusalFacts DEF Refuse
<1> QED
  BY <1>1, FinishFacts

\* Redis or the database fails in a guard.
LEMMA RefusePlainFacts ==
    ASSUME TypeOK, NEW r \in Request, Refuse(r, Plain)
    PROVE  Answered(r, 500)
<1>1. filterStatus(Plain) = 500 /\ 500 \in Status
  BY DEF filterStatus, Plain, Status
<1> DEFINE s == 500
<1>2. s \in Status /\ Finish(r, s, <<s>>)
  BY <1>1 DEF Refuse
<1> HIDE DEF s
<1>3. Answered(r, s)
  BY <1>2, FinishFacts
<1> QED
  BY <1>3 DEF s

\* The handler's outcome, whatever it is, and never 403.
LEMMA HandleFacts ==
    ASSUME TypeOK, NEW r \in Request, Handle(r)
    PROVE  \E s \in Status \ {403} : Answered(r, s)
<1> DEFINE entry == Route[wire[r].route]
           failed == Violations(entry.dto, wire[r].defect)
<1>1. wire[r].route \in RouteNames
  BY ConstantsAssumption DEF TypeOK, Handle, WireType
<1>2. entry.ok \subseteq {200, 201, 204, 302} /\ entry.throws \subseteq Errors
  BY <1>1, RoutesFit DEF Fits, Status
<1>3. CASE failed # {}
  <2> DEFINE s == filterStatus(exceptionFactory(failed))
  <2>1. s \in Status \ {403} /\ interceptorStatus(exceptionFactory(failed)) = s
    BY ExceptionFacts DEF Status
  <2>2. Finish(r, s, <<s, s>>)
    BY <1>3, <2>1 DEF Handle, Throw
  <2> QED
    BY <2>1, <2>2, FinishFacts
<1>4. CASE failed = {} /\ Succeed(r)
  <2>1. wire' = wire
    BY DEF Handle
  <2> QED
    BY <1>2, <1>4, <2>1, SucceedFacts
<1>5. ASSUME NEW e \in entry.throws, Throw(r, e) PROVE \E s \in Status \ {403} : Answered(r, s)
  <2> DEFINE s == filterStatus(e)
  <2>1. s \in Status \ {403} /\ interceptorStatus(e) = s
    BY <1>2, ErrorFacts
  <2>2. Finish(r, s, <<s, s>>)
    BY <1>5, <2>1 DEF Throw
  <2> QED
    BY <2>1, <2>2, FinishFacts
<1> QED
  BY <1>3, <1>4, <1>5 DEF Handle

-----------------------------------------------------------------------------
(* Types. *)

\* What a request carries is read off a request of its type.
LEMMA WireFacts ==
    ASSUME NEW w \in Wire
    PROVE  /\ w.route \in RouteNames /\ keyOf(w) \in Key
           /\ keyOf(w)[2] = throttlerOf(w.route) /\ throttlerOf(w.route) \in {"auth", "api"}
           /\ jwtFromRequest(w) \in Token =>
                /\ Acting(w) \in User
                /\ keyOf(w) = <<Acting(w), throttlerOf(w.route), Route[w.route].path>>
<1>1. /\ w.route \in RouteNames /\ w.bearer \in Token \cup {GARBAGE}
      /\ w.cookie \in Token \cup {GARBAGE, NONE}
  BY ConstantsAssumption DEF WireType
<1>2. throttlerOf(w.route) \in {"auth", "api"}
  BY DEF throttlerOf
<1>3. getTracker(w) \in Tracker
  BY ConstantsAssumption DEF getTracker, Tracker
<1>4. keyOf(w) = <<getTracker(w), throttlerOf(w.route), Route[w.route].path>>
  BY DEF keyOf
<1>5. ASSUME jwtFromRequest(w) \in Token PROVE Acting(w) \in User /\ getTracker(w) = Acting(w)
  BY <1>1, <1>5, ConstantsAssumption DEF jwtFromRequest, Acting, getTracker
<1> QED
  BY <1>1, <1>2, <1>3, <1>4, <1>5 DEF Key

LEMMA InitTypeOK == Init => TypeOK
BY ConstantsAssumption DEF Init, TypeOK

\* An answered request keeps the types of progress.
LEMMA AnsweredTypes ==
    ASSUME TypeOK, NEW r \in Request, NEW s, Answered(r, s), wire' \in [Request -> Wire \cup {NONE}],
           wire'[r] \in Wire, \A q \in Request \ {r} : wire'[q] = wire[q]
    PROVE  /\ pc' \in [Request -> {"idle", "throttle", "load", "handle", "done"}]
           /\ answer' \in [Request -> Status \cup {NONE}] /\ lines' \in [Request -> Seq(Status)]
           /\ \A q \in Request : pc'[q] # "idle" => wire'[q] \in Wire
           /\ \A q \in Request : pc'[q] = "done" <=> answer'[q] # NONE
BY ConstantsAssumption DEF TypeOK, Answered

LEMMA GotoTypes ==
    ASSUME TypeOK, NEW r \in Request, NEW l \in {"throttle", "load", "handle"}, Goto(r, l),
           pc[r] # "done", wire' \in [Request -> Wire \cup {NONE}],
           wire'[r] \in Wire, \A q \in Request \ {r} : wire'[q] = wire[q]
    PROVE  /\ pc' \in [Request -> {"idle", "throttle", "load", "handle", "done"}]
           /\ answer' \in [Request -> Status \cup {NONE}] /\ lines' \in [Request -> Seq(Status)]
           /\ \A q \in Request : pc'[q] # "idle" => wire'[q] \in Wire
           /\ \A q \in Request : pc'[q] = "done" <=> answer'[q] # NONE
BY DEF TypeOK, Goto

\* A guard's step on r either lets it go on or answers it.
Moves(r) ==
    \/ \E l \in {"throttle", "load", "handle"} : Goto(r, l)
    \/ \E s \in Status : Answered(r, s)

LEMMA StepsMove ==
    ASSUME TypeOK, NEW r \in Request,
           \/ \E w \in Wire : Receive(r, w)
           \/ Throttle(r) \/ ThrottleFails(r) \/ Load(r) \/ LoadFails(r) \/ Handle(r)
    PROVE  Moves(r) /\ pc[r] # "done"
<1> DEFINE codes == {400, 401, 403, 429, 500}
<1>1. \A s \in codes : s \in Status
  BY DEF Status
<1>2. \A s \in codes : Refuse(r, Http(s)) => Answered(r, s)
  BY <1>1, RefuseFacts
<1>3. Refuse(r, Plain) => Answered(r, 500)
  BY RefusePlainFacts
<1>4. \A s \in codes : Refuse(r, Http(s)) => Moves(r)
  BY <1>1, <1>2 DEF Moves
<1>5. Refuse(r, Plain) => Moves(r)
  BY <1>1, <1>3 DEF Moves
<1>6. \A l \in {"throttle", "load", "handle"} : Goto(r, l) => Moves(r)
  BY DEF Moves
<1> HIDE DEF codes
<1>7. {400, 401, 403, 429, 500} \subseteq codes
  BY DEF codes
<1>8. ASSUME NEW w \in Wire, Receive(r, w) PROVE Moves(r) /\ pc[r] # "done"
  BY <1>4, <1>6, <1>7, <1>8 DEF Receive
<1>9. ASSUME Throttle(r) PROVE Moves(r) /\ pc[r] # "done"
  BY <1>4, <1>6, <1>7, <1>9 DEF Throttle
<1>10. ASSUME ThrottleFails(r) PROVE Moves(r) /\ pc[r] # "done"
  BY <1>4, <1>5, <1>7, <1>10 DEF ThrottleFails
<1>11. ASSUME Load(r) PROVE Moves(r) /\ pc[r] # "done"
  BY <1>4, <1>6, <1>7, <1>11 DEF Load
<1>12. ASSUME LoadFails(r) PROVE Moves(r) /\ pc[r] # "done"
  BY <1>5, <1>12 DEF LoadFails
<1>13. ASSUME Handle(r) PROVE Moves(r) /\ pc[r] # "done"
  BY <1>13, HandleFacts DEF Handle, Moves
<1> QED
  BY <1>8, <1>9, <1>10, <1>11, <1>12, <1>13

\* No step takes the state out of its types.
LEMMA NextTypeOK == TypeOK /\ [Next]_vars => TypeOK'
<1> SUFFICES ASSUME TypeOK, [Next]_vars PROVE TypeOK'
  OBVIOUS
<1> USE DEF world, history
<1> DEFINE Progress ==
        /\ pc \in [Request -> {"idle", "throttle", "load", "handle", "done"}]
        /\ answer \in [Request -> Status \cup {NONE}] /\ lines \in [Request -> Seq(Status)]
        /\ \A q \in Request : pc[q] # "idle" => wire[q] \in Wire
        /\ \A q \in Request : pc[q] = "done" <=> answer[q] # NONE
<1>1. CASE UNCHANGED vars
  BY <1>1 DEF vars, TypeOK
<1>2. ASSUME NEW r \in Request, Moves(r), pc[r] # "done",
             wire' \in [Request -> Wire \cup {NONE}], wire'[r] \in Wire,
             \A q \in Request \ {r} : wire'[q] = wire[q]
      PROVE  Progress'
  <2>1. ASSUME NEW l \in {"throttle", "load", "handle"}, Goto(r, l) PROVE Progress'
    BY <1>2, <2>1, GotoTypes
  <2>2. ASSUME NEW s \in Status, Answered(r, s) PROVE Progress'
    BY <1>2, <2>2, AnsweredTypes
  <2> QED
    BY <1>2, <2>1, <2>2 DEF Moves
<1>3. ASSUME NEW r \in Request, NEW w \in Wire, Receive(r, w) PROVE TypeOK'
  <2>1. wire' = [wire EXCEPT ![r] = w] /\ UNCHANGED <<world, counted, ran>>
    BY <1>3 DEF Receive
  <2>2. Progress'
    BY <1>2, <1>3, <2>1, StepsMove DEF TypeOK
  <2>3. entitled' \subseteq Request /\ barred' \subseteq Request /\ late' \subseteq Request
    BY <1>3 DEF Receive, TypeOK
  <2> QED
    BY <2>1, <2>2, <2>3 DEF TypeOK
<1>4. ASSUME NEW r \in Request,
             Throttle(r) \/ ThrottleFails(r) \/ Load(r) \/ LoadFails(r) \/ Handle(r)
      PROVE  TypeOK'
  <2>1. /\ UNCHANGED <<world, wire, entitled, barred, late>> /\ pc[r] # "idle"
        /\ ran' \in {ran, ran \cup {r}}
    BY <1>4 DEF Throttle, ThrottleFails, Load, LoadFails, Handle
  <2>2. Progress'
    BY <1>2, <1>4, <2>1, StepsMove DEF TypeOK
  <2>3. keyOf(wire[r]) \in Key
    BY <2>1, WireFacts DEF TypeOK
  <2>4. counted' \in [Key -> SUBSET Request]
    BY <1>4, <2>3 DEF Throttle, ThrottleFails, Load, LoadFails, Handle, TypeOK
  <2> QED
    BY <2>1, <2>2, <2>4 DEF TypeOK
<1>5. ASSUME NEW u \in User, NEW s \in Setting \cup {NONE}, ChangeSetting(u, s) PROVE TypeOK'
  BY <1>5, ConstantsAssumption DEF ChangeSetting, TypeOK
<1>6. ASSUME NEW t \in Token, Lapse(t) PROVE TypeOK'
  BY <1>6 DEF Lapse, TypeOK
<1> QED
  BY <1>1, <1>3, <1>4, <1>5, <1>6 DEF Next

-----------------------------------------------------------------------------
(* The invariant. *)

GuardStep(r) == Throttle(r) \/ ThrottleFails(r) \/ Load(r) \/ LoadFails(r) \/ Handle(r)
StepOf(r) == (\E w \in Wire : Receive(r, w)) \/ GuardStep(r)

\* A step of r leaves the other requests, the users and the tokens alone.
Apart(r) ==
    /\ UNCHANGED world /\ pc[r] # "done"
    /\ \A q \in Request \ {r} :
          /\ pc'[q] = pc[q] /\ wire'[q] = wire[q] /\ answer'[q] = answer[q] /\ lines'[q] = lines[q]
          /\ q \in ran' <=> q \in ran
          /\ q \in entitled' <=> q \in entitled
          /\ q \in barred' <=> q \in barred
          /\ q \in late' <=> q \in late

LEMMA StepsAreApart ==
    ASSUME TypeOK, NEW r \in Request, StepOf(r)
    PROVE  Apart(r) /\ Moves(r)
<1>1. Moves(r) /\ pc[r] # "done"
  BY StepsMove DEF StepOf, GuardStep
<1>2. \A q \in Request \ {r} : pc'[q] = pc[q] /\ answer'[q] = answer[q] /\ lines'[q] = lines[q]
  BY <1>1 DEF Moves, Goto, Answered, TypeOK
<1>3. ASSUME NEW w \in Wire, Receive(r, w) PROVE Apart(r)
  BY <1>1, <1>2, <1>3 DEF Receive, Apart, world, TypeOK
<1>4. ASSUME GuardStep(r) PROVE Apart(r)
  <2>1. /\ UNCHANGED <<world, wire, entitled, barred, late>> /\ ran' \in {ran, ran \cup {r}}
    BY <1>4 DEF GuardStep, Throttle, ThrottleFails, Load, LoadFails, Handle, history
  <2> QED
    BY <1>1, <1>2, <2>1 DEF Apart, world
<1> QED
  BY <1>1, <1>3, <1>4 DEF StepOf

\* The ways of a step: the request comes, is let through, is refused or served.
Comes(r, w) ==
    /\ pc[r] = "idle" /\ wire'[r] = w /\ pc'[r] \in {"throttle", "done"}
    /\ pc'[r] = "done" => answer'[r] = 400
    /\ pc'[r] = "throttle" => answer'[r] = answer[r]
    /\ UNCHANGED <<counted, ran>>
    /\ IF Entitled(settings, w) THEN r \in entitled' ELSE r \in barred'
    /\ r \in late' <=> jwtFromRequest(w) \in lapsed \/ r \in late

Stays(r) == UNCHANGED <<wire, entitled, barred, late>>

Ends(r) ==
    /\ pc'[r] = "done" /\ Stays(r) /\ ran' = ran
    /\ pc[r] \in {"throttle", "load", "handle"}
    /\ pc[r] \in {"throttle", "handle"} => answer'[r] # 403
    /\ pc[r] = "load" /\ answer'[r] = 403 =>
         \/ ~Permits(settings[Acting(wire[r])], wire[r].route)
         \/ ~CsrfHolds(wire[r])

Passes(r) ==
    /\ Stays(r) /\ answer' = answer
    /\ \/ /\ pc[r] = "throttle" /\ pc'[r] = "handle" /\ IsPublic(wire[r].route)
          /\ ran' = ran \cup {r}
       \/ /\ pc[r] = "throttle" /\ pc'[r] = "load" /\ verifies(jwtFromRequest(wire[r]))
          /\ ran' = ran
       \/ /\ pc[r] = "load" /\ pc'[r] = "handle" /\ ran' = ran \cup {r}
          /\ Permits(settings[Acting(wire[r])], wire[r].route) /\ CsrfHolds(wire[r])

LEMMA AnsweredFacts ==
    ASSUME TypeOK, NEW r \in Request, NEW s, Answered(r, s)
    PROVE  pc'[r] = "done" /\ answer'[r] = s
BY DEF Answered, TypeOK

LEMMA GotoFacts ==
    ASSUME TypeOK, NEW r \in Request, NEW l, Goto(r, l)
    PROVE  pc'[r] = l /\ answer' = answer
BY DEF Goto, TypeOK

LEMMA RefusedFacts ==
    ASSUME TypeOK, NEW r \in Request
    PROVE  /\ \A s \in {400, 401, 403, 429, 500} :
                Refuse(r, Http(s)) => pc'[r] = "done" /\ answer'[r] = s
           /\ Refuse(r, Plain) => pc'[r] = "done" /\ answer'[r] = 500
<1>1. \A s \in {400, 401, 403, 429, 500} : s \in Status
  BY DEF Status
<1> QED
  BY <1>1, RefuseFacts, RefusePlainFacts, AnsweredFacts

LEMMA StepsAreWays ==
    ASSUME TypeOK, NEW r \in Request, StepOf(r)
    PROVE  (\E w \in Wire : Comes(r, w)) \/ Ends(r) \/ Passes(r)
<1>1. ASSUME NEW w \in Wire, Receive(r, w) PROVE Comes(r, w)
  BY <1>1, RefusedFacts, GotoFacts DEF Receive, Comes, TypeOK
<1>2. ASSUME Throttle(r) PROVE Ends(r) \/ Passes(r)
  BY <1>2, RefusedFacts, GotoFacts DEF Throttle, Ends, Passes, Stays
<1>3. ASSUME ThrottleFails(r) PROVE Ends(r)
  BY <1>3, RefusedFacts DEF ThrottleFails, Ends, Stays, history
<1>4. ASSUME Load(r) PROVE Ends(r) \/ Passes(r)
  BY <1>4, RefusedFacts, GotoFacts DEF Load, Ends, Passes, Stays
<1>5. ASSUME LoadFails(r) PROVE Ends(r)
  BY <1>5, RefusedFacts DEF LoadFails, Ends, Stays, history
<1>6. ASSUME Handle(r) PROVE Ends(r)
  BY <1>6, HandleFacts, AnsweredFacts DEF Handle, Ends, Stays, history
<1> QED
  BY <1>1, <1>2, <1>3, <1>4, <1>5, <1>6 DEF StepOf, GuardStep

LEMMA GuardsKeep ==
    ASSUME TypeOK, Inv, NEW r \in Request, StepOf(r)
    PROVE  GuardsHavePassed'
<1> DEFINE Passed(q) ==
        /\ q \in ran => pc[q] \in {"handle", "done"}
        /\ pc[q] = "load" \/ Protected(q) => jwtFromRequest(wire[q]) \in Token /\ q \notin late
        /\ pc[q] = "handle" => q \in ran
        /\ q \in late => pc[q] # "idle" /\ jwtFromRequest(wire[q]) \in lapsed
<1>0. Apart(r) /\ \A q \in Request : Passed(q)
  BY StepsAreApart DEF Inv, GuardsHavePassed
<1>1. ASSUME NEW q \in Request \ {r} PROVE Passed(q)'
  BY <1>0 DEF Apart, Protected, world
<1>2. ASSUME NEW w \in Wire, Comes(r, w) PROVE Passed(r)'
  BY <1>0, <1>2 DEF Comes, Apart, Protected, world
<1>3. ASSUME Ends(r) PROVE Passed(r)'
  <2>1. /\ UNCHANGED <<wire, late, lapsed, ran>> /\ Passed(r) /\ pc'[r] = "done"
    BY <1>0, <1>3 DEF Ends, Stays, Apart, world
  <2>2. Protected(r)' <=> Protected(r)
    BY <2>1 DEF Protected
  <2> QED
    BY <2>1, <2>2
<1>4. ASSUME Passes(r) PROVE Passed(r)'
  <2>1. UNCHANGED <<wire, late, lapsed>> /\ Passed(r)
    BY <1>0, <1>4 DEF Passes, Stays, Apart, world
  <2>2. CASE pc'[r] = "handle" /\ ran' = ran \cup {r} /\ IsPublic(wire[r].route)
    BY <2>1, <2>2 DEF Protected
  <2>3. CASE pc[r] = "throttle" /\ pc'[r] = "load" /\ verifies(jwtFromRequest(wire[r])) /\ ran' = ran
    <3>1. jwtFromRequest(wire[r]) \in Token /\ r \notin late /\ r \notin ran
      BY <2>1, <2>3 DEF verifies
    <3> QED
      BY <2>1, <2>3, <3>1
  <2>4. CASE pc[r] = "load" /\ pc'[r] = "handle" /\ ran' = ran \cup {r}
    BY <2>1, <2>4
  <2> QED
    BY <1>4, <2>2, <2>3, <2>4 DEF Passes
<1>5. Passed(r)'
  BY <1>2, <1>3, <1>4, StepsAreWays
<1>6. \A q \in Request : Passed(q)'
  <2> HIDE DEF Passed
  <2> QED
    BY <1>1, <1>5
<1> QED
  BY <1>6 DEF GuardsHavePassed

LEMMA HistoriesKeep ==
    ASSUME TypeOK, Inv, NEW r \in Request, StepOf(r)
    PROVE  HistoriesAreCurrent'
<1> DEFINE Current(q) == pc[q] \in {"throttle", "load"} =>
        IF Entitled(settings, wire[q]) THEN q \in entitled ELSE q \in barred
<1>0. Apart(r) /\ \A q \in Request : Current(q)
  BY StepsAreApart DEF Inv, HistoriesAreCurrent
<1>1. ASSUME NEW q \in Request \ {r} PROVE Current(q)'
  BY <1>0 DEF Apart, world
<1>2. ASSUME NEW w \in Wire, Comes(r, w) PROVE Current(r)'
  BY <1>0, <1>2 DEF Comes, Apart, world
<1>3. ASSUME Ends(r) \/ Passes(r) PROVE Current(r)'
  BY <1>0, <1>3 DEF Ends, Passes, Stays, Apart, world
<1>4. \A q \in Request : Current(q)'
  <2>1. Current(r)'
    BY <1>2, <1>3, StepsAreWays
  <2> HIDE DEF Current
  <2> QED
    BY <1>1, <2>1
<1> QED
  BY <1>4 DEF HistoriesAreCurrent

\* A decision rests on the row that was read, which is of a moment since the
\* request arrived.
LEMMA DecisionKeep ==
    ASSUME TypeOK, Inv, NEW r \in Request, StepOf(r)
    PROVE  DecisionIsCurrent'
<1> DEFINE Fair(q) ==
        /\ Protected(q) => q \in entitled \ late
        /\ answer[q] = 403 => q \in barred \/ ~CsrfHolds(wire[q])
<1>0. Apart(r) /\ GuardsHavePassed /\ HistoriesAreCurrent /\ \A q \in Request : Fair(q)
  BY StepsAreApart DEF Inv, DecisionIsCurrent
<1>1. ASSUME NEW q \in Request \ {r} PROVE Fair(q)'
  BY <1>0 DEF Apart, Protected, world
<1>2. ASSUME NEW w \in Wire, Comes(r, w) PROVE Fair(r)'
  <2>1. r \notin ran'
    BY <1>0, <1>2 DEF GuardsHavePassed, Comes
  <2>2. answer[r] = NONE /\ NONE # 403
    BY <1>2, ConstantsAssumption DEF Comes, TypeOK, Status
  <2> QED
    BY <1>2, <2>1, <2>2 DEF Comes, Protected
<1>3. ASSUME pc[r] = "load"
      PROVE  Entitled(settings, wire[r]) <=> Permits(settings[Acting(wire[r])], wire[r].route)
  BY <1>0, <1>3 DEF GuardsHavePassed, Entitled
<1>4. ASSUME Ends(r) PROVE Fair(r)'
  BY <1>0, <1>3, <1>4 DEF Ends, Stays, Protected, HistoriesAreCurrent
<1>5. ASSUME Passes(r) PROVE Fair(r)'
  <2>1. Protected(r)' => r \in entitled \ late
    BY <1>0, <1>3, <1>5 DEF Passes, Stays, Protected, HistoriesAreCurrent, GuardsHavePassed
  <2> QED
    BY <1>0, <1>5, <2>1 DEF Passes, Stays
<1>6. \A q \in Request : Fair(q)'
  <2>1. Fair(r)'
    BY <1>2, <1>4, <1>5, StepsAreWays
  <2> HIDE DEF Fair
  <2> QED
    BY <1>1, <2>1
<1> QED
  BY <1>6 DEF DecisionIsCurrent

LEMMA CookieKeep ==
    ASSUME TypeOK, Inv, NEW r \in Request, StepOf(r)
    PROVE  CookieWriteIsConfirmed'
<1> DEFINE Confirmed(q) ==
        Protected(q) /\ Route[wire[q].route].mutating /\ wire[q].scheme # "Bearer"
        => wire[q].csrf
<1>0. Apart(r) /\ GuardsHavePassed /\ \A q \in Request : Confirmed(q)
  BY StepsAreApart DEF Inv, CookieWriteIsConfirmed
<1>1. ASSUME NEW q \in Request \ {r} PROVE Confirmed(q)'
  BY <1>0 DEF Apart, Protected
<1>2. ASSUME NEW w \in Wire, Comes(r, w) PROVE Confirmed(r)'
  BY <1>0, <1>2 DEF GuardsHavePassed, Comes, Protected
<1>3. ASSUME Ends(r) PROVE Confirmed(r)'
  BY <1>0, <1>3 DEF Ends, Stays, Protected
<1>4. ASSUME Passes(r) PROVE Confirmed(r)'
  <2>1. CASE pc[r] = "load"
    <3>1. CsrfHolds(wire[r]) /\ jwtFromRequest(wire[r]) \in Token /\ UNCHANGED wire
      BY <1>0, <1>4, <2>1 DEF Passes, Stays, GuardsHavePassed
    <3>2. wire[r].scheme # "Bearer" => wire[r].cookie # NONE
      BY <3>1, ConstantsAssumption DEF jwtFromRequest
    <3> QED
      BY <3>1, <3>2 DEF CsrfHolds
  <2>2. CASE pc[r] # "load"
    BY <1>0, <1>4, <2>2 DEF Passes, Stays, Protected, GuardsHavePassed
  <2> QED
    BY <2>1, <2>2
<1>5. \A q \in Request : Confirmed(q)'
  <2>1. Confirmed(r)'
    BY <1>2, <1>3, <1>4, StepsAreWays
  <2> HIDE DEF Confirmed
  <2> QED
    BY <1>1, <2>1
<1> QED
  BY <1>5 DEF CookieWriteIsConfirmed

LEMMA LoggedKeep ==
    ASSUME TypeOK, Inv, NEW r \in Request, StepOf(r)
    PROVE  LoggedStatusIsAnswered'
<1>0. Apart(r) /\ Moves(r) /\ LoggedStatusIsAnswered
  BY StepsAreApart DEF Inv
<1>1. ASSUME NEW q \in Request \ {r}, pc'[q] = "done"
      PROVE  Tells(lines'[q], wire'[q].route, answer'[q])
  BY <1>0, <1>1 DEF Apart, LoggedStatusIsAnswered
<1>2. ASSUME pc'[r] = "done"
      PROVE  Tells(lines'[r], wire'[r].route, answer'[r])
  <2>1. ASSUME NEW s \in Status, Answered(r, s) PROVE answer'[r] = s
    BY <2>1, AnsweredFacts
  <2> QED
    BY <1>0, <1>2, <2>1, GotoFacts DEF Moves, Answered
<1> QED
  BY <1>1, <1>2 DEF LoggedStatusIsAnswered


In(r) == pc[r] = "load" \/ r \in ran

\* The limiter counts a request once, under its key, and lets it through when
\* those it has counted there are few enough.
Counts(r) ==
    \/ UNCHANGED counted /\ pc[r] # "throttle" /\ (In(r)' => In(r))
    \/ /\ pc[r] = "throttle" /\ UNCHANGED wire
       /\ counted' \in [Key -> SUBSET Request]
       /\ \A k \in Key : k # keyOf(wire[r]) => counted'[k] = counted[k]
       /\ counted'[keyOf(wire[r])] \subseteq counted[keyOf(wire[r])] \cup {r}
       /\ pc'[r] \in {"load", "handle", "done"}
       /\ In(r)' => /\ r \in counted'[keyOf(wire[r])]
                    /\ Cardinality(counted'[keyOf(wire[r])]) <= Limit[throttlerOf(wire[r].route)]
       /\ counted[keyOf(wire[r])] \subseteq counted'[keyOf(wire[r])]

LEMMA CountingFacts ==
    ASSUME TypeOK, GuardsHavePassed, AdmittedAreCounted, NEW r \in Request, StepOf(r)
    PROVE  Counts(r)
<1>1. ASSUME NEW w \in Wire, Receive(r, w) PROVE Counts(r)
  <2>1. Comes(r, w)
    BY <1>1, RefusedFacts, GotoFacts DEF Receive, Comes, TypeOK
  <2> QED
    BY <2>1 DEF Comes, Counts, In, GuardsHavePassed
<1>2. ASSUME Load(r) \/ LoadFails(r) \/ Handle(r) PROVE Counts(r)
  <2>1. UNCHANGED counted /\ pc[r] \in {"load", "handle"}
    BY <1>2 DEF Load, LoadFails, Handle
  <2> QED
    BY <2>1 DEF Counts, In, GuardsHavePassed
<1> DEFINE K == keyOf(wire[r])
<1>3. pc[r] = "throttle" => K \in Key /\ r \notin ran
  BY WireFacts DEF TypeOK, GuardsHavePassed
<1>4. ASSUME Throttle(r) PROVE Counts(r)
  <2> DEFINE members == counted[K] \cup {r}
  <2>1. pc[r] = "throttle" /\ wire' = wire /\ counted' = [counted EXCEPT ![K] = members]
    BY <1>4 DEF Throttle
  <2>2. counted'[K] = members /\ \A k \in Key : k # K => counted'[k] = counted[k]
    BY <1>3, <2>1 DEF TypeOK
  <2>3. counted' \in [Key -> SUBSET Request]
    BY <1>3, <2>1 DEF TypeOK
  <2>4. pc'[r] \in {"load", "handle", "done"}
    BY <1>4, RefusedFacts, GotoFacts DEF Throttle
  <2>5. ASSUME ~(Cardinality(members) <= Limit[throttlerOf(wire[r].route)]) PROVE ~In(r)'
    <3>1. Cardinality(members) > Limit[throttlerOf(wire[r].route)]
      <4>1. Limit[throttlerOf(wire[r].route)] \in Nat
        BY ConstantsAssumption DEF throttlerOf
      <4>2. IsFiniteSet(counted[K])
        BY <1>3, <2>1 DEF AdmittedAreCounted
      <4>3. Cardinality(members) \in Nat
        BY <4>2, FS_AddElement, FS_CardinalityType
      <4> QED
        BY <2>5, <4>1, <4>3
    <3>2. Refuse(r, Http(429)) /\ ran' = ran
      BY <1>4, <3>1 DEF Throttle
    <3> QED
      BY <1>3, <2>1, <3>2, RefusedFacts DEF In
  <2> QED
    BY <2>1, <2>2, <2>3, <2>4, <2>5 DEF Counts
<1>5. ASSUME ThrottleFails(r) PROVE Counts(r)
  <2>1. /\ pc[r] = "throttle" /\ wire' = wire /\ ran' = ran
        /\ \E members \in {{}, {r}} : counted' = [counted EXCEPT ![K] = @ \cup members]
    BY <1>5 DEF ThrottleFails, history
  <2>2. /\ \A k \in Key : k # K => counted'[k] = counted[k]
        /\ counted[K] \subseteq counted'[K] /\ counted'[K] \subseteq counted[K] \cup {r}
        /\ counted' \in [Key -> SUBSET Request]
    BY <1>3, <2>1 DEF TypeOK
  <2>3. pc'[r] = "done"
    BY <1>5, RefusedFacts DEF ThrottleFails
  <2> QED
    BY <1>3, <2>1, <2>2, <2>3 DEF Counts, In
<1> QED
  BY <1>1, <1>2, <1>4, <1>5 DEF StepOf, GuardStep

LEMMA AdmittedKeep ==
    ASSUME TypeOK, Inv, NEW r \in Request, StepOf(r)
    PROVE  AdmittedAreCounted'
<1>0. Apart(r) /\ Counts(r) /\ GuardsHavePassed /\ GuardsHavePassed' /\ AdmittedAreCounted /\ TypeOK'
  BY StepsAreApart, GuardsKeep, CountingFacts, NextTypeOK DEF Inv, StepOf, GuardStep, Next
<1> DEFINE Bounded(k) ==
              /\ IsFiniteSet(counted[k]) /\ Cardinality(Admitted(k)) <= Limit[k[2]]
              /\ \A q \in counted[k] : pc[q] \in {"load", "handle", "done"}
<1>1. \A q \in Request \ {r} : pc'[q] = pc[q] /\ wire'[q] = wire[q] /\ (In(q)' <=> In(q))
  BY <1>0 DEF Apart, In
<1>2. ASSUME NEW k \in Key, counted[k] \subseteq counted'[k], counted'[k] \subseteq counted[k] \cup {r},
             r \in counted'[k] => pc'[r] \in {"load", "handle", "done"},
             \/ Cardinality(counted'[k]) <= Limit[k[2]]
             \/ r \in counted'[k] /\ In(r)' => r \in counted[k] /\ In(r)
      PROVE  Bounded(k)'
  <2>1. Limit[k[2]] \in Nat
    BY ConstantsAssumption DEF Key
  <2>2. IsFiniteSet(counted[k]) /\ Cardinality(Admitted(k)) <= Limit[k[2]]
    BY <1>0 DEF AdmittedAreCounted
  <2>3. IsFiniteSet(counted'[k])
    <3>1. IsFiniteSet(counted[k] \cup {r})
      BY <2>2, FS_AddElement
    <3> QED
      BY <1>2, <3>1, FS_Subset
  <2>4. Admitted(k) \subseteq counted[k] /\ Admitted(k)' \subseteq counted'[k]
    BY DEF Admitted
  <2>5. Cardinality(Admitted(k)) \in Nat /\ Cardinality(Admitted(k)') \in Nat
        /\ IsFiniteSet(Admitted(k)) /\ Cardinality(counted'[k]) \in Nat
    BY <2>2, <2>3, <2>4, FS_Subset, FS_CardinalityType
  <2>6. Cardinality(Admitted(k)') <= Limit[k[2]]
    <3>1. CASE Cardinality(counted'[k]) <= Limit[k[2]]
      <4>1. Cardinality(Admitted(k)') <= Cardinality(counted'[k])
        BY <2>3, <2>4, FS_Subset
      <4> QED
        BY <2>1, <2>5, <3>1, <4>1
    <3>2. CASE r \in counted'[k] /\ In(r)' => r \in counted[k] /\ In(r)
      <4>1. Admitted(k)' \subseteq Admitted(k)
        BY <1>0, <1>1, <1>2, <3>2 DEF Admitted, In, TypeOK
      <4>2. Cardinality(Admitted(k)') <= Cardinality(Admitted(k))
        BY <2>5, <4>1, FS_Subset
      <4> QED
        BY <2>1, <2>2, <2>5, <4>2
    <3> QED
      BY <1>2, <3>1, <3>2
  <2>7. \A q \in counted'[k] : pc'[q] \in {"load", "handle", "done"}
    BY <1>0, <1>1, <1>2 DEF AdmittedAreCounted, TypeOK
  <2> QED
    BY <2>3, <2>6, <2>7
<1>3. CASE pc[r] = "throttle"
  <2>0. keyOf(wire[r]) \in Key /\ keyOf(wire[r])[2] = throttlerOf(wire[r].route)
    BY <1>3, WireFacts DEF TypeOK
  <2>1. PICK K \in Key : K = keyOf(wire[r]) /\ K[2] = throttlerOf(wire[r].route)
    BY <2>0
  <2>2. \A k \in Key : r \notin counted[k]
    BY <1>0, <1>3 DEF AdmittedAreCounted
  <2>3. /\ \A k \in Key : k # K => counted'[k] = counted[k]
        /\ counted'[K] \subseteq counted[K] \cup {r} /\ counted[K] \subseteq counted'[K]
        /\ pc'[r] \in {"load", "handle", "done"} /\ wire' = wire
        /\ In(r)' => r \in counted'[K] /\ Cardinality(counted'[K]) <= Limit[K[2]]
    BY <1>0, <1>3, <2>1 DEF Counts
  <2>4. Bounded(K)'
    BY <1>2, <2>1, <2>3
  <2>5. ASSUME NEW k \in Key, k # K PROVE Bounded(k)'
    BY <1>2, <2>2, <2>3, <2>5
  <2>6. ASSUME NEW q \in Request, In(q)' PROVE q \in counted'[keyOf(wire'[q])]
    <3>1. CASE q = r
      BY <2>1, <2>3, <2>6, <3>1
    <3>2. CASE q # r
      <4>1. In(q) /\ wire'[q] = wire[q]
        BY <1>1, <2>6, <3>2
      <4>2. q \in counted[keyOf(wire[q])]
        BY <1>0, <4>1 DEF AdmittedAreCounted, In
      <4>3. keyOf(wire[q]) \in Key
        BY <1>0, <4>1, WireFacts DEF In, GuardsHavePassed, TypeOK
      <4> QED
        BY <2>3, <4>1, <4>2, <4>3
    <3> QED
      BY <3>1, <3>2
  <2>7. \A k \in Key : Bounded(k)'
    <3> HIDE DEF Bounded
    <3> QED
      BY <2>4, <2>5
  <2>8. \A q \in Request : (pc[q] = "load" \/ q \in ran => q \in counted[keyOf(wire[q])])'
    BY <2>6 DEF In, keyOf, getTracker, throttlerOf
  <2> QED
    BY <2>7, <2>8 DEF AdmittedAreCounted
<1>4. CASE pc[r] # "throttle"
  <2>1. counted' = counted /\ (In(r)' => In(r))
    BY <1>0, <1>4 DEF Counts
  <2>2. pc[r] \in {"load", "handle"} => wire' = wire /\ pc'[r] \in {"load", "handle", "done"}
    BY <1>0, StepsAreWays DEF Comes, Ends, Passes, Stays
  <2>3. pc[r] # "done"
    BY <1>0 DEF Apart
  <2>4. \A k \in Key : r \in counted[k] => pc'[r] \in {"load", "handle", "done"}
    BY <1>0, <2>2, <2>3 DEF AdmittedAreCounted
  <2>5. \A k \in Key : Bounded(k)'
    <3>1. ASSUME NEW k \in Key PROVE Bounded(k)'
      BY <1>2, <2>1, <2>4
    <3> QED
      BY <3>1
  <2>6. ASSUME NEW q \in Request, In(q)' PROVE q \in counted'[keyOf(wire'[q])]
    <3>1. In(q)
      BY <1>1, <2>1, <2>6
    <3>2. q \in counted[keyOf(wire[q])]
      BY <1>0, <3>1 DEF AdmittedAreCounted, In
    <3>3. wire'[q] = wire[q]
      BY <1>0, <1>1, <2>2, <2>3, <3>1 DEF In, GuardsHavePassed
    <3> QED
      BY <2>1, <3>2, <3>3
  <2>7. \A q \in Request : (pc[q] = "load" \/ q \in ran => q \in counted[keyOf(wire[q])])'
    BY <2>6 DEF In, keyOf, getTracker, throttlerOf
  <2> QED
    BY <2>5, <2>7 DEF AdmittedAreCounted
<1> QED
  BY <1>3, <1>4

\* A change of a row is seen by the histories of the requests it may matter to.
LEMMA ChangeKeeps ==
    ASSUME TypeOK, Inv, NEW u \in User, NEW s \in Setting \cup {NONE}, ChangeSetting(u, s)
    PROVE  Inv'
<1>1. /\ UNCHANGED <<lapsed, pc, wire, counted, answer, lines, ran, late>>
      /\ entitled \subseteq entitled' /\ barred \subseteq barred'
  BY DEF ChangeSetting
<1>2. HistoriesAreCurrent'
  BY DEF ChangeSetting, HistoriesAreCurrent
<1>3. \A r \in Request : Protected(r)' <=> Protected(r)
  BY <1>1 DEF Protected
<1>4. GuardsHavePassed' /\ CookieWriteIsConfirmed' /\ LoggedStatusIsAnswered'
  BY <1>1, <1>3 DEF Inv, GuardsHavePassed, CookieWriteIsConfirmed, LoggedStatusIsAnswered
<1>5. DecisionIsCurrent'
  BY <1>1, <1>3 DEF Inv, DecisionIsCurrent
<1>6. AdmittedAreCounted'
  BY <1>1 DEF Inv, AdmittedAreCounted, Admitted
<1> QED
  BY <1>2, <1>4, <1>5, <1>6 DEF Inv

LEMMA LapseKeeps ==
    ASSUME TypeOK, Inv, NEW t \in Token, Lapse(t)
    PROVE  Inv'
<1>1. /\ UNCHANGED <<settings, pc, wire, counted, answer, lines, ran, entitled, barred, late>>
      /\ lapsed \subseteq lapsed'
  BY DEF Lapse, history
<1>2. \A r \in Request : Protected(r)' <=> Protected(r)
  BY <1>1 DEF Protected
<1>3. GuardsHavePassed' /\ CookieWriteIsConfirmed' /\ LoggedStatusIsAnswered' /\ DecisionIsCurrent'
  BY <1>1, <1>2
  DEF Inv, GuardsHavePassed, CookieWriteIsConfirmed, LoggedStatusIsAnswered, DecisionIsCurrent
<1>4. HistoriesAreCurrent' /\ AdmittedAreCounted'
  BY <1>1 DEF Inv, HistoriesAreCurrent, AdmittedAreCounted, Admitted
<1> QED
  BY <1>3, <1>4 DEF Inv

LEMMA InitInv == Init => Inv
<1> SUFFICES ASSUME Init PROVE Inv
  OBVIOUS
<1>1. GuardsHavePassed /\ HistoriesAreCurrent /\ CookieWriteIsConfirmed /\ LoggedStatusIsAnswered
  BY DEF Init, GuardsHavePassed, HistoriesAreCurrent, CookieWriteIsConfirmed,
      LoggedStatusIsAnswered, Protected
<1>2. DecisionIsCurrent
  BY ConstantsAssumption DEF Init, DecisionIsCurrent, Protected, Status
<1>3. ASSUME NEW k \in Key
      PROVE  /\ IsFiniteSet(counted[k]) /\ Cardinality(Admitted(k)) <= Limit[k[2]]
             /\ \A q \in counted[k] : pc[q] \in {"load", "handle", "done"}
  <2>1. counted[k] = {} /\ Admitted(k) = {}
    BY DEF Init, Admitted
  <2>2. Limit[k[2]] \in Nat
    BY ConstantsAssumption DEF Key
  <2> QED
    BY <2>1, <2>2, FS_EmptySet
<1>4. AdmittedAreCounted
  BY <1>3 DEF AdmittedAreCounted, Init
<1> QED
  BY <1>1, <1>2, <1>4 DEF Inv

LEMMA NextInv == TypeOK /\ Inv /\ [Next]_vars => Inv'
<1> SUFFICES ASSUME TypeOK, Inv, [Next]_vars PROVE Inv'
  OBVIOUS
<1>1. CASE UNCHANGED vars
  BY <1>1 DEF vars, world, history, Inv, GuardsHavePassed, HistoriesAreCurrent,
      AdmittedAreCounted, Admitted, DecisionIsCurrent, CookieWriteIsConfirmed,
      LoggedStatusIsAnswered, Protected
<1>2. ASSUME NEW r \in Request, StepOf(r) PROVE Inv'
  BY <1>2, GuardsKeep, HistoriesKeep, AdmittedKeep, DecisionKeep, CookieKeep, LoggedKeep DEF Inv
<1> QED
  BY <1>1, <1>2, ChangeKeeps, LapseKeeps DEF Next, StepOf, GuardStep

-----------------------------------------------------------------------------
(* Theorems. *)

\* Every variable keeps its type; a request has an answer when it is done, and
\* only then.
THEOREM TypeCorrect == Spec => []TypeOK
<1> QED
  BY InitTypeOK, NextTypeOK, PTL DEF Spec

\* The invariant of guards, limiter and histories.
THEOREM Invariance == Spec => []Inv
<1>1. TypeOK /\ Inv /\ [Next]_vars => (TypeOK /\ Inv)'
  BY NextTypeOK, NextInv
<1> QED
  BY InitTypeOK, InitInv, <1>1, PTL DEF Spec

\* JwtStrategy.validate, ActiveUserGuard, RolesGuard: whoever is let through was
\* active and had the role while the request was under way, and whoever is not
\* was not, or failed the CSRF check - however roles and tokens change meanwhile.
THEOREM DecisionsAreCurrent == Spec => []DecisionIsCurrent
<1>1. Inv => DecisionIsCurrent
  BY DEF Inv
<1> QED
  BY <1>1, Invariance, PTL

\* CsrfGuard: a change with the credentials of the cookie carried the
\* double-submitted token.
THEOREM CookieWritesAreConfirmed == Spec => []CookieWriteIsConfirmed
<1>1. Inv => CookieWriteIsConfirmed
  BY DEF Inv
<1> QED
  BY <1>1, Invariance, PTL

\* LoggingInterceptor and HttpExceptionFilter log the status that is answered,
\* for every route and every error a handler throws.
THEOREM LogsAreTrue == Spec => []LoggedStatusIsAnswered
<1>1. Inv => LoggedStatusIsAnswered
  BY DEF Inv
<1> QED
  BY <1>1, Invariance, PTL

\* getTracker and RedisThrottlerGuard: the requests of a user that reach the
\* handlers of a path were counted under one key, that of the user.
LEMMA ActorsAreCounted == TypeOK /\ Inv => ActorWithinLimit
<1> SUFFICES ASSUME TypeOK, Inv, NEW u \in User, NEW n \in RouteNames
             PROVE  Cardinality({r \in Request : /\ Protected(r) /\ Acting(wire[r]) = u
                                     /\ Route[wire[r].route].path = Route[n].path})
                    <= Limit[throttlerOf(n)]
  BY DEF ActorWithinLimit
<1> DEFINE S == {r \in Request : /\ Protected(r) /\ Acting(wire[r]) = u
                                 /\ Route[wire[r].route].path = Route[n].path}
<1>0. <<u, throttlerOf(n), Route[n].path>> \in Key
  <2>1. u \in Tracker /\ throttlerOf(n) \in {"auth", "api"}
    BY DEF Tracker, throttlerOf
  <2>2. Route[n].path \in {Route[m].path : m \in RouteNames}
    OBVIOUS
  <2> QED
    BY <2>1, <2>2 DEF Key
<1>1. PICK k \in Key : k = <<u, throttlerOf(n), Route[n].path>>
  BY <1>0
<1>2. ASSUME NEW r \in S PROVE r \in Admitted(k)
  <2>1. /\ r \in ran /\ wire[r] \in Wire /\ jwtFromRequest(wire[r]) \in Token
        /\ r \in counted[keyOf(wire[r])]
    BY <1>2 DEF Inv, GuardsHavePassed, AdmittedAreCounted, Protected, TypeOK
  <2>2. /\ wire[r].route \in RouteNames
        /\ keyOf(wire[r]) = <<u, throttlerOf(wire[r].route), Route[n].path>>
    BY <1>2, <2>1, WireFacts
  <2>3. throttlerOf(wire[r].route) = throttlerOf(n)
    BY <1>2, <2>2, PathHasOneThrottler
  <2> QED
    BY <1>1, <2>1, <2>2, <2>3 DEF Admitted
<1>3. IsFiniteSet(counted[k]) /\ Cardinality(Admitted(k)) <= Limit[throttlerOf(n)]
  BY <1>1 DEF Inv, AdmittedAreCounted
<1>4. IsFiniteSet(Admitted(k))
  BY <1>3, FS_Subset DEF Admitted
<1>5. Cardinality(S) <= Cardinality(Admitted(k)) /\ IsFiniteSet(S)
  BY <1>2, <1>4, FS_Subset
<1>6. Cardinality(S) \in Nat /\ Cardinality(Admitted(k)) \in Nat
  BY <1>4, <1>5, FS_CardinalityType
<1>7. Limit[throttlerOf(n)] \in Nat
  BY ConstantsAssumption DEF throttlerOf
<1> QED
  BY <1>3, <1>5, <1>6, <1>7

\* Whatever a user puts in header and cookie, no more requests of the user than
\* the limit reach the handlers of a path.
THEOREM ActorsAreLimited == Spec => []ActorWithinLimit
<1> QED
  BY ActorsAreCounted, TypeCorrect, Invariance, PTL
==================================================================================
