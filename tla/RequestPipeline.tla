---------------------------- MODULE RequestPipeline ----------------------------
(***************************************************************************)
(* What happens to a request before and after its handler: the global      *)
(* guards in the order of app.module.ts, the validation pipe inside the    *)
(* logging interceptor, the handler's outcome, and the exception filter.   *)
(* The guards wait twice - for Redis and for the user's row - so the       *)
(* user's role and status, and the life of the token, may change on the    *)
(* way.  Requests stay within one window of the limiter (RateLimiter.tla   *)
(* is about the window).                                                   *)
(***************************************************************************)
EXTENDS Naturals, FiniteSets, Sequences

CONSTANTS
    Request,
    User,
    Token,       \* the signed tokens clients hold
    Subject,     \* sub of each token
    SignedRole,  \* role of each token, as it was when the token was signed
    Wire,        \* the requests clients send
    Limit,       \* limit of each throttler
    MaxChanges,  \* bound: changes of a user's role or status
    ANONYMOUS,   \* the tracker ip:<address> of requests without a readable token
    GARBAGE,     \* a credential that is no token
    NONE         \* undefined, null, not yet assigned

Role == {"ADMIN", "ANALYST"}
Setting == [role : Role, isActive : BOOLEAN]
Status == {200, 201, 204, 302, 304, 400, 401, 403, 404, 409, 422, 429, 500, 502, 504}

\* What handlers throw: an HttpException, an Error with a numeric status
\* (ExternalApiError), or any other Error.
Http(s) == [kind |-> "http", status |-> s]
Tagged(s) == [kind |-> "tagged", status |-> s]
Plain == [kind |-> "plain", status |-> NONE]

\* class-validator's constraints that each kind of bad input fails.
NoDto == [fails \in {} |-> {}]
Violations(dto, defect) == IF defect \in DOMAIN dto THEN dto[defect] ELSE {}

CreateProfileDto ==
    [missing |-> {"isNotEmpty", "isString"}, empty |-> {"isNotEmpty"},
     mistyped |-> {"isString"}, malformed |-> {"isAlphabeticName"},
     unknown |-> {"whitelistValidation"}]
ClassificationQueryDto ==
    [missing |-> {"isString", "isNotEmpty", "matches"},
     empty |-> {"isNotEmpty", "matches"}, mistyped |-> {"isString", "matches"},
     malformed |-> {"matches"}, unknown |-> {"whitelistValidation"}]
CreateUserDto ==
    [missing |-> {"isString", "isNotEmpty"}, empty |-> {"isNotEmpty"},
     mistyped |-> {"isString"}, malformed |-> {"isEmail", "isEnum"},
     unknown |-> {"whitelistValidation"}]
SearchProfilesQueryDto ==
    [missing |-> {"isString", "isNotEmpty"}, empty |-> {"isNotEmpty"},
     mistyped |-> {"isInt", "min", "max"}, malformed |-> {"min", "max"},
     unknown |-> {"whitelistValidation"}]
GetProfilesQueryDto ==
    [mistyped |-> {"isInt", "isNumber", "min", "max"},
     malformed |-> {"isIn", "min", "max"}, unknown |-> {"whitelistValidation"}]
GitHubLoginQueryDto ==
    [malformed |-> {"isEnum"}, unknown |-> {"whitelistValidation"}]
RefreshTokenDto ==
    [empty |-> {"isNotEmpty"}, mistyped |-> {"isString"},
     unknown |-> {"whitelistValidation"}]

\* exceptionFactory of the ValidationPipe in main.ts.
TypeConstraints == {"isInt", "isNumber", "isString", "isIn", "min", "max",
                    "isBoolean", "isArray", "isDate"}
exceptionFactory(failed) == Http(IF failed \cap TypeConstraints # {} THEN 422 ELSE 400)

Entry(path, mutating, roles, dto, ok, throws) ==
    [path |-> path, mutating |-> mutating, roles |-> roles, dto |-> dto,
     ok |-> ok, throws |-> throws]

\* The controllers' decorators: path, method, @Roles (none: @Public), DTO,
\* statuses of success, and what the handler may throw.
AuthRoutes ==
    [githubLogin |-> Entry("/auth/github", FALSE, {}, GitHubLoginQueryDto, {302}, {Plain}),
     githubCallback |-> Entry("/auth/github/callback", FALSE, {}, NoDto, {200, 302},
                              {Http(400), Http(401), Plain}),
     refresh |-> Entry("/auth/refresh", TRUE, {}, RefreshTokenDto, {201}, {Http(401)}),
     logout |-> Entry("/auth/logout", TRUE, {}, RefreshTokenDto, {201}, {Http(401), Plain}),
     whoami |-> Entry("/auth/whoami", FALSE, {}, NoDto, {200}, {})]
AppRoutes ==
    [getHello |-> Entry("/", FALSE, {}, NoDto, {200}, {}),
     getHealth |-> Entry("/health", FALSE, {}, NoDto, {200}, {})]
UserRoutes ==
    [me |-> Entry("/api/users/me", FALSE, Role, NoDto, {200}, {}),
     createUser |-> Entry("/api/users", TRUE, {"ADMIN"}, CreateUserDto, {201},
                          {Http(409), Plain}),
     findUser |-> Entry("/api/users/:githubId", FALSE, {"ADMIN"}, NoDto, {200},
                        {Http(404), Plain})]
ProfileRoutes ==
    [create |-> Entry("/api/profiles", TRUE, {"ADMIN"}, CreateProfileDto, {201},
                      {Http(502), Tagged(502), Plain}),
     findAll |-> Entry("/api/profiles", FALSE, Role, GetProfilesQueryDto, {200}, {Plain}),
     search |-> Entry("/api/profiles/search", FALSE, Role, SearchProfilesQueryDto,
                      {200}, {Http(400), Plain}),
     exportCsv |-> Entry("/api/profiles/export", FALSE, Role, GetProfilesQueryDto,
                      {200}, {Http(400), Plain}),
     importCsv |-> Entry("/api/profiles/import", TRUE, {"ADMIN"}, NoDto, {201},
                         {Http(400), Plain}),
     findById |-> Entry("/api/profiles/:id", FALSE, Role, NoDto, {200},
                        {Http(404), Plain}),
     remove |-> Entry("/api/profiles/:id", TRUE, {"ADMIN"}, NoDto, {204}, {Http(404)})]
ClassificationRoutes ==
    [classify |-> Entry("/api/classify", FALSE, Role, ClassificationQueryDto, {200},
                        {Tagged(502), Tagged(504)})]

RouteNames == DOMAIN AuthRoutes \cup DOMAIN AppRoutes \cup DOMAIN UserRoutes
              \cup DOMAIN ProfileRoutes \cup DOMAIN ClassificationRoutes
Route == [n \in RouteNames |->
            CASE n \in DOMAIN AuthRoutes -> AuthRoutes[n]
              [] n \in DOMAIN AppRoutes -> AppRoutes[n]
              [] n \in DOMAIN UserRoutes -> UserRoutes[n]
              [] n \in DOMAIN ProfileRoutes -> ProfileRoutes[n]
              [] OTHER -> ClassificationRoutes[n]]

IsPublic(n) == Route[n].roles = {}
throttlerOf(n) == IF n \in DOMAIN AuthRoutes THEN "auth" ELSE "api"
StartsWithApi(n) == n \notin DOMAIN AuthRoutes \cup DOMAIN AppRoutes

\* route; x-api-version; the Authorization header as a scheme and what follows
\* it; the access_token cookie; whether x-csrf-token and the csrf_token cookie
\* are there and equal; what is wrong with the input.
WireType == [route : RouteNames, version : {"1", "other", "absent"},
             scheme : {"absent", "Bearer", "other"}, bearer : Token \cup {GARBAGE},
             cookie : Token \cup {GARBAGE, NONE}, csrf : BOOLEAN,
             defect : {"none", "missing", "empty", "mistyped", "malformed", "unknown"}]

ASSUME ConstantsAssumption ==
    /\ Subject \in [Token -> User] /\ SignedRole \in [Token -> Role]
    /\ Wire \subseteq WireType
    /\ Limit \in [{"auth", "api"} -> Nat]
    /\ MaxChanges \in Nat
    /\ GARBAGE \notin Token /\ NONE \notin Token \cup {GARBAGE}
    /\ ANONYMOUS \notin User /\ NONE \notin User \cup Setting \cup Status

VARIABLES
    settings,    \* role and is_active of each row of users; NONE without a row
    lapsed,      \* tokens past their exp
    pc,          \* where a request is
    wire,        \* the request
    counted,     \* the members of each throttler:<tracker>:<name>:<path>
    answer,      \* the status the client received
    lines,       \* the statuses logged for the request, in order
    changes,     \* changes of settings so far
    \* histories for the properties
    ran,         \* requests that passed all guards
    entitled,    \* requests whose user was entitled at some moment since they arrived
    barred,      \* requests whose user was not, at some moment since then
    late         \* requests whose token had lapsed when they arrived

world == <<settings, lapsed, changes>>
history == <<ran, entitled, barred, late>>
vars == <<world, pc, wire, counted, answer, lines, history>>

Tracker == User \cup {ANONYMOUS}
Key == Tracker \X {"auth", "api"} \X {Route[n].path : n \in RouteNames}

TypeOK ==
    /\ settings \in [User -> Setting \cup {NONE}]
    /\ lapsed \subseteq Token /\ changes \in 0 .. MaxChanges
    /\ pc \in [Request -> {"idle", "throttle", "load", "handle", "done"}]
    /\ wire \in [Request -> Wire \cup {NONE}] /\ \A r \in Request : pc[r] # "idle" => wire[r] \in Wire
    /\ counted \in [Key -> SUBSET Request]
    /\ answer \in [Request -> Status \cup {NONE}] /\ lines \in [Request -> Seq(Status)]
    /\ \A r \in Request : pc[r] = "done" <=> answer[r] # NONE
    /\ ran \subseteq Request /\ entitled \subseteq Request
    /\ barred \subseteq Request /\ late \subseteq Request

-----------------------------------------------------------------------------
(* What the guards read off a request. *)

\* The extractor of JwtStrategy: with a Bearer header the cookie is not read.
jwtFromRequest(w) == IF w.scheme = "Bearer" THEN w.bearer ELSE w.cookie

\* Slip: the cookie is looked at first.
cookieFirst(w) ==
    IF w.cookie \in Token THEN Subject[w.cookie]
    ELSE IF w.scheme = "Bearer" /\ w.bearer \in Token THEN Subject[w.bearer] ELSE ANONYMOUS

\* getTracker decodes without verifying, and falls through from an unreadable
\* Bearer token to the cookie.
getTracker(w) ==
    IF w.scheme = "Bearer" /\ w.bearer \in Token THEN Subject[w.bearer]
    ELSE IF w.cookie \in Token THEN Subject[w.cookie] ELSE ANONYMOUS

\* secretOrKey and ignoreExpiration: a token of ours, before its exp.
verifies(t) == t \in Token \ lapsed

keyOf(w) == <<getTracker(w), throttlerOf(w.route), Route[w.route].path>>

\* Slip: any Authorization header exempts from the check.
exemptWithHeader(w) ==
    Route[w.route].mutating /\ w.scheme = "absent" /\ w.cookie # NONE => w.csrf

\* CsrfGuard.
CsrfHolds(w) ==
    Route[w.route].mutating /\ w.scheme # "Bearer" /\ w.cookie # NONE => w.csrf

\* ActiveUserGuard, and RolesGuard after it.
Active(setting) == setting # NONE /\ setting.isActive
Permits(setting, n) == Active(setting) /\ setting.role \in Route[n].roles

Acting(w) == Subject[jwtFromRequest(w)]
Entitled(table, w) == jwtFromRequest(w) \in Token /\ Permits(table[Acting(w)], w.route)

-----------------------------------------------------------------------------
(* Answers. *)

\* Slip: the status property of whatever was thrown.
anyStatus(e) == e.status

\* Slip: the filter knows HttpException only.
httpOnlyStatus(e) == IF e.kind = "http" THEN e.status ELSE 500

\* The filter's status of what was thrown.
filterStatus(e) == IF e.kind = "plain" THEN 500 ELSE e.status

\* err.status || 500 of the interceptor.
interceptorStatus(e) == IF e.status = NONE THEN 500 ELSE e.status

Finish(r, status, logged) ==
    /\ pc' = [pc EXCEPT ![r] = "done"]
    /\ answer' = [answer EXCEPT ![r] = status]
    /\ lines' = [lines EXCEPT ![r] = logged]

\* A guard throws: the interceptor has not run, the filter logs alone.
Refuse(r, e) == Finish(r, filterStatus(e), <<filterStatus(e)>>)

\* The pipe or the handler throws: the interceptor logs, then the filter.
Throw(r, e) == Finish(r, filterStatus(e), <<interceptorStatus(e), filterStatus(e)>>)

\* res.send answers 304 to a GET whose client has the body already; export writes
\* to the response itself.
sends(n, ok) ==
    IF ok = 200 /\ ~Route[n].mutating /\ n # "exportCsv" THEN {200, 304} ELSE {ok}

\* The interceptor logs what the handler left in the response, then Nest sends it.
\* For the test code githubCallback has sent its JSON by then and returns the
\* Response: Nest fails to serialise it, and the filter logs 500 - again, it may
\* be, when its own answer fails, as the first one was sent.
Succeed(r) ==
    LET n == wire[r].route
    IN  \E ok \in Route[n].ok : \E status \in sends(n, ok) :
           IF n = "githubCallback" /\ ok = 200
             THEN \E logged \in {<<status, 500>>, <<status, 500, 500>>} :
                     Finish(r, status, logged)
             ELSE Finish(r, status, <<ok>>)

Goto(r, location) == /\ pc' = [pc EXCEPT ![r] = location]
                     /\ UNCHANGED <<answer, lines>>
-----------------------------------------------------------------------------
Init ==
    /\ settings \in [User -> Setting]
    /\ lapsed = {} /\ changes = 0
    /\ pc = [r \in Request |-> "idle"]
    /\ wire = [r \in Request |-> NONE]
    /\ counted = [k \in Key |-> {}]
    /\ answer = [r \in Request |-> NONE] /\ lines = [r \in Request |-> <<>>]
    /\ ran = {} /\ entitled = {} /\ barred = {} /\ late = {}

\* ApiVersionGuard, without an await before the limiter's.
Receive(r, w) ==
    /\ pc[r] = "idle"
    /\ wire' = [wire EXCEPT ![r] = w]
    /\ IF StartsWithApi(w.route) /\ w.version # "1"
         THEN Refuse(r, Http(400)) ELSE Goto(r, "throttle")
    /\ IF Entitled(settings, w) THEN entitled' = entitled \cup {r} /\ UNCHANGED barred
                                ELSE barred' = barred \cup {r} /\ UNCHANGED entitled
    /\ late' = IF jwtFromRequest(w) \in lapsed THEN late \cup {r} ELSE late
    /\ UNCHANGED <<world, counted, ran>>

\* RedisThrottlerGuard: one of the two throttlers applies and counts the request
\* in one transaction.  Then, without another await, JwtAuthGuard: a public
\* route is through, the others need a token that verifies.
Throttle(r) ==
    /\ pc[r] = "throttle"
    /\ LET w == wire[r]
           members == counted[keyOf(w)] \cup {r}
       IN  /\ counted' = [counted EXCEPT ![keyOf(w)] = members]
           /\ IF Cardinality(members) > Limit[throttlerOf(w.route)]
                THEN Refuse(r, Http(429)) /\ UNCHANGED ran
              ELSE IF IsPublic(w.route)
                THEN Goto(r, "handle") /\ ran' = ran \cup {r}
              ELSE IF verifies(jwtFromRequest(w))
                THEN Goto(r, "load") /\ UNCHANGED ran
              ELSE Refuse(r, Http(401)) /\ UNCHANGED ran
    /\ UNCHANGED <<world, wire, entitled, barred, late>>

\* Redis refuses the transaction, or executes it and answers too little of it.
ThrottleFails(r) ==
    /\ pc[r] = "throttle"
    /\ \E e \in {Http(500), Plain} : Refuse(r, e)
    /\ \E members \in {{}, {r}} :
          counted' = [counted EXCEPT ![keyOf(wire[r])] = @ \cup members]
    /\ UNCHANGED <<world, wire, history>>

\* Slip: the role is taken from the token.
LoadSignedRole(r) ==
    /\ pc[r] = "load"
    /\ LET w == wire[r]
           claimed == [role |-> SignedRole[jwtFromRequest(w)], isActive |-> TRUE]
       IN  IF Permits(claimed, w.route) /\ CsrfHolds(w)
             THEN Goto(r, "handle") /\ ran' = ran \cup {r}
             ELSE Refuse(r, Http(403)) /\ UNCHANGED ran
    /\ UNCHANGED <<world, wire, counted, entitled, barred, late>>

\* JwtStrategy.validate, and the guards that follow on the row it read.
Load(r) ==
    /\ pc[r] = "load"
    /\ LET w == wire[r]
           setting == settings[Acting(w)]
       IN  IF setting = NONE THEN Refuse(r, Http(401)) /\ UNCHANGED ran
           ELSE IF Permits(setting, w.route) /\ CsrfHolds(w)
             THEN Goto(r, "handle") /\ ran' = ran \cup {r}
           ELSE Refuse(r, Http(403)) /\ UNCHANGED ran
    /\ UNCHANGED <<world, wire, counted, entitled, barred, late>>

\* findById rejects; handleRequest of the guard throws what it was given.
LoadFails(r) ==
    /\ pc[r] = "load"
    /\ Refuse(r, Plain)
    /\ UNCHANGED <<world, wire, counted, history>>

\* The ValidationPipe, then the handler.
Handle(r) ==
    /\ pc[r] = "handle"
    /\ LET entry == Route[wire[r].route]
           failed == Violations(entry.dto, wire[r].defect)
       IN  IF failed # {} THEN Throw(r, exceptionFactory(failed))
           ELSE Succeed(r) \/ \E e \in entry.throws : Throw(r, e)
    /\ UNCHANGED <<world, wire, counted, history>>

\* An operator changes, removes or restores a row of users.
ChangeSetting(u, s) ==
    /\ changes < MaxChanges /\ s # settings[u]
    /\ changes' = changes + 1
    /\ settings' = [settings EXCEPT ![u] = s]
    /\ LET open == {r \in Request : pc[r] \in {"throttle", "load"}}
           may == {r \in open : Entitled(settings', wire[r])}
       IN  entitled' = entitled \cup may /\ barred' = barred \cup (open \ may)
    /\ UNCHANGED <<lapsed, pc, wire, counted, answer, lines, ran, late>>

Lapse(t) ==
    /\ t \notin lapsed
    /\ lapsed' = lapsed \cup {t}
    /\ UNCHANGED <<settings, changes, pc, wire, counted, answer, lines, history>>

Next ==
    \/ \E r \in Request : \/ \E w \in Wire : Receive(r, w)
                          \/ Throttle(r) \/ ThrottleFails(r)
                          \/ Load(r) \/ LoadFails(r) \/ Handle(r)
    \/ \E u \in User, s \in Setting \cup {NONE} : ChangeSetting(u, s)
    \/ \E t \in Token : Lapse(t)

Spec == Init /\ [][Next]_vars

-----------------------------------------------------------------------------
(* Safety. *)

Protected(r) == r \in ran /\ ~IsPublic(wire[r].route)

\* README "RBAC ... Inactive users receive 403": a handler of a protected route
\* runs only for a user that was active and had the role at some moment since
\* the request arrived, whatever the token says of the role, and only with a
\* token that had not lapsed by then; a 403 means the user was not entitled at
\* some moment, or the CSRF check failed.
DecisionIsCurrent ==
    \A r \in Request :
        /\ Protected(r) => r \in entitled \ late
        /\ answer[r] = 403 => r \in barred \/ ~CsrfHolds(wire[r])

\* README "applied per user (by JWT sub)": in one window the handlers of a path
\* run at most Limit times for a user, in whichever of header and cookie the
\* user puts tokens, and whatever else is put in the other one.
ActorWithinLimit ==
    \A u \in User, n \in RouteNames :
        Cardinality({r \in Request : /\ Protected(r) /\ Acting(wire[r]) = u
                                     /\ Route[wire[r].route].path = Route[n].path})
        <= Limit[throttlerOf(n)]

\* README "CSRF protection": a change made with the credentials of the cookie
\* was confirmed by the double-submitted token.
CookieWriteIsConfirmed ==
    \A r \in Request :
        Protected(r) /\ Route[wire[r].route].mutating /\ wire[r].scheme # "Bearer"
        => wire[r].csrf

\* Interceptor and filter compute the status of an error apart from each other,
\* before or after the answer is sent: a line shows the status the client received,
\* but for the 200 of a body that the client had already (304), and the 500 after
\* a callback that was answered with JSON.
Tells(logged, n, status) ==
    /\ DOMAIN logged # {}
    /\ \A i \in DOMAIN logged :
          \/ logged[i] = status
          \/ logged[i] = 200 /\ status = 304 /\ i = 1
          \/ logged[i] = 500 /\ status \in {200, 304} /\ i > 1 /\ n = "githubCallback"
LoggedStatusIsAnswered ==
    \A r \in Request : pc[r] = "done" => Tells(lines[r], wire[r].route, answer[r])

-----------------------------------------------------------------------------
(* The inductive invariant behind the four properties. *)

\* What the guards a request has passed have found out.
GuardsHavePassed ==
    \A r \in Request :
        /\ r \in ran => pc[r] \in {"handle", "done"}
        /\ pc[r] = "load" \/ Protected(r) => jwtFromRequest(wire[r]) \in Token /\ r \notin late
        /\ pc[r] = "handle" => r \in ran
        /\ r \in late => pc[r] # "idle" /\ jwtFromRequest(wire[r]) \in lapsed

\* The histories of a request that is not yet decided on know its user's row.
HistoriesAreCurrent ==
    \A r \in Request : pc[r] \in {"throttle", "load"} =>
        IF Entitled(settings, wire[r]) THEN r \in entitled ELSE r \in barred

\* Requests the limiter has let through, of those it has counted for a key.
Admitted(k) == {r \in counted[k] : pc[r] = "load" \/ r \in ran}

AdmittedAreCounted ==
    /\ \A k \in Key :
          /\ IsFiniteSet(counted[k]) /\ Cardinality(Admitted(k)) <= Limit[k[2]]
          /\ \A r \in counted[k] : pc[r] \in {"load", "handle", "done"}
    /\ \A r \in Request : pc[r] = "load" \/ r \in ran => r \in counted[keyOf(wire[r])]

Inv == /\ GuardsHavePassed /\ HistoriesAreCurrent /\ AdmittedAreCounted
       /\ DecisionIsCurrent /\ CookieWriteIsConfirmed /\ LoggedStatusIsAnswered
================================================================================
