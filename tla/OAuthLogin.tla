------------------------------ MODULE OAuthLogin ------------------------------
(***************************************************************************)
(* The login with GitHub: the state and the code verifier kept in Redis    *)
(* between two requests, the callback with its calls to GitHub, and the    *)
(* table of users, which the callback, POST /users and the seed write.     *)
(* Each await of the callback is a step: other callbacks, the expiry of    *)
(* the state, failures and a crash may come between.                       *)
(***************************************************************************)
EXTENDS Naturals, FiniteSets

CONSTANTS
    GithubId, Attempt, Callback, Creation,
    Code,          \* the codes GitHub hands out
    ANY,           \* the code 'test_code'
    FRONTEND,      \* config.auth.frontendUrl
    LISTENER,      \* http://localhost:1234/callback
    CUSTOM,        \* a redirect_uri that is a URL
    MALFORMED,     \* a redirect_uri that is no URL
    NONE,          \* absent
    Asked,         \* what clients ask GET /auth/github for
    MaxSeeds,      \* bound: rows written by runs of the seed script
    MaxFaults      \* bound: failures and crashes

Role == {"ADMIN", "ANALYST"}
AttemptType == [clientType : {"web", "cli"}, redirect : {CUSTOM, MALFORMED, NONE}]
CallbackArgs == [code : Code \cup {ANY, NONE}, state : Attempt \cup {NONE}, client_type : {"web", NONE}]
CreationArgs == [githubId : GithubId, role : Role]
LoginUser == [user : GithubId, role : Role, client : {"web", "cli"}]
Session == [user : GithubId, role : Role, clientType : {"web", "cli"}, stored : BOOLEAN]
AnswerType == [form : {"error", "cookies", "json", "redirect", "created", "lost"},
               to : {400, 401, 409, 500, FRONTEND, LISTENER, CUSTOM, MALFORMED, NONE}]

ASSUME ConstantsAssumption ==
    /\ Asked \subseteq AttemptType
    /\ NONE \notin AttemptType \cup Attempt \cup Code /\ ANY \notin Code \cup {NONE}
    /\ NONE \notin Role \cup (Attempt \X GithubId) \cup Session \cup AnswerType
    /\ Callback \cap Creation = {}
    /\ MaxSeeds \in Nat /\ MaxFaults \in Nat

VARIABLES
    attempts,      \* what GET /auth/github was asked, by state
    stored,        \* the keys github_auth_state:<state> in Redis
    issued,        \* the attempt and the account each of GitHub's codes is for
    spent,         \* codes GitHub has exchanged
    users,         \* the role of each row of users, by github_id
    sessions,      \* the row of auth_sessions a callback made
    pc,            \* where a callback or a creation is
    args,          \* its arguments
    found,         \* what its last read returned
    answer,        \* what the client received
    seeds, faults, \* rows seeded and faults so far
    \* histories for the properties
    hit,           \* calls a fault has hit
    consumed,      \* callbacks whose state was gone or taken when they arrived
    sound,         \* callbacks that came first with the state and a code for it, alone
    inserted,      \* creations that inserted their row
    admins         \* accounts that were ADMIN at some moment since a callback arrived

external == <<issued, spent>>
bounds == <<seeds, faults>>
progress == <<pc, args, found, answer>>
history == <<hit, consumed, sound, inserted, admins>>
vars == <<attempts, stored, external, users, sessions, progress, bounds, history>>

Call == Callback \cup Creation
Live(c) == pc[c] \notin {"idle", "done"}
Admins == {g \in GithubId : users[g] = "ADMIN"}

\* Answers: a refusal, cookies with a redirect to the frontend, JSON, a redirect
\* with the tokens in the URL, a created row; LOST when the process died.
Refused(status) == [form |-> "error", to |-> status]
InCookies == [form |-> "cookies", to |-> FRONTEND]
InJson == [form |-> "json", to |-> NONE]
Redirected(to) == [form |-> "redirect", to |-> to]
Created == [form |-> "created", to |-> NONE]
LOST == [form |-> "lost", to |-> NONE]
Delivered(c) == answer[c] # NONE /\ answer[c].form \in {"cookies", "json", "redirect"}

CallbackLocation == {"idle", "admin", "get", "del", "exchange", "upsert", "create", "store", "done"}
CreationLocation == {"idle", "find", "insert", "done"}

TypeOK ==
    /\ attempts \in [Attempt -> Asked \cup {NONE}]
    /\ stored \subseteq {a \in Attempt : attempts[a] # NONE}
    /\ issued \in [Code -> (Attempt \X GithubId) \cup {NONE}]
    /\ spent \subseteq {k \in Code : issued[k] # NONE}
    /\ users \in [GithubId -> Role \cup {NONE}]
    /\ sessions \in [Callback -> Session \cup {NONE}]
    /\ \A c \in Callback : sessions[c] # NONE => users[sessions[c].user] # NONE
    /\ pc \in [Call -> CallbackLocation \cup CreationLocation]
    /\ \A c \in Callback : /\ pc[c] \in CallbackLocation
                           /\ args[c] \in CallbackArgs \/ (args[c] = NONE /\ pc[c] = "idle")
    /\ \A c \in Creation : /\ pc[c] \in CreationLocation
                           /\ args[c] \in CreationArgs \/ (args[c] = NONE /\ pc[c] = "idle")
    /\ args \in [Call -> CallbackArgs \cup CreationArgs \cup {NONE}]
    /\ found \in [Call -> AttemptType \cup LoginUser \cup {NONE}]
    /\ answer \in [Call -> AnswerType \cup {NONE}]
    /\ \A c \in Call : pc[c] = "done" <=> answer[c] # NONE
    /\ hit \subseteq Call /\ consumed \subseteq Callback /\ sound \subseteq Callback
    /\ inserted \subseteq Creation /\ admins \in [Callback -> SUBSET GithubId]
    /\ seeds \in 0 .. MaxSeeds /\ faults \in 0 .. MaxFaults

-----------------------------------------------------------------------------
Init ==
    /\ attempts = [a \in Attempt |-> NONE] /\ stored = {}
    /\ issued = [k \in Code |-> NONE] /\ spent = {}
    /\ users = [g \in GithubId |-> NONE]
    /\ sessions = [c \in Callback |-> NONE]
    /\ pc = [c \in Call |-> "idle"] /\ args = [c \in Call |-> NONE]
    /\ found = [c \in Call |-> NONE] /\ answer = [c \in Call |-> NONE]
    /\ seeds = 0 /\ faults = 0
    /\ hit = {} /\ consumed = {} /\ sound = {} /\ inserted = {}
    /\ admins = [c \in Callback |-> {}]

Answer(c, a) ==
    /\ pc' = [pc EXCEPT ![c] = "done"]
    /\ answer' = [answer EXCEPT ![c] = a]
    /\ found' = [found EXCEPT ![c] = NONE]

Goto(c, location, value) ==
    /\ pc' = [pc EXCEPT ![c] = location]
    /\ found' = [found EXCEPT ![c] = value]
    /\ UNCHANGED answer

Await(c, location) == pc[c] = location

\* Callbacks under way have seen the roles change.
Witness ==
    admins' = [c \in Callback |->
        IF Live(c) THEN admins[c] \cup {g \in GithubId : users'[g] = "ADMIN"} ELSE admins[c]]

-----------------------------------------------------------------------------
(* GET /auth/github, and GitHub. *)

getGitHubAuthUrl(a, query) ==
    /\ attempts[a] = NONE
    /\ attempts' = [attempts EXCEPT ![a] = query]
    /\ stored' = stored \cup {a}
    /\ UNCHANGED <<external, users, sessions, progress, bounds, history>>

\* EX 600.
Expire(a) ==
    /\ a \in stored
    /\ stored' = stored \ {a}
    /\ sound' = {c \in sound : ~(pc[c] = "get" /\ args[c].state = a)}
    /\ UNCHANGED <<attempts, external, users, sessions, progress, bounds,
                   hit, consumed, inserted, admins>>

\* The holder of an account agrees, and GitHub makes a code for the challenge.
Authorize(k, a, g) ==
    /\ issued[k] = NONE /\ attempts[a] # NONE
    /\ issued' = [issued EXCEPT ![k] = <<a, g>>]
    /\ UNCHANGED <<attempts, stored, spent, users, sessions, progress, bounds, history>>

\* A code is exchanged once, and a code verifier that is sent must fit.
Accepts(k, verifier) == k \notin spent /\ verifier \in {issued[k][1], NONE}

-----------------------------------------------------------------------------
(* GET /auth/github/callback. *)

\* Without a code, and with the test code, the state is not looked at.
Arguments ==
    [code : {k \in Code : issued[k] # NONE},
     state : {a \in Attempt : attempts[a] # NONE} \cup {NONE}, client_type : {"web", NONE}]
    \cup [code : {ANY, NONE}, state : {NONE}, client_type : {"web", NONE}]

\* d is past the deletion of the state it carries.
PastDeletion(d) == pc[d] \in {"exchange", "upsert", "create", "store"} \/ sessions[d] # NONE
TookState(d, a) == args[d] # NONE /\ args[d].state = a /\ PastDeletion(d)

githubCallback(c, w) ==
    /\ pc[c] = "idle"
    /\ args' = [args EXCEPT ![c] = w]
    /\ IF w.code = NONE \/ (w.state = NONE /\ w.code # ANY) THEN Answer(c, Refused(400))
       ELSE Goto(c, IF w.code = ANY THEN "admin" ELSE "get", NONE)
    /\ admins' = [admins EXCEPT ![c] = Admins]
    /\ consumed' = IF w.state \notin stored \/ \E d \in Callback : TookState(d, w.state)
                     THEN consumed \cup {c} ELSE consumed
    /\ LET first == /\ w.state \in stored
                    /\ w.code \in Code \ spent /\ issued[w.code][1] = w.state
                    /\ \A d \in Callback : ~Live(d)
                    /\ \A d \in Callback : sessions[d] = NONE \/ sessions[d].stored
       IN sound' = IF first THEN {c} ELSE {}
    /\ UNCHANGED <<attempts, stored, external, users, sessions, bounds, hit, inserted>>

\* issueAdminTestTokens.
FindAdmin(c) ==
    /\ Await(c, "admin")
    /\ IF Admins = {} THEN Answer(c, Refused(401))
       ELSE \E g \in Admins : Goto(c, "create", [user |-> g, role |-> users[g], client |-> "cli"])
    /\ UNCHANGED <<attempts, stored, external, users, sessions, args, bounds, history>>

\* Slip: DEL before GET.
DeleteFirst(c) ==
    /\ Await(c, "get")
    /\ stored' = stored \ {args[c].state}
    /\ Answer(c, Refused(400))
    /\ UNCHANGED <<attempts, external, users, sessions, args, bounds, history>>

GetState(c) ==
    /\ Await(c, "get")
    /\ IF args[c].state \in stored THEN Goto(c, "del", attempts[args[c].state])
       ELSE Answer(c, Refused(400))
    /\ UNCHANGED <<attempts, stored, external, users, sessions, args, bounds, history>>

DeleteState(c) ==
    /\ Await(c, "del")
    /\ stored' = stored \ {args[c].state}
    /\ Goto(c, "exchange", found[c])
    /\ UNCHANGED <<attempts, external, users, sessions, args, bounds, history>>

\* Slip: the exchange without the code verifier.
noVerifier(c) == NONE

code_verifier(c) == args[c].state

\* POST /login/oauth/access_token, with the token or an error in the answer, and
\* GET https://api.github.com/user.
Exchange(c) ==
    /\ Await(c, "exchange")
    /\ IF Accepts(args[c].code, code_verifier(c))
         THEN spent' = spent \cup {args[c].code} /\ Goto(c, "upsert", found[c])
         ELSE UNCHANGED spent /\ Answer(c, Refused(400))
    /\ UNCHANGED <<attempts, stored, issued, users, sessions, args, bounds, history>>

\* Slip: an update where there may be no row.
unchanged(g) == users[g]

\* Slip: the update resets the role.
asAnalyst(g) == "ANALYST"

\* The role findOrCreateByGithub leaves: the update does not mention it, the
\* create takes the default of the schema.
roleAfterLogin(g) == IF users[g] = NONE THEN "ANALYST" ELSE users[g]

\* One statement, then login starts with the row it returned.
findOrCreateByGithub(c) ==
    /\ Await(c, "upsert")
    /\ LET g == issued[args[c].code][2]
       IN  /\ users' = [users EXCEPT ![g] = roleAfterLogin(g)]
           /\ Goto(c, "create", [user |-> g, role |-> roleAfterLogin(g),
                                 client |-> found[c].clientType])
    /\ UNCHANGED <<attempts, stored, external, sessions, args, bounds, history>>

\* refreshTokenHash is 'PENDING' for every new session, and unique.
Pending == \E c \in Callback : sessions[c] # NONE /\ ~sessions[c].stored

\* login: updateLastLogin (nothing reads the time), then createSession.
CreateSession(c) ==
    /\ Await(c, "create")
    /\ IF Pending THEN Answer(c, Refused(500)) /\ UNCHANGED sessions
       ELSE /\ sessions' = [sessions EXCEPT ![c] =
                   [user |-> found[c].user, role |-> found[c].role,
                    clientType |-> found[c].client, stored |-> FALSE]]
            /\ Goto(c, "store", found[c])
    /\ UNCHANGED <<attempts, stored, external, users, args, bounds, history>>

\* Slip: the query parameter decides for every login.
byParameter(c) == IF args[c].client_type = "web" THEN InCookies ELSE Redirected(LISTENER)

\* The end of githubCallback; new URL throws for a text that is no URL.
delivery(c) ==
    IF args[c].code = ANY
      THEN IF args[c].client_type = "web" THEN InCookies ELSE InJson
    ELSE LET state == attempts[args[c].state]
         IN  IF state.clientType = "web" THEN InCookies
             ELSE IF state.redirect = MALFORMED THEN Refused(500)
             ELSE Redirected(IF state.redirect = NONE THEN LISTENER ELSE state.redirect)

\* The digest of the refresh token replaces 'PENDING', and the client is answered.
StoreHash(c) ==
    /\ Await(c, "store")
    /\ sessions' = [sessions EXCEPT ![c].stored = TRUE]
    /\ Answer(c, delivery(c))
    /\ UNCHANGED <<attempts, stored, external, users, args, bounds, history>>

\* Redis or the database refuses, or executes and the answer is lost.  Of
\* GitHub's calls both ends of a failure are 401; the rejection of the upsert
\* is not awaited inside the try, so it is 500.
CallFails(c) ==
    /\ faults < MaxFaults /\ faults' = faults + 1 /\ hit' = hit \cup {c}
    /\ pc[c] \notin {"idle", "done"}
    /\ Answer(c, Refused(IF pc[c] = "exchange" THEN 401 ELSE 500))
    /\ \/ UNCHANGED <<stored, spent, sessions>>
       \/ pc[c] = "del" /\ stored' = stored \ {args[c].state} /\ UNCHANGED <<spent, sessions>>
       \/ /\ pc[c] = "exchange" /\ Accepts(args[c].code, code_verifier(c))
          /\ spent' = spent \cup {args[c].code} /\ UNCHANGED <<stored, sessions>>
       \/ /\ pc[c] = "store" /\ sessions' = [sessions EXCEPT ![c].stored = TRUE]
          /\ UNCHANGED <<stored, spent>>
    /\ sound' = sound \ {c}
    /\ UNCHANGED <<attempts, issued, users, args, seeds, consumed, inserted, admins>>

-----------------------------------------------------------------------------
(* POST /users and the seed script. *)

create(c, g, role) ==
    /\ pc[c] = "idle"
    /\ args' = [args EXCEPT ![c] = [githubId |-> g, role |-> role]]
    /\ Goto(c, "find", NONE)
    /\ UNCHANGED <<attempts, stored, external, users, sessions, bounds, history>>

findByGithubId(c) ==
    /\ Await(c, "find")
    /\ IF users[args[c].githubId] # NONE THEN Answer(c, Refused(409)) ELSE Goto(c, "insert", NONE)
    /\ UNCHANGED <<attempts, stored, external, users, sessions, args, bounds, history>>

\* Slip: the insert overwrites the row a login has made meanwhile.
Overwrite(c) ==
    /\ Await(c, "insert")
    /\ users' = [users EXCEPT ![args[c].githubId] = args[c].role]
    /\ inserted' = inserted \cup {c}
    /\ Answer(c, Created)
    /\ Witness
    /\ UNCHANGED <<attempts, stored, external, sessions, args, bounds, hit, consumed, sound>>

\* github_id is unique: the insert that comes second is refused, which is no
\* HttpException.
Insert(c) ==
    /\ Await(c, "insert")
    /\ LET g == args[c].githubId
       IN  IF users[g] = NONE
             THEN /\ users' = [users EXCEPT ![g] = args[c].role]
                  /\ inserted' = inserted \cup {c}
                  /\ Answer(c, Created)
             ELSE UNCHANGED <<users, inserted>> /\ Answer(c, Refused(500))
    /\ Witness
    /\ UNCHANGED <<attempts, stored, external, sessions, args, bounds, hit, consumed, sound>>

\* The seed upserts each of its users, role included.
Seed(g, role) ==
    /\ seeds < MaxSeeds /\ seeds' = seeds + 1
    /\ users' = [users EXCEPT ![g] = role]
    /\ Witness
    /\ UNCHANGED <<attempts, stored, external, sessions, progress, faults,
                   hit, consumed, sound, inserted>>

Crash ==
    LET live == {c \in Call : Live(c)}
    IN  /\ faults < MaxFaults /\ faults' = faults + 1 /\ live # {}
        /\ hit' = hit \cup live /\ sound' = sound \ live
        /\ pc' = [c \in Call |-> IF c \in live THEN "done" ELSE pc[c]]
        /\ answer' = [c \in Call |-> IF c \in live THEN LOST ELSE answer[c]]
        /\ UNCHANGED <<attempts, stored, external, users, sessions, args, found, seeds,
                       consumed, inserted, admins>>

Next ==
    \/ \E a \in Attempt : \/ \E query \in Asked : getGitHubAuthUrl(a, query)
                          \/ Expire(a)
                          \/ \E k \in Code, g \in GithubId : Authorize(k, a, g)
    \/ \E c \in Callback : \/ \E w \in Arguments : githubCallback(c, w)
                           \/ FindAdmin(c) \/ GetState(c) \/ DeleteState(c) \/ Exchange(c)
                           \/ findOrCreateByGithub(c) \/ CreateSession(c) \/ StoreHash(c)
    \/ \E c \in Creation : \/ \E g \in GithubId, role \in Role : create(c, g, role)
                           \/ findByGithubId(c) \/ Insert(c)
    \/ \E c \in Call : CallFails(c)
    \/ \E g \in GithubId, role \in Role : Seed(g, role)
    \/ Crash

Spec == Init /\ [][Next]_vars

-----------------------------------------------------------------------------
(* Safety. *)

Issued(c) == sessions[c] # NONE

\* PKCE (README "GitHub OAuth with PKCE"): a session comes from a code that
\* GitHub made for the very attempt whose state the callback carries, and is
\* one of the account that agreed; the test code's session is one of an account
\* that was an ADMIN since the callback arrived.  The state is read and then
\* deleted: callbacks that overlap may both pass, but one that arrives after the
\* deletion or the expiry gets nothing.
SessionIsForItsAttempt ==
    \A c \in Callback : Issued(c) =>
        IF args[c].code = ANY THEN sessions[c].user \in admins[c]
        ELSE /\ c \notin consumed
             /\ issued[args[c].code] = <<args[c].state, sessions[c].user>>

\* The browser or the CLI that asked for the login is the one that is answered:
\* client_type and redirect_uri of GET /auth/github decide, through Redis, how
\* the callback delivers, and the session is registered for the same client.  A
\* session whose tokens nobody received is left behind by a fault, or by a
\* redirect_uri that is no URL, which is noticed after the session was made.
DeliveredAsAsked ==
    \A c \in Callback : Issued(c) /\ pc[c] = "done" =>
        LET asked == attempts[args[c].state]
        IN  \/ ~Delivered(c) /\ c \in hit
            \/ args[c].code = ANY /\ Delivered(c)
            \/ args[c].code # ANY /\ ~Delivered(c) /\ asked.redirect = MALFORMED
            \/ /\ args[c].code # ANY /\ Delivered(c)
               /\ sessions[c].clientType = asked.clientType
               /\ answer[c].form = "cookies" <=> asked.clientType = "web"
               /\ answer[c].form = "redirect" =>
                    answer[c].to = IF asked.redirect = NONE THEN LISTENER ELSE asked.redirect

\* A callback that comes first with its state and a code for it, and that
\* neither another callback nor the expiry nor a fault disturbs, logs in.
FirstCallbackLogsIn ==
    \A c \in sound : pc[c] = "done" =>
        Delivered(c) \/ (Issued(c) /\ attempts[args[c].state].redirect = MALFORMED)

\* Logins and creations never change the role of a row that is there: what the
\* seed or POST /users gave survives every login, also one that runs meanwhile.
RoleSurvives ==
    [][\A g \in GithubId :
          users[g] # NONE /\ users'[g] # users[g] => seeds' > seeds]_vars

\* UserService.create looks before it inserts: of the creations and logins of
\* one account that race, one inserts, and an undisturbed creation that is
\* refused leaves a row behind.
CreationsAgree ==
    \A c \in Creation : pc[c] = "done" =>
        /\ c \notin inserted /\ c \notin hit => users[args[c].githubId] # NONE
        /\ \A d \in inserted : c \in inserted /\ args[c].githubId = args[d].githubId => c = d

-----------------------------------------------------------------------------
(* What every reachable state satisfies, for the proofs. *)

WithState(c) == args[c].code \in Code /\ args[c].state \in Attempt
Exchanging(c) == pc[c] \in {"del", "exchange", "upsert"}
LoggingIn(c) == pc[c] \in {"create", "store"}

\* The arguments of a callback came from GET /auth/github and from GitHub, and
\* only the test code gets past the first check without both of them.
ArgumentsFit(c) ==
    /\ pc[c] # "idle" => /\ args[c].state \in Attempt => attempts[args[c].state] # NONE
                         /\ args[c].code \in Code => issued[args[c].code] # NONE
    /\ pc[c] = "admin" => args[c].code = ANY /\ args[c].state = NONE
    /\ pc[c] = "get" \/ Exchanging(c) => WithState(c)
    /\ LoggingIn(c) \/ Issued(c) => args[c].code = ANY \/ WithState(c)

\* The user and the client a login goes on with.
LoginFits(c) ==
    /\ found[c] \in LoginUser /\ users[found[c].user] # NONE
    /\ IF args[c].code = ANY THEN found[c].user \in admins[c]
       ELSE /\ found[c].client = attempts[args[c].state].clientType
            /\ issued[args[c].code] = <<args[c].state, found[c].user>>

\* What a callback carries from one await to the next is still true of what it
\* has read.
ReadsFit(c) ==
    /\ Exchanging(c) => found[c] = attempts[args[c].state]
    /\ pc[c] = "upsert" => issued[args[c].code][1] = args[c].state
    /\ LoggingIn(c) => LoginFits(c)
    /\ Issued(c) => pc[c] \in {"store", "done"}
    /\ pc[c] = "store" => /\ Issued(c)
                          /\ sessions[c].user = found[c].user
                          /\ sessions[c].clientType = found[c].client
    /\ Live(c) => Admins \subseteq admins[c]

\* A state is never stored again, so a callback that finds it was not late.
StateIsGone(c) ==
    /\ c \in consumed => pc[c] # "idle"
    /\ c \in consumed \/ PastDeletion(c) => args[c].state \notin stored
    /\ (Exchanging(c) \/ LoggingIn(c)) /\ args[c].code # ANY => c \notin consumed

\* Nobody else is near a callback that counts as undisturbed.
SoundIsAlone(c) ==
    c \in sound =>
        /\ pc[c] # "idle" /\ WithState(c)
        /\ \A d \in Callback \ {c} : ~Live(d) /\ (sessions[d] = NONE \/ sessions[d].stored)
        /\ pc[c] = "get" => args[c].state \in stored
        /\ pc[c] \in {"get", "del", "exchange"} =>
             args[c].code \notin spent /\ issued[args[c].code][1] = args[c].state

CallbackFits(c) == ArgumentsFit(c) /\ ReadsFit(c) /\ StateIsGone(c) /\ SoundIsAlone(c)

\* A creation that has inserted is over, and its row is there.
CreationFits(d) == d \in inserted => pc[d] = "done" /\ users[args[d].githubId] # NONE

Inv ==
    /\ TypeOK
    /\ \A c \in Callback : CallbackFits(c)
    /\ \A d \in Creation : CreationFits(d)
    /\ SessionIsForItsAttempt /\ DeliveredAsAsked /\ FirstCallbackLogsIn /\ CreationsAgree
================================================================================
