-------------------------------- MODULE Upstream --------------------------------
(***************************************************************************)
(* The three services behind POST /api/profiles and the one behind GET     *)
(* /api/classify: calls in parallel with a timer each, answers that are    *)
(* late, never come or are of no use, the first failure that answers the   *)
(* request, and the row that is made of three answers.                     *)
(***************************************************************************)
EXTENDS Naturals, FiniteSets

CONSTANTS
    Request,
    Name,
    Mentions,     \* the services whose name is in a name
    Value,        \* what services say
    Bodies,       \* the answers each service may give
    MaxFaults,    \* bound: failures of the database and of Redis
    NONE          \* null, absent

Service == {"Genderize", "Agify", "Nationalize"}

\* Bodies of an answer: of use; null, 0 or without a country; without the field
\* that is looked for; a country that is no region; no body at all.
Quality == {"usable", "unusable", "shapeless", "nowhere", "empty"}
Body == [quality : Quality, value : Value]

Kind == {"create", "classify"}
Row == [by : Request, value : [Service -> Value]]
CallState == [state : {"unsent", "waiting", "answered", "failed"}, body : Body \cup {NONE}]
Answers == [status : {200, 201, 500, 502, 504}, service : Service \cup {NONE}]

ASSUME ConstantsAssumption ==
    /\ Mentions \in [Name -> SUBSET Service]
    /\ Bodies \in [Service -> SUBSET Body]
    /\ MaxFaults \in Nat
    /\ NONE \notin Body \cup Service \cup Kind \cup Answers /\ NONE \notin Row

\* Only Nationalize answers with countries.
ASSUME CountriesAssumption ==
    \A s \in Service : \A body \in Bodies[s] :
        body.quality = "nowhere" => s = "Nationalize"

VARIABLES
    rows,         \* profiles by name: the three values and the request that made it
    pc,           \* where a request is
    kind, name,   \* create or classify, and of which name
    call,         \* each call of a request: not sent, waiting, failed, or its answer
    answer,       \* status and, for an error, the service it names
    faults,
    failed,       \* history: requests a failure of the database or of Redis has hit
    slow          \* history: calls whose timer has fired

vars == <<rows, pc, kind, name, call, answer, faults, failed, slow>>

Status(s, blamed) == [status |-> s, service |-> blamed]
Unsent == [s \in Service |-> [state |-> "unsent", body |-> NONE]]
Callees(r) == IF kind[r] = "classify" THEN {"Genderize"} ELSE Service

LocationFits(r) ==
    /\ pc[r] = "idle" <=> kind[r] = NONE
    /\ pc[r] = "done" <=> answer[r] # NONE
    /\ pc[r] = "fetch" => \A s \in Callees(r) : call[r][s].state \in {"waiting", "answered"}
    /\ pc[r] = "insert" => \A s \in Service : call[r][s].state = "answered"

TypeOK ==
    /\ rows \in [Name -> Row \cup {NONE}]
    /\ pc \in [Request -> {"idle", "find", "fetch", "insert", "invalidate", "done"}]
    /\ kind \in [Request -> Kind \cup {NONE}] /\ name \in [Request -> Name \cup {NONE}]
    /\ call \in [Request -> [Service -> CallState]]
    /\ answer \in [Request -> Answers \cup {NONE}]
    /\ faults \in 0 .. MaxFaults
    /\ failed \subseteq Request /\ slow \subseteq Request \X Service
    /\ \A r \in Request : LocationFits(r)

Init ==
    /\ rows = [n \in Name |-> NONE]
    /\ pc = [r \in Request |-> "idle"]
    /\ kind = [r \in Request |-> NONE] /\ name = [r \in Request |-> NONE]
    /\ call = [r \in Request |-> Unsent]
    /\ answer = [r \in Request |-> NONE]
    /\ faults = 0 /\ failed = {} /\ slow = {}

Goto(r, location) == pc' = [pc EXCEPT ![r] = location] /\ UNCHANGED answer

Answer(r, a) == /\ pc' = [pc EXCEPT ![r] = "done"]
                /\ answer' = [answer EXCEPT ![r] = a]

Send(r, services) ==
    call' = [call EXCEPT ![r] = [s \in Service |->
        IF s \in services THEN [state |-> "waiting", body |-> NONE] ELSE @[s]]]

create(r, n) ==
    /\ pc[r] = "idle"
    /\ kind' = [kind EXCEPT ![r] = "create"] /\ name' = [name EXCEPT ![r] = n]
    /\ Goto(r, "find")
    /\ UNCHANGED <<rows, call, faults, failed, slow>>

getClassification(r, n) ==
    /\ pc[r] = "idle"
    /\ kind' = [kind EXCEPT ![r] = "classify"] /\ name' = [name EXCEPT ![r] = n]
    /\ Goto(r, "fetch")
    /\ Send(r, {"Genderize"})
    /\ UNCHANGED <<rows, faults, failed, slow>>

\* createProfile: a name that is there is returned as it is; otherwise the three
\* calls are sent together.
FindByName(r) ==
    /\ pc[r] = "find"
    /\ IF rows[name[r]] # NONE THEN Answer(r, Status(201, NONE)) /\ UNCHANGED call
       ELSE Goto(r, "fetch") /\ Send(r, Service)
    /\ UNCHANGED <<rows, kind, name, faults, failed, slow>>

\* Slip: the name of the service is copied from call to call.
genderizeAlways(r, s) == "Genderize"

\* serviceName of fetchWithProxy: what the URL includes, the name in it too.
serviceName(r, s) ==
    LET inUrl == {s} \cup Mentions[name[r]]
    IN  IF "Genderize" \in inUrl THEN "Genderize"
        ELSE IF "Agify" \in inUrl THEN "Agify" ELSE "Nationalize"

\* Slip: the other calls are waited for.
waitsForAll(r, s, timeout) == UNCHANGED <<pc, answer>>

\* Slip: a timeout is an outage like any other.
badGateway(r, s, timeout) == Answer(r, Status(502, serviceName(r, s)))

\* A call that fails or times out ends the request; Promise.all does not wait for
\* the others, whose answers come to nothing.
Fails(r, s, timeout) ==
    IF kind[r] = "classify"
      THEN Answer(r, Status(IF timeout THEN 504 ELSE 502, "Genderize"))
      ELSE Answer(r, Status(502, serviceName(r, s)))

Waiting(r, s) == pc[r] = "fetch" /\ call[r][s].state = "waiting"

\* An error status, a refused connection, an answer that cannot be read.
CallFails(r, s) ==
    /\ Waiting(r, s)
    /\ call' = [call EXCEPT ![r][s].state = "failed"]
    /\ Fails(r, s, FALSE)
    /\ UNCHANGED <<rows, kind, name, faults, failed, slow>>

\* Slip: the timeout is set for Genderize only.
genderizeTimer(s) == s = "Genderize"

\* timeout: 5000 of every call.
hasTimer(s) == s \in Service

\* The timer of the call fires before its answer.
Timeout(r, s) ==
    /\ Waiting(r, s) /\ hasTimer(s)
    /\ call' = [call EXCEPT ![r][s].state = "failed"]
    /\ slow' = slow \cup {<<r, s>>}
    /\ Fails(r, s, TRUE)
    /\ UNCHANGED <<rows, kind, name, faults, failed>>

\* What validateResponses refuses: null and 0, but not a missing field - except
\* that a missing list of countries is one without a country.
refuses(s, body) ==
    \/ body.quality = "unusable"
    \/ s = "Nationalize" /\ body.quality = "shapeless"

First(S) == CASE "Genderize" \in S -> "Genderize"
              [] "Genderize" \notin S /\ "Agify" \in S -> "Agify"
              [] OTHER -> "Nationalize"

\* Slip: what is missing is filled with a default.
lenient(bodies) ==
    IF \E s \in Service : bodies[s].quality = "empty" THEN Status(502, NONE) ELSE NONE

\* enrichProfile when all three have answered; NONE when the row can be made.  A
\* country that Intl.DisplayNames does not take is caught there as well.
verdict(bodies) ==
    LET refused == {s \in Service : refuses(s, bodies[s])}
    IN  IF \E s \in Service : bodies[s].quality = "empty" THEN Status(502, NONE)
        ELSE IF refused # {} THEN Status(502, First(refused))
        ELSE IF bodies["Nationalize"].quality = "nowhere" THEN Status(502, NONE)
        ELSE NONE

\* getClassification of an answer: what has no such field passes, null is caught.
classifications(body) ==
    CASE body.quality = "unusable" -> {Status(502, "Genderize")}
      [] body.quality = "empty" -> {Status(200, NONE), Status(502, "Genderize")}
      [] OTHER -> {Status(200, NONE)}

Receive(r, s, body) ==
    /\ Waiting(r, s)
    /\ call' = [call EXCEPT ![r][s] = [state |-> "answered", body |-> body]]
    /\ LET bodies == [t \in Service |-> call'[r][t].body]
       IN  IF kind[r] = "classify" THEN \E a \in classifications(body) : Answer(r, a)
           ELSE IF \E t \in Service : call'[r][t].state # "answered" THEN UNCHANGED <<pc, answer>>
           ELSE IF verdict(bodies) # NONE THEN Answer(r, verdict(bodies))
           ELSE Goto(r, "insert")
    /\ UNCHANGED <<rows, kind, name, faults, failed, slow>>

\* The name is unique; a row without age, or without gender, is refused by Prisma.
Insert(r) ==
    /\ pc[r] = "insert"
    /\ IF \/ rows[name[r]] # NONE
          \/ \E s \in Service : call[r][s].body.quality = "shapeless"
         THEN Answer(r, Status(500, NONE)) /\ UNCHANGED rows
         ELSE /\ rows' = [rows EXCEPT ![name[r]] =
                    [by |-> r, value |-> [s \in Service |-> call[r][s].body.value]]]
              /\ Goto(r, "invalidate")
    /\ UNCHANGED <<kind, name, call, faults, failed, slow>>

Invalidate(r) ==
    /\ pc[r] = "invalidate"
    /\ Answer(r, Status(201, NONE))
    /\ UNCHANGED <<rows, kind, name, call, faults, failed, slow>>

\* The database or Redis fails.
StoreFails(r) ==
    /\ pc[r] \in {"find", "insert", "invalidate"}
    /\ faults < MaxFaults /\ faults' = faults + 1 /\ failed' = failed \cup {r}
    /\ Answer(r, Status(500, NONE))
    /\ UNCHANGED <<rows, kind, name, call, slow>>

Step(r) == FindByName(r) \/ Insert(r) \/ Invalidate(r)

Next ==
    \E r \in Request :
        \/ \E n \in Name : create(r, n) \/ getClassification(r, n)
        \/ Step(r) \/ StoreFails(r)
        \/ \E s \in Service : \/ CallFails(r, s) \/ Timeout(r, s)
                              \/ \E body \in Bodies[s] : Receive(r, s, body)

\* The event loop runs what is ready, the database answers, timers fire.  Of the
\* services nothing is assumed.
Fairness ==
    \A r \in Request : WF_vars(Step(r)) /\ \A s \in Service : WF_vars(Timeout(r, s))

Spec == Init /\ [][Next]_vars /\ Fairness

-----------------------------------------------------------------------------
(* Properties. *)

\* A row is made of three answers of its own request, in time and of use: never
\* of two and a failure, and never of another request's.
StoredIsBacked ==
    \A n \in Name : rows[n] # NONE =>
        LET r == rows[n].by
        IN  /\ name[r] = n /\ kind[r] = "create"
            /\ \A s \in Service : /\ call[r][s].state = "answered"
                                  /\ call[r][s].body.quality = "usable"
                                  /\ rows[n].value[s] = call[r][s].body.value
                                  /\ <<r, s>> \notin slow

\* The service an error names is one that failed the request, unless the name
\* that was asked for mentions a service.
BlameIsRight ==
    \A r \in Request : pc[r] = "done" /\ answer[r].service # NONE =>
        \/ call[r][answer[r].service].state = "failed"
        \/ /\ call[r][answer[r].service].state = "answered"
           /\ call[r][answer[r].service].body.quality # "usable"
        \/ Mentions[name[r]] # {}

\* Whatever the services do, the client sees 502 or 504 and never 500, but for a
\* body that lacks the field: that passes validateResponses.  504 is the timeout
\* of a classification.
OutageIsGatewayError ==
    \A r \in Request : pc[r] = "done" =>
        /\ answer[r].status = 504 <=> kind[r] = "classify" /\ <<r, "Genderize">> \in slow
        /\ answer[r].status = 500 =>
             \/ r \in failed
             \/ \E s \in {"Genderize", "Agify"} :
                   call[r][s].state = "answered" /\ call[r][s].body.quality = "shapeless"
             \/ rows[name[r]] # NONE /\ rows[name[r]].by # r

\* Every request is answered, though a service may never answer: each call has
\* its timer.
EveryRequestSettles ==
    \A r \in Request : pc[r] # "idle" ~> pc[r] = "done"

-----------------------------------------------------------------------------
(* The inductive invariant behind the first three properties. *)

\* Calls are sent once, by requests that wait for them; none fails and none is
\* late but the one that ends its request.
CallsFollow ==
    \A r \in Request, s \in Service :
        /\ pc[r] \in {"idle", "find"} => call[r][s].state = "unsent"
        /\ kind[r] = "classify" /\ s # "Genderize" => call[r][s].state = "unsent"
        /\ call[r][s].state = "answered" => call[r][s].body \in Bodies[s]
        /\ call[r][s].state = "failed" => pc[r] = "done"
        /\ <<r, s>> \in slow => call[r][s].state = "failed"

\* A request that inserts is a create whose three answers were not refused.
InsertsAreClean ==
    \A r \in Request :
        /\ pc[r] # "idle" => name[r] \in Name
        /\ pc[r] \in {"find", "insert", "invalidate"} => kind[r] = "create"
        /\ pc[r] = "insert" => verdict([s \in Service |-> call[r][s].body]) = NONE

\* Who made a row is past its insert.
MakersAreDone ==
    \A n \in Name : rows[n] # NONE => pc[rows[n].by] \in {"invalidate", "done"}

Inv == /\ CallsFollow /\ InsertsAreClean /\ MakersAreDone
       /\ StoredIsBacked /\ BlameIsRight /\ OutageIsGatewayError
================================================================================
