----------------------------- MODULE UpstreamProofs -----------------------------
(***************************************************************************)
(* What Upstream says of rows, of blame and of statuses, for any requests, *)
(* names and answers of the services.  The argument: a request sends its   *)
(* calls once, and the first one that fails ends it, so that what its      *)
(* answer and its row were made of never changes afterwards.               *)
(***************************************************************************)
EXTENDS Upstream, TLAPS

-----------------------------------------------------------------------------
(* The operators the handlers use. *)

\* What the service names of errors are.
LEMMA NamesAreServices ==
    ASSUME TypeOK, NEW r \in Request, NEW s \in Service
    PROVE  /\ serviceName(r, s) \in Service
           /\ name[r] \in Name /\ Mentions[name[r]] = {} => serviceName(r, s) = s
BY DEF serviceName, Service

\* A verdict other than NONE is a 502, and names a service whose answer was
\* refused; without one, no answer is unusable, empty or nowhere.
LEMMA VerdictFacts ==
    ASSUME NEW bodies, \A s \in Service : bodies[s] \in Body
    PROVE  /\ verdict(bodies) \in Answers \cup {NONE}
           /\ verdict(bodies) # NONE =>
                /\ verdict(bodies).status = 502
                /\ verdict(bodies).service # NONE =>
                     bodies[verdict(bodies).service].quality # "usable"
           /\ verdict(bodies) = NONE =>
                /\ \A s \in Service : bodies[s].quality \in {"usable", "shapeless", "nowhere"}
                /\ bodies["Nationalize"].quality = "usable"
<1> DEFINE refused == {s \in Service : refuses(s, bodies[s])}
<1>1. refused # {} => First(refused) \in refused
  BY DEF First, Service
<1>2. \A s \in refused : s \in Service /\ bodies[s].quality # "usable"
  BY DEF refuses
<1>3. \A s \in Service \cup {NONE} :
        /\ Status(502, s) \in Answers /\ Status(502, s) # NONE
        /\ Status(502, s).status = 502 /\ Status(502, s).service = s
  BY ConstantsAssumption DEF Status, Answers
<1>n. /\ Status(502, NONE) \in Answers /\ Status(502, NONE) # NONE
      /\ Status(502, NONE).status = 502 /\ Status(502, NONE).service = NONE
  BY <1>3
<1>4. CASE \E s \in Service : bodies[s].quality = "empty"
  <2>1. verdict(bodies) = Status(502, NONE)
    BY <1>4 DEF verdict
  <2> QED
    BY <2>1, <1>n
<1>5. CASE ~(\E s \in Service : bodies[s].quality = "empty") /\ refused # {}
  <2>1. verdict(bodies) = Status(502, First(refused))
    BY <1>5 DEF verdict
  <2> DEFINE f == First(refused)
  <2>2. f \in Service /\ bodies[f].quality # "usable"
    BY <1>1, <1>2, <1>5
  <2>3. /\ verdict(bodies) \in Answers /\ verdict(bodies) # NONE
        /\ verdict(bodies).status = 502 /\ verdict(bodies).service = f
    BY <2>1, <2>2, <1>3
  <2> QED
    BY <2>2, <2>3
<1>6. CASE ~(\E s \in Service : bodies[s].quality = "empty") /\ refused = {}
  <2>1. verdict(bodies) = IF bodies["Nationalize"].quality = "nowhere" THEN Status(502, NONE)
                          ELSE NONE
    BY <1>6 DEF verdict
  <2>2. \A s \in Service : /\ bodies[s].quality \in Quality \ {"empty", "unusable"}
                           /\ s = "Nationalize" => bodies[s].quality # "shapeless"
    BY <1>6 DEF refuses, Body
  <2> QED
    BY <2>1, <2>2, <1>n DEF Quality, Service
<1> QED
  BY <1>4, <1>5, <1>6

\* A classification is 200, or 502 for an answer that is of no use.
LEMMA ClassificationFacts ==
    ASSUME NEW body \in Body, NEW a \in classifications(body)
    PROVE  /\ a \in Answers /\ a # NONE /\ a.status \in {200, 502}
           /\ a.service # NONE => a.service = "Genderize" /\ body.quality # "usable"
BY ConstantsAssumption DEF classifications, Status, Answers, Service

-----------------------------------------------------------------------------
(* Types. *)

LEMMA InitTypeOK == Init => TypeOK
BY ConstantsAssumption DEF Init, TypeOK, Unsent, CallState, Kind, LocationFits

-----------------------------------------------------------------------------
(* What a step does to the calls and to the answers. *)

LEMMA SendFacts ==
    ASSUME TypeOK, NEW r \in Request, NEW S \in SUBSET Service, Send(r, S)
    PROVE  /\ call' \in [Request -> [Service -> CallState]]
           /\ \A q \in Request \ {r} : call'[q] = call[q]
           /\ \A s \in S : call'[r][s].state = "waiting"
           /\ \A s \in Service \ S : call'[r][s] = call[r][s]
<1> DEFINE new == [s \in Service |->
        IF s \in S THEN [state |-> "waiting", body |-> NONE] ELSE call[r][s]]
<1>1. call' = [call EXCEPT ![r] = new]
  BY DEF Send, TypeOK
<1>2. new \in [Service -> CallState]
  BY DEF TypeOK, CallState
<1>3. call'[r] = new /\ \A q \in Request \ {r} : call'[q] = call[q]
  BY <1>1 DEF TypeOK
<1>4. call' \in [Request -> [Service -> CallState]]
  BY <1>1, <1>2 DEF TypeOK
<1> QED
  BY <1>3, <1>4

\* What a failure of a call does: the request is answered, and only its answer
\* and this call change.
CallEnds(r, s) ==
    /\ call' \in [Request -> [Service -> CallState]]
    /\ \A q \in Request \ {r} : call'[q] = call[q]
    /\ \A t \in Service \ {s} : call'[r][t] = call[r][t]
    /\ call'[r][s].state = "failed"
    /\ slow' \in SUBSET (Request \X Service)
    /\ \A q \in Request, t \in Service :
         q # r \/ t # s => (<<q, t>> \in slow' <=> <<q, t>> \in slow)
    /\ pc' = [pc EXCEPT ![r] = "done"]
    /\ answer' \in [Request -> Answers \cup {NONE}] /\ answer'[r] # NONE
    /\ \A q \in Request \ {r} : answer'[q] = answer[q]
    /\ kind[r] = "classify" => s = "Genderize"
    /\ answer'[r].status \in {502, 504}
    /\ answer'[r].status = 504 <=> kind[r] = "classify" /\ <<r, s>> \in slow'
    /\ answer'[r].service = IF kind[r] = "classify" THEN "Genderize" ELSE serviceName(r, s)

\* A call fails, late or not, and ends its request.
LEMMA FailureFacts ==
    ASSUME TypeOK, CallsFollow, NEW r \in Request, NEW s \in Service,
           CallFails(r, s) \/ Timeout(r, s)
    PROVE  CallEnds(r, s)
<1>0. /\ call' = [call EXCEPT ![r][s].state = "failed"] /\ call[r][s].state = "waiting"
      /\ slow' \in {slow, slow \cup {<<r, s>>}}
  BY DEF CallFails, Timeout, Waiting
<1>1. call'[r] = [call[r] EXCEPT ![s].state = "failed"] /\ \A q \in Request \ {r} : call'[q] = call[q]
  BY <1>0 DEF TypeOK
<1>2. /\ call'[r][s] = [call[r][s] EXCEPT !.state = "failed"]
      /\ \A t \in Service \ {s} : call'[r][t] = call[r][t]
  BY <1>1 DEF TypeOK
<1>3. call'[r][s] \in CallState /\ call'[r][s].state = "failed"
  <2>1. call[r][s] \in CallState
    BY DEF TypeOK
  <2>2. call'[r][s] = [state |-> "failed", body |-> call[r][s].body]
    BY <1>2, <2>1 DEF CallState
  <2> QED
    BY <2>1, <2>2 DEF CallState
<1>4. call' \in [Request -> [Service -> CallState]]
  BY <1>0, <1>3 DEF TypeOK
<1>5. kind[r] = "classify" => s = "Genderize"
  BY <1>0 DEF CallsFollow
<1>6. <<r, s>> \notin slow
  BY <1>0 DEF CallsFollow
<1>7. /\ slow' \in SUBSET (Request \X Service)
      /\ \A q \in Request, t \in Service :
           q # r \/ t # s => (<<q, t>> \in slow' <=> <<q, t>> \in slow)
  BY <1>0 DEF TypeOK
<1>8. \E a \in Answers :
        /\ Answer(r, a) /\ a.status \in {502, 504}
        /\ a.status = 504 <=> kind[r] = "classify" /\ <<r, s>> \in slow'
        /\ a.service = IF kind[r] = "classify" THEN "Genderize" ELSE serviceName(r, s)
  <2>1. \A n \in {502, 504}, t \in Service :
          /\ Status(n, t) \in Answers /\ Status(n, t).status = n /\ Status(n, t).service = t
    BY DEF Status, Answers
  <2>2. serviceName(r, s) \in Service /\ "Genderize" \in Service
    BY NamesAreServices DEF Service
  <2>3. CASE kind[r] # "classify"
    <3>1. Answer(r, Status(502, serviceName(r, s)))
      BY <2>3 DEF CallFails, Timeout, Fails
    <3> QED
      BY <3>1, <2>1, <2>2, <2>3
  <2>4. CASE kind[r] = "classify" /\ CallFails(r, s)
    <3>1. Answer(r, Status(502, "Genderize")) /\ <<r, s>> \notin slow'
      BY <2>4, <1>6 DEF CallFails, Fails
    <3> QED
      BY <3>1, <2>1, <2>2, <2>4
  <2>5. CASE kind[r] = "classify" /\ Timeout(r, s)
    <3>1. Answer(r, Status(504, "Genderize")) /\ <<r, s>> \in slow'
      BY <2>5 DEF Timeout, Fails
    <3> QED
      BY <3>1, <2>1, <2>2, <2>5
  <2> QED
    BY <2>3, <2>4, <2>5
<1>9. PICK a \in Answers :
        /\ Answer(r, a) /\ a.status \in {502, 504}
        /\ a.status = 504 <=> kind[r] = "classify" /\ <<r, s>> \in slow'
        /\ a.service = IF kind[r] = "classify" THEN "Genderize" ELSE serviceName(r, s)
  BY <1>8
<1>10. /\ pc' = [pc EXCEPT ![r] = "done"] /\ answer'[r] = a /\ a # NONE
       /\ answer' \in [Request -> Answers \cup {NONE}]
       /\ \A q \in Request \ {r} : answer'[q] = answer[q]
  BY <1>9, ConstantsAssumption DEF Answer, TypeOK
<1> QED
  BY <1>1, <1>2, <1>3, <1>4, <1>5, <1>7, <1>9, <1>10 DEF CallEnds

\* What an answer of a service does to its request.
CallReturns(r, s, body) ==
    /\ call' \in [Request -> [Service -> CallState]]
    /\ \A q \in Request \ {r} : call'[q] = call[q]
    /\ \A t \in Service \ {s} : call'[r][t] = call[r][t]
    /\ call'[r][s].state = "answered" /\ call'[r][s].body = body
    /\ kind[r] = "classify" => s = "Genderize"
    /\ pc' \in [Request -> {"idle", "find", "fetch", "insert", "invalidate", "done"}]
    /\ answer' \in [Request -> Answers \cup {NONE}]
    /\ \A q \in Request \ {r} : pc'[q] = pc[q] /\ answer'[q] = answer[q]
    /\ pc'[r] \in {"fetch", "insert", "done"}
    /\ pc'[r] = "fetch" => UNCHANGED <<pc, answer>> /\ kind[r] = "create"
    /\ pc'[r] = "insert" =>
         /\ kind[r] = "create" /\ UNCHANGED answer
         /\ \A t \in Service : call'[r][t].state = "answered"
         /\ verdict([t \in Service |-> call'[r][t].body]) = NONE
    /\ pc'[r] = "done" =>
         /\ answer'[r] # NONE /\ answer'[r].status \in {200, 502}
         /\ answer'[r].service # NONE =>
              /\ call'[r][answer'[r].service].state = "answered"
              /\ call'[r][answer'[r].service].body.quality # "usable"

\* An answer comes, and is the last of the request, or not.
LEMMA ReceiveFacts ==
    ASSUME TypeOK, CallsFollow, NEW r \in Request, NEW s \in Service, NEW body \in Bodies[s],
           Receive(r, s, body)
    PROVE  CallReturns(r, s, body)
<1>0. body \in Body /\ pc[r] = "fetch" /\ kind[r] \in Kind
  BY ConstantsAssumption DEF Receive, Waiting, TypeOK, LocationFits
<1>1. /\ call'[r] = [call[r] EXCEPT ![s] = [state |-> "answered", body |-> body]]
      /\ \A q \in Request \ {r} : call'[q] = call[q]
  BY DEF Receive, TypeOK
<1>2. /\ call'[r][s] = [state |-> "answered", body |-> body]
      /\ \A t \in Service \ {s} : call'[r][t] = call[r][t]
  BY <1>1 DEF TypeOK
<1>3. call'[r][s] \in CallState
  BY <1>0, <1>2 DEF CallState
<1>4. call' \in [Request -> [Service -> CallState]]
  <2>1. call'[r] \in [Service -> CallState]
    BY <1>1, <1>2, <1>3 DEF TypeOK
  <2> QED
    BY <2>1, <1>1 DEF Receive, TypeOK
<1>5. kind[r] = "classify" => s = "Genderize"
  BY DEF CallsFollow, Receive, Waiting
<1> DEFINE bodies == [t \in Service |-> call'[r][t].body]
<1>6. CASE kind[r] = "classify"
  <2>1. PICK a \in classifications(body) : Answer(r, a)
    BY <1>6 DEF Receive
  <2>2. a \in Answers /\ a # NONE /\ a.status \in {200, 502}
        /\ (a.service # NONE => a.service = "Genderize" /\ body.quality # "usable")
    BY <1>0, ClassificationFacts
  <2>3. /\ pc' = [pc EXCEPT ![r] = "done"] /\ answer' = [answer EXCEPT ![r] = a]
    BY <2>1 DEF Answer
  <2> QED
    BY <1>1, <1>2, <1>4, <1>5, <1>6, <2>2, <2>3 DEF TypeOK, CallReturns
<1>7. CASE kind[r] # "classify"
  <2>0. kind[r] = "create"
    BY <1>0, <1>7 DEF Kind
  <2>1. CASE \E t \in Service : call'[r][t].state # "answered"
    <3>1. UNCHANGED <<pc, answer>>
      BY <2>1, <1>7 DEF Receive
    <3> QED
      BY <1>0, <1>1, <1>2, <1>4, <1>5, <2>0, <3>1 DEF TypeOK, CallReturns
  <2>2. CASE \A t \in Service : call'[r][t].state = "answered"
    <3>1. \A t \in Service : bodies[t] \in Body
      <4>1. ASSUME NEW t \in Service \ {s} PROVE call[r][t].body \in Bodies[t]
        BY <1>2, <2>2 DEF CallsFollow
      <4> QED
        BY <4>1, <1>0, <1>2, ConstantsAssumption
    <3>2. IF verdict(bodies) # NONE THEN Answer(r, verdict(bodies)) ELSE Goto(r, "insert")
      BY <2>2, <1>7 DEF Receive
    <3>3. CASE verdict(bodies) # NONE
      <4>1. /\ verdict(bodies) \in Answers /\ verdict(bodies).status = 502
            /\ verdict(bodies).service # NONE =>
                 bodies[verdict(bodies).service].quality # "usable"
        BY <3>1, <3>3, VerdictFacts
      <4>2. /\ pc' = [pc EXCEPT ![r] = "done"]
            /\ answer' = [answer EXCEPT ![r] = verdict(bodies)]
        BY <3>2, <3>3 DEF Answer
      <4>3. verdict(bodies).service \in Service \cup {NONE}
        BY <4>1 DEF Answers
      <4> HIDE DEF bodies
      <4>4. /\ answer'[r] = verdict(bodies) /\ pc'[r] = "done"
            /\ answer' \in [Request -> Answers \cup {NONE}]
            /\ pc' \in [Request -> {"idle", "find", "fetch", "insert", "invalidate", "done"}]
            /\ \A q \in Request \ {r} : pc'[q] = pc[q] /\ answer'[q] = answer[q]
        BY <4>1, <4>2 DEF TypeOK
      <4>5. answer'[r].service # NONE =>
              /\ call'[r][answer'[r].service].state = "answered"
              /\ call'[r][answer'[r].service].body.quality # "usable"
        BY <4>1, <4>3, <4>4, <2>2 DEF bodies
      <4> QED
        BY <1>1, <1>2, <1>4, <1>5, <3>3, <4>1, <4>4, <4>5 DEF CallReturns
    <3>4. CASE verdict(bodies) = NONE
      <4>1. pc' = [pc EXCEPT ![r] = "insert"] /\ UNCHANGED answer
        BY <3>2, <3>4 DEF Goto
      <4> QED
        BY <1>1, <1>2, <1>4, <1>5, <2>0, <2>2, <3>4, <4>1 DEF TypeOK, CallReturns
    <3> QED
      BY <3>3, <3>4
  <2> QED
    BY <2>1, <2>2
<1> QED
  BY <1>6, <1>7 DEF CallReturns

\* A step of another request leaves a request where it is.
LEMMA OthersFit ==
    ASSUME TypeOK, NEW q \in Request,
           pc'[q] = pc[q], kind'[q] = kind[q], call'[q] = call[q], answer'[q] = answer[q]
    PROVE  LocationFits(q)'
BY DEF TypeOK, LocationFits, Callees

\* A request that is answered.
LEMMA AnswerFits ==
    ASSUME TypeOK, NEW r \in Request, NEW a \in Answers, Answer(r, a), pc[r] # "idle",
           UNCHANGED <<kind, call>>
    PROVE  /\ pc' \in [Request -> {"idle", "find", "fetch", "insert", "invalidate", "done"}]
           /\ answer' \in [Request -> Answers \cup {NONE}]
           /\ \A q \in Request : LocationFits(q)'
<1>1. /\ pc' = [pc EXCEPT ![r] = "done"] /\ answer' = [answer EXCEPT ![r] = a] /\ a # NONE
  BY ConstantsAssumption DEF Answer
<1>2. LocationFits(r)'
  BY <1>1 DEF TypeOK, LocationFits
<1>3. \A q \in Request \ {r} : LocationFits(q)'
  BY <1>1, OthersFit DEF TypeOK
<1> QED
  BY <1>1, <1>2, <1>3 DEF TypeOK

\* No step takes the state out of its types.
LEMMA NextTypeOK == TypeOK /\ Inv /\ [Next]_vars => TypeOK'
<1> SUFFICES ASSUME TypeOK, Inv, [Next]_vars PROVE TypeOK'
  OBVIOUS
<1> USE ConstantsAssumption
<1>s. \A n \in {201, 500} : Status(n, NONE) \in Answers
  BY DEF Status, Answers
<1>1. CASE UNCHANGED vars
  BY <1>1 DEF vars, TypeOK, LocationFits, Callees
<1>2. ASSUME NEW r \in Request, NEW n \in Name, create(r, n) PROVE TypeOK'
  BY <1>2 DEF create, Kind, TypeOK, Goto, LocationFits, Callees
<1>3. ASSUME NEW r \in Request, NEW n \in Name, getClassification(r, n) PROVE TypeOK'
  <2>1. Send(r, {"Genderize"}) /\ {"Genderize"} \in SUBSET Service
    BY <1>3 DEF getClassification, Service
  <2>2. /\ call' \in [Request -> [Service -> CallState]]
        /\ \A q \in Request \ {r} : call'[q] = call[q]
        /\ call'[r]["Genderize"].state = "waiting"
    BY <2>1, SendFacts
  <2>3. /\ pc[r] = "idle" /\ pc' = [pc EXCEPT ![r] = "fetch"] /\ n \in Name
        /\ kind' = [kind EXCEPT ![r] = "classify"] /\ name' = [name EXCEPT ![r] = n]
        /\ UNCHANGED <<rows, answer, faults, failed, slow>>
    BY <1>3 DEF getClassification, Goto
  <2>4. LocationFits(r)'
    BY <2>2, <2>3 DEF TypeOK, LocationFits, Callees, Kind
  <2>5. \A q \in Request \ {r} : LocationFits(q)'
    BY <2>2, <2>3, OthersFit DEF TypeOK
  <2> QED
    BY <2>2, <2>3, <2>4, <2>5 DEF Kind, TypeOK
<1>4. ASSUME NEW r \in Request, FindByName(r) PROVE TypeOK'
  <2>1. CASE rows[name[r]] # NONE
    <3>1. /\ Answer(r, Status(201, NONE)) /\ pc[r] = "find"
          /\ UNCHANGED <<rows, kind, name, call, faults, failed, slow>>
      BY <1>4, <2>1 DEF FindByName
    <3> QED
      BY <3>1, <1>s, AnswerFits DEF TypeOK
  <2>2. CASE rows[name[r]] = NONE
    <3>1. Send(r, Service)
      BY <1>4, <2>2 DEF FindByName
    <3>2. /\ call' \in [Request -> [Service -> CallState]]
          /\ \A q \in Request \ {r} : call'[q] = call[q]
          /\ \A s \in Service : call'[r][s].state = "waiting"
      BY <3>1, SendFacts
    <3>3. /\ pc[r] = "find" /\ pc' = [pc EXCEPT ![r] = "fetch"]
          /\ UNCHANGED <<rows, kind, name, answer, faults, failed, slow>>
      BY <1>4, <2>2 DEF FindByName, Goto
    <3>4. LocationFits(r)'
      BY <3>2, <3>3 DEF TypeOK, LocationFits, Callees, Service
    <3>5. \A q \in Request \ {r} : LocationFits(q)'
      BY <3>2, <3>3, OthersFit DEF TypeOK
    <3> QED
      BY <3>2, <3>3, <3>4, <3>5 DEF TypeOK
  <2> QED
    BY <2>1, <2>2
<1>5. ASSUME NEW r \in Request, NEW s \in Service, CallFails(r, s) \/ Timeout(r, s)
      PROVE  TypeOK'
  <2>1. /\ call' \in [Request -> [Service -> CallState]]
        /\ \A q \in Request \ {r} : call'[q] = call[q]
        /\ slow' \in SUBSET (Request \X Service)
        /\ pc' = [pc EXCEPT ![r] = "done"]
        /\ answer' \in [Request -> Answers \cup {NONE}] /\ answer'[r] # NONE
        /\ \A q \in Request \ {r} : answer'[q] = answer[q]
    <3>1. CallsFollow
      BY DEF Inv
    <3>2. CallEnds(r, s)
      BY <1>5, <3>1, FailureFacts
    <3> QED
      BY <3>2 DEF CallEnds
  <2>2. pc[r] = "fetch" /\ UNCHANGED <<rows, kind, name, faults, failed>>
    BY <1>5 DEF CallFails, Timeout, Waiting
  <2>3. LocationFits(r)'
    BY <2>1, <2>2 DEF TypeOK, LocationFits, Callees
  <2>4. \A q \in Request \ {r} : LocationFits(q)'
    BY <2>1, <2>2, OthersFit DEF TypeOK
  <2> QED
    BY <2>1, <2>2, <2>3, <2>4 DEF TypeOK
<1>7. ASSUME NEW r \in Request, NEW s \in Service, NEW body \in Bodies[s],
             Receive(r, s, body)
      PROVE  TypeOK'
  <2>1. /\ call' \in [Request -> [Service -> CallState]]
        /\ \A q \in Request \ {r} : call'[q] = call[q]
        /\ \A t \in Service \ {s} : call'[r][t] = call[r][t]
        /\ call'[r][s].state = "answered"
        /\ pc' \in [Request -> {"idle", "find", "fetch", "insert", "invalidate", "done"}]
        /\ answer' \in [Request -> Answers \cup {NONE}]
        /\ \A q \in Request \ {r} : pc'[q] = pc[q] /\ answer'[q] = answer[q]
        /\ pc'[r] \in {"fetch", "insert", "done"}
        /\ pc'[r] = "fetch" => UNCHANGED <<pc, answer>>
        /\ pc'[r] = "insert" =>
             /\ UNCHANGED answer
             /\ \A t \in Service : call'[r][t].state = "answered"
        /\ pc'[r] = "done" => answer'[r] # NONE
    <3>1. CallsFollow
      BY DEF Inv
    <3>2. CallReturns(r, s, body)
      BY <1>7, <3>1, ReceiveFacts
    <3> QED
      BY <3>2 DEF CallReturns
  <2>2. pc[r] = "fetch" /\ UNCHANGED <<rows, kind, name, faults, failed, slow>>
    BY <1>7 DEF Receive, Waiting
  <2>3. LocationFits(r)'
    <3>1. kind[r] # NONE /\ kind'[r] = kind[r] /\ Callees(r)' = Callees(r)
      BY <2>2 DEF TypeOK, LocationFits, Callees
    <3>2. \A t \in Callees(r) : call[r][t].state \in {"waiting", "answered"}
      BY <2>2 DEF TypeOK, LocationFits
    <3>3. \A t \in Callees(r) : t \in Service
      BY DEF Callees, Service
    <3>4. \A t \in Callees(r) : call'[r][t].state \in {"waiting", "answered"}
      BY <2>1, <3>2, <3>3
    <3>5. pc'[r] # "done" => UNCHANGED answer
      BY <2>1
    <3>6. pc'[r] = "done" <=> answer'[r] # NONE
      BY <2>1, <2>2, <3>5 DEF TypeOK, LocationFits
    <3> QED
      BY <2>1, <3>1, <3>4, <3>6 DEF LocationFits
  <2>4. \A q \in Request \ {r} : LocationFits(q)'
    BY <2>1, <2>2, OthersFit DEF TypeOK
  <2> QED
    BY <2>1, <2>2, <2>3, <2>4 DEF TypeOK
<1>8. ASSUME NEW r \in Request, Insert(r) PROVE TypeOK'
  <2>1. pc[r] = "insert" /\ UNCHANGED <<kind, name, call, faults, failed, slow>>
    BY <1>8 DEF Insert
  <2>2. CASE Answer(r, Status(500, NONE)) /\ UNCHANGED rows
    BY <2>1, <2>2, <1>s, AnswerFits DEF TypeOK
  <2>3. CASE /\ rows' = [rows EXCEPT ![name[r]] =
                    [by |-> r, value |-> [s \in Service |-> call[r][s].body.value]]]
             /\ Goto(r, "invalidate")
    <3>1. \A s \in Service : call[r][s].body.value \in Value
      <4>1. \A s \in Service : call[r][s].body \in Bodies[s]
        BY <2>1 DEF TypeOK, LocationFits, Inv, CallsFollow
      <4> QED
        BY <4>1, ConstantsAssumption DEF Body
    <3>2. rows' \in [Name -> Row \cup {NONE}]
      BY <2>1, <2>3, <3>1 DEF TypeOK, Row
    <3>3. LocationFits(r)'
      BY <2>1, <2>3 DEF TypeOK, LocationFits, Goto
    <3>4. \A q \in Request \ {r} : LocationFits(q)'
      BY <2>1, <2>3, OthersFit DEF TypeOK, Goto
    <3> QED
      BY <2>1, <2>3, <3>2, <3>3, <3>4 DEF TypeOK, Goto
  <2> QED
    BY <1>8, <2>2, <2>3 DEF Insert
<1>9. ASSUME NEW r \in Request, Invalidate(r) PROVE TypeOK'
  <2>1. /\ pc[r] = "invalidate" /\ Answer(r, Status(201, NONE))
        /\ UNCHANGED <<rows, kind, name, call, faults, failed, slow>>
    BY <1>9 DEF Invalidate
  <2> QED
    BY <2>1, <1>s, AnswerFits DEF TypeOK
<1>10. ASSUME NEW r \in Request, StoreFails(r) PROVE TypeOK'
  <2>1. /\ pc[r] # "idle" /\ Answer(r, Status(500, NONE))
        /\ faults < MaxFaults /\ faults' = faults + 1 /\ failed' = failed \cup {r}
        /\ UNCHANGED <<rows, kind, name, call, slow>>
    BY <1>10 DEF StoreFails
  <2> QED
    BY <2>1, <1>s, AnswerFits DEF TypeOK
<1> QED
  BY <1>1, <1>2, <1>3, <1>4, <1>5, <1>7, <1>8, <1>9, <1>10 DEF Next, Step

-----------------------------------------------------------------------------
(* The invariant.  A step is a step of one request. *)

StepOf(r) ==
    \/ \E n \in Name : create(r, n) \/ getClassification(r, n)
    \/ FindByName(r) \/ Insert(r) \/ Invalidate(r) \/ StoreFails(r)
    \/ \E s \in Service : \/ CallFails(r, s) \/ Timeout(r, s)
                          \/ \E body \in Bodies[s] : Receive(r, s, body)

\* What a request has gathered stays as it is.
Same(q) ==
    /\ kind'[q] = kind[q] /\ name'[q] = name[q] /\ call'[q] = call[q]
    /\ \A s \in Service : <<q, s>> \in slow' <=> <<q, s>> \in slow

\* What a step of r does to the others, and what it cannot do itself.
StepIsSmall(r) ==
    /\ \A q \in Request \ {r} : pc'[q] = pc[q] /\ answer'[q] = answer[q] /\ Same(q)
    /\ pc[r] # "done" /\ pc'[r] # "idle"
    /\ pc[r] \in {"insert", "invalidate"} => Same(r)
    /\ pc[r] = "invalidate" => pc'[r] = "done"
    /\ failed \subseteq failed'
    /\ rows' = rows \/ Insert(r)

LEMMA StepsAreSmall ==
    ASSUME TypeOK, CallsFollow, NEW r \in Request, StepOf(r)
    PROVE  StepIsSmall(r)
<1>1. ASSUME NEW n \in Name, create(r, n) PROVE StepIsSmall(r)
  BY <1>1 DEF create, Goto, Same, TypeOK, StepIsSmall
<1>2. ASSUME NEW n \in Name, getClassification(r, n) PROVE StepIsSmall(r)
  BY <1>2 DEF getClassification, Goto, Send, Same, TypeOK, StepIsSmall
<1>3. ASSUME FindByName(r) PROVE StepIsSmall(r)
  BY <1>3 DEF FindByName, Goto, Answer, Send, Same, TypeOK, StepIsSmall
<1>4. ASSUME NEW s \in Service, CallFails(r, s) \/ Timeout(r, s) PROVE StepIsSmall(r)
  <2>1. CallEnds(r, s)
    BY <1>4, FailureFacts
  <2>2. /\ pc[r] = "fetch" /\ UNCHANGED <<rows, kind, name, failed>>
    BY <1>4 DEF CallFails, Timeout, Waiting
  <2> QED
    BY <2>1, <2>2 DEF CallEnds, Same, TypeOK, StepIsSmall
<1>5. ASSUME NEW s \in Service, NEW body \in Bodies[s], Receive(r, s, body)
      PROVE  StepIsSmall(r)
  <2>1. CallReturns(r, s, body)
    BY <1>5, ReceiveFacts
  <2>2. /\ pc[r] = "fetch" /\ UNCHANGED <<rows, kind, name, failed, slow>>
    BY <1>5 DEF Receive, Waiting
  <2> QED
    BY <2>1, <2>2 DEF CallReturns, Same, TypeOK, StepIsSmall
<1>6. ASSUME Insert(r) PROVE StepIsSmall(r)
  BY <1>6 DEF Insert, Goto, Answer, Same, TypeOK, StepIsSmall
<1>7. ASSUME Invalidate(r) PROVE StepIsSmall(r)
  BY <1>7 DEF Invalidate, Answer, Same, TypeOK, StepIsSmall
<1>8. ASSUME StoreFails(r) PROVE StepIsSmall(r)
  BY <1>8 DEF StoreFails, Answer, Same, TypeOK, StepIsSmall
<1> QED
  BY <1>1, <1>2, <1>3, <1>4, <1>5, <1>6, <1>7, <1>8 DEF StepOf

LEMMA CallsKeep ==
    ASSUME TypeOK, Inv, NEW r \in Request, StepOf(r)
    PROVE  CallsFollow'
<1>0. CallsFollow /\ StepIsSmall(r)
  BY StepsAreSmall DEF Inv
<1> DEFINE CallFollows(q, s) ==
        /\ pc[q] \in {"idle", "find"} => call[q][s].state = "unsent"
        /\ kind[q] = "classify" /\ s # "Genderize" => call[q][s].state = "unsent"
        /\ call[q][s].state = "answered" => call[q][s].body \in Bodies[s]
        /\ call[q][s].state = "failed" => pc[q] = "done"
        /\ <<q, s>> \in slow => call[q][s].state = "failed"
       Follows(s) == CallFollows(r, s)
<1>1. \A q \in Request, s \in Service : CallFollows(q, s)
  BY <1>0 DEF CallsFollow
<1>2. ASSUME NEW n \in Name, create(r, n), NEW s \in Service PROVE Follows(s)'
  BY <1>1, <1>2 DEF create, Goto, TypeOK
<1>3. ASSUME NEW n \in Name, getClassification(r, n), NEW s \in Service PROVE Follows(s)'
  <2>1. /\ pc[r] = "idle" /\ pc'[r] = "fetch" /\ kind'[r] = "classify" /\ slow' = slow
        /\ Send(r, {"Genderize"})
    BY <1>3 DEF getClassification, Goto, TypeOK
  <2>2. /\ call'[r]["Genderize"].state = "waiting"
        /\ \A t \in Service \ {"Genderize"} : call'[r][t] = call[r][t]
    BY <2>1, SendFacts DEF Service
  <2> QED
    BY <1>1, <2>1, <2>2
<1>4. ASSUME FindByName(r), NEW s \in Service PROVE Follows(s)'
  <2>1. pc[r] = "find" /\ kind[r] = "create" /\ kind' = kind /\ slow' = slow
    BY <1>4 DEF FindByName, Inv, InsertsAreClean
  <2>2. CASE Answer(r, Status(201, NONE)) /\ UNCHANGED call
    BY <1>1, <2>1, <2>2 DEF Answer, TypeOK
  <2>3. CASE Goto(r, "fetch") /\ Send(r, Service)
    <3>1. call'[r][s].state = "waiting"
      BY <2>3, SendFacts
    <3>2. pc'[r] = "fetch"
      BY <2>3 DEF Goto, TypeOK
    <3> QED
      BY <1>1, <2>1, <3>1, <3>2
  <2> QED
    BY <1>4, <2>2, <2>3 DEF FindByName
<1>5. ASSUME NEW t \in Service, CallFails(r, t) \/ Timeout(r, t), NEW s \in Service
      PROVE  Follows(s)'
  <2>1. CallEnds(r, t)
    BY <1>0, <1>5, FailureFacts
  <2>2. pc[r] = "fetch" /\ kind' = kind
    BY <1>5 DEF CallFails, Timeout, Waiting
  <2>3. /\ pc'[r] = "done" /\ call'[r][t].state = "failed"
        /\ kind[r] = "classify" => t = "Genderize"
        /\ s # t => call'[r][s] = call[r][s] /\ (<<r, s>> \in slow' <=> <<r, s>> \in slow)
    BY <2>1 DEF CallEnds, TypeOK
  <2> QED
    BY <1>1, <2>2, <2>3
<1>6. ASSUME NEW t \in Service, NEW body \in Bodies[t], Receive(r, t, body), NEW s \in Service
      PROVE  Follows(s)'
  <2>1. CallReturns(r, t, body)
    BY <1>0, <1>6, ReceiveFacts
  <2>2. pc[r] = "fetch" /\ kind' = kind /\ slow' = slow /\ call[r][t].state = "waiting"
    BY <1>6 DEF Receive, Waiting
  <2>3. /\ pc'[r] \in {"fetch", "insert", "done"}
        /\ call'[r][t].state = "answered" /\ call'[r][t].body = body
        /\ kind[r] = "classify" => t = "Genderize"
        /\ s # t => call'[r][s] = call[r][s]
    BY <2>1 DEF CallReturns
  <2> QED
    BY <1>1, <2>2, <2>3
<1>7. ASSUME Insert(r) \/ Invalidate(r) \/ StoreFails(r), NEW s \in Service PROVE Follows(s)'
  BY <1>1, <1>7 DEF Insert, Invalidate, StoreFails, Goto, Answer, TypeOK
<1>8. \A s \in Service : Follows(s)'
  BY <1>2, <1>3, <1>4, <1>5, <1>6, <1>7 DEF StepOf
<1>9. ASSUME NEW q \in Request \ {r}, NEW s \in Service
      PROVE  CallFollows(q, s)'
  BY <1>0, <1>1 DEF StepIsSmall, Same
<1>10. \A q \in Request, s \in Service : CallFollows(q, s)'
  <2> HIDE DEF CallFollows
  <2> QED
    BY <1>8, <1>9
<1> QED
  BY <1>10 DEF CallsFollow

LEMMA InsertsKeep ==
    ASSUME TypeOK, Inv, NEW r \in Request, StepOf(r)
    PROVE  InsertsAreClean'
<1>0. CallsFollow /\ InsertsAreClean /\ StepIsSmall(r)
  BY StepsAreSmall DEF Inv
<1> DEFINE bodies(q) == [s \in Service |-> call[q][s].body]
           Clean(q) == /\ pc[q] # "idle" => name[q] \in Name
                       /\ pc[q] \in {"find", "insert", "invalidate"} => kind[q] = "create"
                       /\ pc[q] = "insert" => verdict(bodies(q)) = NONE
<1>1. \A q \in Request : Clean(q)
  BY <1>0 DEF InsertsAreClean
<1>2. ASSUME NEW n \in Name, create(r, n) \/ getClassification(r, n) PROVE Clean(r)'
  BY <1>2 DEF create, getClassification, Goto, TypeOK
<1>3. ASSUME FindByName(r) PROVE Clean(r)'
  BY <1>1, <1>3 DEF FindByName, Goto, Answer, TypeOK
<1>4. ASSUME NEW s \in Service, CallFails(r, s) \/ Timeout(r, s) PROVE Clean(r)'
  <2>1. CallEnds(r, s)
    BY <1>0, <1>4, FailureFacts
  <2>2. pc[r] = "fetch" /\ name' = name
    BY <1>4 DEF CallFails, Timeout, Waiting
  <2>3. pc'[r] = "done"
    BY <2>1 DEF CallEnds, TypeOK
  <2> QED
    BY <1>1, <2>2, <2>3
<1>5. ASSUME NEW s \in Service, NEW body \in Bodies[s], Receive(r, s, body) PROVE Clean(r)'
  <2>1. CallReturns(r, s, body)
    BY <1>0, <1>5, ReceiveFacts
  <2>2. pc[r] = "fetch" /\ name' = name /\ kind' = kind
    BY <1>5 DEF Receive, Waiting
  <2>3. /\ pc'[r] \in {"fetch", "insert", "done"}
        /\ pc'[r] = "insert" => kind[r] = "create" /\ verdict(bodies(r)') = NONE
    BY <2>1 DEF CallReturns
  <2>4. verdict(bodies(r)) ' = verdict(bodies(r)')
    BY DEF verdict, refuses, Status, First
  <2> QED
    BY <1>1, <2>2, <2>3, <2>4
<1>6. ASSUME Insert(r) \/ Invalidate(r) \/ StoreFails(r) PROVE Clean(r)'
  BY <1>1, <1>6 DEF Insert, Invalidate, StoreFails, Goto, Answer, TypeOK
<1>7. Clean(r)'
  BY <1>2, <1>3, <1>4, <1>5, <1>6 DEF StepOf
<1>8. ASSUME NEW q \in Request \ {r} PROVE Clean(q)'
  <2>1. pc'[q] = pc[q] /\ kind'[q] = kind[q] /\ call'[q] = call[q] /\ name'[q] = name[q]
    BY <1>0 DEF StepIsSmall, Same
  <2>2. verdict(bodies(q)) ' = verdict(bodies(q))
    BY <2>1
  <2> QED
    BY <1>1, <2>1, <2>2
<1>9. \A q \in Request : Clean(q)'
  <2> HIDE DEF Clean
  <2> QED
    BY <1>7, <1>8
<1> QED
  BY <1>9 DEF InsertsAreClean

LEMMA MakersKeep ==
    ASSUME TypeOK, Inv, NEW r \in Request, StepOf(r)
    PROVE  MakersAreDone'
<1>0. StepIsSmall(r) /\ MakersAreDone
  BY StepsAreSmall DEF Inv
<1>1. ASSUME NEW q \in Request, pc[q] \in {"invalidate", "done"}
      PROVE  pc'[q] \in {"invalidate", "done"}
  BY <1>0, <1>1 DEF StepIsSmall
<1>2. CASE rows' = rows
  BY <1>0, <1>1, <1>2 DEF MakersAreDone, TypeOK, Row
<1>3. CASE Insert(r)
  <2>1. ASSUME NEW n \in Name, rows'[n] # NONE, rows'[n] # rows[n]
        PROVE  rows'[n].by = r /\ pc'[r] = "invalidate"
    BY <1>3, <2>1 DEF Insert, Goto, TypeOK
  <2> QED
    BY <1>0, <1>1, <2>1 DEF MakersAreDone, TypeOK, Row
<1> QED
  BY <1>0, <1>2, <1>3 DEF StepIsSmall

\* A row that is inserted is what its own request has gathered.
LEMMA StoredKeep ==
    ASSUME TypeOK, Inv, NEW r \in Request, StepOf(r)
    PROVE  StoredIsBacked'
<1>0. /\ StepIsSmall(r) /\ MakersAreDone /\ StoredIsBacked /\ InsertsAreClean /\ CallsFollow
  BY StepsAreSmall DEF Inv
<1> DEFINE Backs(q, n, row) ==
        /\ name[q] = n /\ kind[q] = "create"
        /\ \A s \in Service : /\ call[q][s].state = "answered"
                              /\ call[q][s].body.quality = "usable"
                              /\ row.value[s] = call[q][s].body.value
                              /\ <<q, s>> \notin slow
<1>1. ASSUME NEW n \in Name, rows[n] # NONE, rows'[n] = rows[n]
      PROVE  Backs(rows[n].by, n, rows[n])'
  <2>1. rows[n].by \in Request /\ pc[rows[n].by] \in {"invalidate", "done"}
    BY <1>0, <1>1 DEF MakersAreDone, TypeOK, Row
  <2>2. Same(rows[n].by)
    BY <1>0, <2>1 DEF StepIsSmall
  <2>3. Backs(rows[n].by, n, rows[n])
    BY <1>0, <1>1 DEF StoredIsBacked
  <2> QED
    BY <1>1, <2>1, <2>2, <2>3 DEF Same
<1>2. ASSUME NEW n \in Name, rows'[n] # NONE, rows'[n] # rows[n]
      PROVE  Backs(rows[n].by, n, rows[n])'
  <2>1. Insert(r) /\ n = name[r] /\ pc[r] = "insert"
        /\ rows' = [rows EXCEPT ![name[r]] =
                      [by |-> r, value |-> [s \in Service |-> call[r][s].body.value]]]
        /\ ~(\E s \in Service : call[r][s].body.quality = "shapeless")
    BY <1>0, <1>2 DEF StepIsSmall, Insert, TypeOK
  <2>2. rows'[n] = [by |-> r, value |-> [s \in Service |-> call[r][s].body.value]]
    BY <2>1 DEF TypeOK
  <2> DEFINE bodies == [s \in Service |-> call[r][s].body]
  <2>3. \A s \in Service : call[r][s].state = "answered" /\ bodies[s] \in Bodies[s]
    BY <1>0, <2>1 DEF TypeOK, LocationFits, CallsFollow
  <2>4. \A s \in Service : bodies[s] \in Body
    BY <2>3, ConstantsAssumption
  <2>5. kind[r] = "create" /\ verdict(bodies) = NONE
    BY <1>0, <2>1 DEF InsertsAreClean
  <2>6. \A s \in Service : bodies[s].quality \in {"usable", "shapeless", "nowhere"}
        /\ bodies["Nationalize"].quality = "usable"
    <3> HIDE DEF bodies
    <3> QED
      BY <2>4, <2>5, VerdictFacts
  <2>7. \A s \in Service : call[r][s].body.quality = "usable"
    BY <2>1, <2>3, <2>6, CountriesAssumption
  <2>8. \A s \in Service : <<r, s>> \notin slow
    BY <1>0, <2>3 DEF CallsFollow
  <2>9. Same(r)
    BY <1>0, <2>1 DEF StepIsSmall
  <2> QED
    BY <2>1, <2>2, <2>3, <2>5, <2>7, <2>8, <2>9 DEF Same
<1>3. ASSUME NEW n \in Name, rows'[n] # NONE PROVE Backs(rows[n].by, n, rows[n])'
  BY <1>1, <1>2, <1>3
<1> QED
  BY <1>3 DEF StoredIsBacked

\* An answer is given once, and what it says is so when it is given.
LEMMA BlameKeep ==
    ASSUME TypeOK, Inv, NEW r \in Request, StepOf(r)
    PROVE  BlameIsRight'
<1>0. StepIsSmall(r) /\ BlameIsRight /\ CallsFollow
  BY StepsAreSmall DEF Inv
<1> DEFINE Right(q) == pc[q] = "done" /\ answer[q].service # NONE =>
        \/ call[q][answer[q].service].state = "failed"
        \/ /\ call[q][answer[q].service].state = "answered"
           /\ call[q][answer[q].service].body.quality # "usable"
        \/ Mentions[name[q]] # {}
<1>1. ASSUME NEW q \in Request \ {r} PROVE Right(q)'
  BY <1>0 DEF StepIsSmall, Same, BlameIsRight
<1>2. ASSUME NEW s \in Service, CallFails(r, s) \/ Timeout(r, s) PROVE Right(r)'
  <2>1. CallEnds(r, s)
    BY <1>0, <1>2, FailureFacts
  <2>2. /\ answer'[r].service = IF kind[r] = "classify" THEN "Genderize" ELSE serviceName(r, s)
        /\ kind[r] = "classify" => s = "Genderize"
        /\ call'[r][s].state = "failed"
    BY <2>1 DEF CallEnds
  <2>3. pc[r] = "fetch" /\ name' = name
    BY <1>2 DEF CallFails, Timeout, Waiting
  <2>4. name[r] \in Name
    BY <2>3 DEF Inv, InsertsAreClean
  <2>5. Mentions[name[r]] = {} => answer'[r].service = s
    BY <2>2, <2>4, NamesAreServices
  <2> QED
    BY <2>2, <2>3, <2>5
<1>3. ASSUME NEW s \in Service, NEW body \in Bodies[s], Receive(r, s, body) PROVE Right(r)'
  <2>1. CallReturns(r, s, body)
    BY <1>0, <1>3, ReceiveFacts
  <2> QED
    BY <2>1 DEF CallReturns
<1>4. ASSUME NEW n \in Name, create(r, n) \/ getClassification(r, n) PROVE Right(r)'
  BY <1>4 DEF create, getClassification, Goto, TypeOK
<1>5. ASSUME FindByName(r) \/ Insert(r) \/ Invalidate(r) \/ StoreFails(r) PROVE Right(r)'
  <2>1. pc'[r] # "done" \/ \E n \in {201, 500} : answer'[r] = Status(n, NONE)
    BY <1>5 DEF FindByName, Insert, Invalidate, StoreFails, Goto, Answer, TypeOK
  <2> QED
    BY <2>1 DEF Status
<1>6. Right(r)'
  BY <1>2, <1>3, <1>4, <1>5 DEF StepOf
<1>7. \A q \in Request : Right(q)'
  <2> HIDE DEF Right
  <2> QED
    BY <1>1, <1>6
<1> QED
  BY <1>7 DEF BlameIsRight

LEMMA OutageKeep ==
    ASSUME TypeOK, Inv, NEW r \in Request, StepOf(r)
    PROVE  OutageIsGatewayError'
<1>0. /\ StepIsSmall(r) /\ OutageIsGatewayError /\ CallsFollow /\ InsertsAreClean
      /\ MakersAreDone
  BY StepsAreSmall DEF Inv
<1> DEFINE Taken(q) == rows[name[q]] # NONE /\ rows[name[q]].by # q
           Shapeless(q) == \E s \in {"Genderize", "Agify"} :
                call[q][s].state = "answered" /\ call[q][s].body.quality = "shapeless"
           Explained(q) == pc[q] = "done" =>
                /\ answer[q].status = 504 <=> kind[q] = "classify" /\ <<q, "Genderize">> \in slow
                /\ answer[q].status = 500 => q \in failed \/ Shapeless(q) \/ Taken(q)
<1>1. ASSUME NEW n \in Name, rows[n] # NONE PROVE rows'[n] = rows[n]
  BY <1>0, <1>1 DEF StepIsSmall, Insert, TypeOK
<1>2. ASSUME NEW q \in Request \ {r} PROVE Explained(q)'
  <2>1. pc'[q] = pc[q] /\ answer'[q] = answer[q] /\ Same(q) /\ (q \in failed => q \in failed')
    BY <1>0 DEF StepIsSmall
  <2>2. Explained(q)
    BY <1>0 DEF OutageIsGatewayError
  <2>3. pc[q] = "done" /\ Taken(q) => Taken(q)'
    BY <1>0, <1>1, <2>1 DEF InsertsAreClean, Same
  <2>4. Shapeless(q) => Shapeless(q)'
    BY <2>1 DEF Same
  <2>5. <<q, "Genderize">> \in slow' <=> <<q, "Genderize">> \in slow
    BY <2>1 DEF Same, Service
  <2> HIDE DEF Taken, Shapeless
  <2> QED
    BY <2>1, <2>2, <2>3, <2>4, <2>5 DEF Same
<1>3. ASSUME NEW s \in Service, CallFails(r, s) \/ Timeout(r, s) PROVE Explained(r)'
  <2>1. CallEnds(r, s)
    BY <1>0, <1>3, FailureFacts
  <2>2. pc[r] = "fetch" /\ kind' = kind
    BY <1>3 DEF CallFails, Timeout, Waiting
  <2>3. /\ answer'[r].status \in {502, 504}
        /\ answer'[r].status = 504 <=> kind[r] = "classify" /\ <<r, s>> \in slow'
        /\ kind[r] = "classify" => s = "Genderize"
    BY <2>1 DEF CallEnds
  <2> QED
    BY <2>2, <2>3
<1>4. ASSUME pc'[r] = "done", pc[r] # "done", slow' = slow PROVE <<r, "Genderize">> \notin slow'
  BY <1>0, <1>4 DEF CallsFollow, Service
<1>5. ASSUME NEW s \in Service, NEW body \in Bodies[s], Receive(r, s, body) PROVE Explained(r)'
  <2>1. CallReturns(r, s, body)
    BY <1>0, <1>5, ReceiveFacts
  <2>2. pc[r] = "fetch" /\ slow' = slow
    BY <1>5 DEF Receive, Waiting
  <2>3. pc'[r] = "done" => answer'[r].status \in {200, 502}
    BY <2>1 DEF CallReturns
  <2> QED
    BY <2>2, <2>3, <1>4
<1>6. ASSUME NEW n \in Name, create(r, n) \/ getClassification(r, n) PROVE Explained(r)'
  BY <1>6 DEF create, getClassification, Goto, TypeOK
<1>7. ASSUME NEW a, Answer(r, a), a \in {Status(200, NONE), Status(201, NONE)},
             pc[r] # "done", slow' = slow
      PROVE  Explained(r)'
  <2>1. pc'[r] = "done" /\ answer'[r].status \in {200, 201}
    BY <1>7 DEF Answer, Status, TypeOK
  <2> QED
    BY <2>1, <1>4, <1>7
<1>8. ASSUME FindByName(r) \/ Invalidate(r) PROVE Explained(r)'
  <2>1. CASE Answer(r, Status(201, NONE))
    BY <1>7, <1>8, <2>1 DEF FindByName, Invalidate
  <2>2. CASE ~Answer(r, Status(201, NONE))
    BY <1>8, <2>2 DEF FindByName, Invalidate, Goto, TypeOK
  <2> QED
    BY <2>1, <2>2
<1>9. ASSUME StoreFails(r) PROVE Explained(r)'
  <2>1. /\ pc'[r] = "done" /\ answer'[r].status = 500 /\ r \in failed' /\ slow' = slow
        /\ pc[r] # "done"
    BY <1>9 DEF StoreFails, Answer, Status, TypeOK
  <2> QED
    BY <2>1, <1>4
<1>10. ASSUME Insert(r) PROVE Explained(r)'
  <2>1. pc[r] = "insert" /\ UNCHANGED <<kind, name, call, failed, slow>> /\ name[r] \in Name
    BY <1>0, <1>10 DEF Insert, InsertsAreClean
  <2>2. CASE pc'[r] # "done"
    BY <2>2
  <2>3. CASE pc'[r] = "done"
    <3>1. /\ rows' = rows /\ answer'[r].status = 500
          /\ \/ rows[name[r]] # NONE
             \/ \E s \in Service : call[r][s].body.quality = "shapeless"
      BY <1>10, <2>3 DEF Insert, Goto, Answer, Status, TypeOK
    <3>2. rows[name[r]] # NONE => Taken(r)
      BY <1>0, <2>1 DEF MakersAreDone
    <3>3. ASSUME NEW s \in Service, call[r][s].body.quality = "shapeless" PROVE Shapeless(r)
      <4> DEFINE bodies == [t \in Service |-> call[r][t].body]
      <4>1. \A t \in Service : call[r][t].state = "answered" /\ bodies[t] \in Bodies[t]
        BY <1>0, <2>1 DEF TypeOK, LocationFits, CallsFollow
      <4>2. \A t \in Service : bodies[t] \in Body
        BY <4>1, ConstantsAssumption
      <4>3. verdict(bodies) = NONE
        BY <1>0, <2>1 DEF InsertsAreClean
      <4>4. bodies["Nationalize"].quality = "usable"
        <5> HIDE DEF bodies
        <5> QED
          BY <4>2, <4>3, VerdictFacts
      <4> QED
        BY <3>3, <4>1, <4>4 DEF Service
    <3>4. Shapeless(r) \/ Taken(r)
      BY <3>1, <3>2, <3>3
    <3>5. (Shapeless(r) \/ Taken(r))'
      BY <2>1, <3>1, <3>4
    <3> HIDE DEF Shapeless, Taken
    <3> QED
      BY <2>1, <2>3, <3>1, <3>5, <1>4
  <2> QED
    BY <2>2, <2>3
<1>11. Explained(r)'
  BY <1>3, <1>5, <1>6, <1>8, <1>9, <1>10 DEF StepOf
<1>12. \A q \in Request : Explained(q)'
  <2> HIDE DEF Explained
  <2> QED
    BY <1>2, <1>11
<1> QED
  BY <1>12 DEF OutageIsGatewayError

-----------------------------------------------------------------------------
(* Theorems. *)

LEMMA InitInv == Init => Inv
BY ConstantsAssumption DEF Init, Inv, Unsent, CallsFollow, InsertsAreClean, MakersAreDone,
    StoredIsBacked, BlameIsRight, OutageIsGatewayError

LEMMA NextInv == TypeOK /\ Inv /\ [Next]_vars => Inv'
<1> SUFFICES ASSUME TypeOK, Inv, [Next]_vars PROVE Inv'
  OBVIOUS
<1>1. CASE UNCHANGED vars
  BY <1>1 DEF vars, Inv, CallsFollow, InsertsAreClean, MakersAreDone,
      StoredIsBacked, BlameIsRight, OutageIsGatewayError
<1>2. ASSUME NEW r \in Request, StepOf(r) PROVE Inv'
  BY <1>2, CallsKeep, InsertsKeep, MakersKeep, StoredKeep, BlameKeep, OutageKeep DEF Inv
<1>3. Next => \E r \in Request : StepOf(r)
  BY DEF Next, Step, StepOf
<1> QED
  BY <1>1, <1>2, <1>3

\* Every variable keeps its type, a request that fetches has no failed call, and
\* one that inserts has its three answers.
THEOREM TypeCorrect == Spec => []TypeOK
<1>1. TypeOK /\ Inv /\ [Next]_vars => (TypeOK /\ Inv)'
  BY NextTypeOK, NextInv
<1> QED
  BY InitTypeOK, InitInv, <1>1, PTL DEF Spec

\* The invariant that ties rows and answers to the calls of their requests.
THEOREM Invariance == Spec => []Inv
<1>1. TypeOK /\ Inv /\ [Next]_vars => (TypeOK /\ Inv)'
  BY NextTypeOK, NextInv
<1> QED
  BY InitTypeOK, InitInv, <1>1, PTL DEF Spec

\* createProfile: a row is made of three answers of its own request, usable and
\* in time, whatever order they come in and whatever the other requests do.
THEOREM RowsAreBacked == Spec => []StoredIsBacked
<1>1. Inv => StoredIsBacked
  BY DEF Inv
<1> QED
  BY <1>1, Invariance, PTL

\* fetchWithProxy, validateResponses: the service an error names failed or gave an
\* answer of no use, unless the name that was asked for mentions a service.
THEOREM BlameIsDeserved == Spec => []BlameIsRight
<1>1. Inv => BlameIsRight
  BY DEF Inv
<1> QED
  BY <1>1, Invariance, PTL

\* An outage of the services is answered 502 or 504; 500 has a failure of the
\* stores, a body without its field or another request of the same name behind it.
THEOREM OutagesAreGatewayErrors == Spec => []OutageIsGatewayError
<1>1. Inv => OutageIsGatewayError
  BY DEF Inv
<1> QED
  BY <1>1, Invariance, PTL

================================================================================
