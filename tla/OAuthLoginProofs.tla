--------------------------- MODULE OAuthLoginProofs ---------------------------
(***************************************************************************)
(* What OAuthLogin says of sessions, of deliveries, of creations and of    *)
(* roles, for any callbacks, attempts, codes and accounts.  The argument:  *)
(* what a callback carries from one await to the next is about an attempt, *)
(* a code and an account that never change once they are there, and a      *)
(* state that has been deleted is never stored again.                      *)
(***************************************************************************)
EXTENDS OAuthLogin, TLAPS

-----------------------------------------------------------------------------
(* The operators the handlers use. *)

Location == CallbackLocation \cup CreationLocation
FoundType == AttemptType \cup LoginUser \cup {NONE}

\* The part of TypeOK about where calls are.
ProgressOK ==
    /\ pc \in [Call -> Location]
    /\ \A c \in Callback : /\ pc[c] \in CallbackLocation
                           /\ args[c] \in CallbackArgs \/ (args[c] = NONE /\ pc[c] = "idle")
    /\ \A c \in Creation : /\ pc[c] \in CreationLocation
                           /\ args[c] \in CreationArgs \/ (args[c] = NONE /\ pc[c] = "idle")
    /\ args \in [Call -> CallbackArgs \cup CreationArgs \cup {NONE}]
    /\ found \in [Call -> FoundType]
    /\ answer \in [Call -> AnswerType \cup {NONE}]
    /\ \A c \in Call : pc[c] = "done" <=> answer[c] # NONE

\* The rest of it.
StoreOK ==
    /\ attempts \in [Attempt -> Asked \cup {NONE}]
    /\ stored \subseteq {a \in Attempt : attempts[a] # NONE}
    /\ issued \in [Code -> (Attempt \X GithubId) \cup {NONE}]
    /\ spent \subseteq {k \in Code : issued[k] # NONE}
    /\ users \in [GithubId -> Role \cup {NONE}]
    /\ sessions \in [Callback -> Session \cup {NONE}]
    /\ \A c \in Callback : sessions[c] # NONE => users[sessions[c].user] # NONE
    /\ hit \subseteq Call /\ consumed \subseteq Callback /\ sound \subseteq Callback
    /\ inserted \subseteq Creation /\ admins \in [Callback -> SUBSET GithubId]
    /\ seeds \in 0 .. MaxSeeds /\ faults \in 0 .. MaxFaults

LEMMA TypesInTwo == /\ TypeOK <=> ProgressOK /\ StoreOK
                    /\ TypeOK' <=> ProgressOK' /\ StoreOK'
<1>1. TypeOK <=> ProgressOK /\ StoreOK
  BY DEF TypeOK, ProgressOK, StoreOK, Location, FoundType
<1>2. TypeOK' <=> ProgressOK' /\ StoreOK'
  BY DEF TypeOK, ProgressOK, StoreOK, Location, FoundType
<1> QED
  BY <1>1, <1>2

\* Every answer has its type, and tells itself from none.
LEMMA AnswersHaveTypes ==
    /\ \A n \in {400, 401, 409, 500} : /\ Refused(n) \in AnswerType /\ Refused(n) # NONE
                                       /\ Refused(n).form = "error"
    /\ \A to \in {LISTENER, CUSTOM, MALFORMED} :
         /\ Redirected(to) \in AnswerType /\ Redirected(to) # NONE
         /\ Redirected(to).form = "redirect" /\ Redirected(to).to = to
    /\ \A a \in {InCookies, InJson, Created, LOST} : a \in AnswerType /\ a # NONE
    /\ InCookies.form = "cookies" /\ InJson.form = "json"
    /\ Created.form = "created" /\ LOST.form = "lost"
BY ConstantsAssumption DEF Refused, Redirected, InCookies, InJson, Created, LOST, AnswerType

\* Where call c stands after a step of its own, and that the others stand still.
Moved(c, l) ==
    /\ pc' \in [Call -> Location] /\ found' \in [Call -> FoundType]
    /\ answer' \in [Call -> AnswerType \cup {NONE}]
    /\ pc'[c] = l /\ (l # "done" => answer' = answer)
    /\ \A d \in Call \ {c} : pc'[d] = pc[d] /\ found'[d] = found[d] /\ answer'[d] = answer[d]
    /\ \A d \in Call : pc'[d] = "done" <=> answer'[d] # NONE

LEMMA AnswerMoves ==
    ASSUME ProgressOK, NEW c \in Call, NEW a \in AnswerType, Answer(c, a)
    PROVE  Moved(c, "done") /\ answer'[c] = a
<1>1. a # NONE
  BY ConstantsAssumption
<1>2. "done" \in Location /\ NONE \in FoundType
  BY DEF Location, CallbackLocation, FoundType
<1> QED
  BY <1>1, <1>2 DEF Answer, Moved, ProgressOK

LEMMA GotoMoves ==
    ASSUME ProgressOK, NEW c \in Call, NEW l \in Location \ {"done"}, NEW v \in FoundType,
           Goto(c, l, v), pc[c] # "done"
    PROVE  Moved(c, l) /\ found'[c] = v /\ UNCHANGED answer
BY DEF Goto, Moved, ProgressOK

\* A call that moves stays within its handler.
LEMMA MovedFits ==
    ASSUME ProgressOK, NEW c \in Call, NEW l, Moved(c, l), pc[c] # "idle", UNCHANGED args,
           c \in Callback => l \in CallbackLocation,
           c \in Creation => l \in CreationLocation
    PROVE  ProgressOK'
<1>1. \A d \in Callback : /\ pc'[d] \in CallbackLocation
                          /\ args'[d] \in CallbackArgs \/ (args'[d] = NONE /\ pc'[d] = "idle")
  BY DEF ProgressOK, Moved, Call
<1>2. \A d \in Creation : /\ pc'[d] \in CreationLocation
                          /\ args'[d] \in CreationArgs \/ (args'[d] = NONE /\ pc'[d] = "idle")
  BY DEF ProgressOK, Moved, Call
<1> QED
  BY <1>1, <1>2 DEF ProgressOK, Moved

\* A call that begins.
LEMMA BeginFits ==
    ASSUME ProgressOK, NEW c \in Call, NEW l, Moved(c, l), NEW w, args' = [args EXCEPT ![c] = w],
           c \in Callback => l \in CallbackLocation /\ w \in CallbackArgs,
           c \in Creation => l \in CreationLocation /\ w \in CreationArgs
    PROVE  ProgressOK'
<1>0. w \in CallbackArgs \cup CreationArgs
  BY DEF Call
<1>1. \A d \in Callback : /\ pc'[d] \in CallbackLocation
                          /\ args'[d] \in CallbackArgs \/ (args'[d] = NONE /\ pc'[d] = "idle")
  BY DEF ProgressOK, Moved, Call
<1>2. \A d \in Creation : /\ pc'[d] \in CreationLocation
                          /\ args'[d] \in CreationArgs \/ (args'[d] = NONE /\ pc'[d] = "idle")
  BY DEF ProgressOK, Moved, Call
<1> QED
  BY <1>0, <1>1, <1>2 DEF ProgressOK, Moved

-----------------------------------------------------------------------------
(* How a callback is answered. *)

\* The answer and the attempt it belongs to agree.
DeliveryFits(c, a) ==
    /\ a \in AnswerType /\ a # NONE
    /\ args[c].code = ANY => a.form \in {"cookies", "json"}
    /\ args[c].code # ANY =>
         LET asked == attempts[args[c].state]
         IN  \/ asked.redirect = MALFORMED /\ a.form = "error"
             \/ /\ a.form \in {"cookies", "redirect"}
                /\ a.form = "cookies" <=> asked.clientType = "web"
                /\ a.form = "redirect" =>
                     a.to = IF asked.redirect = NONE THEN LISTENER ELSE asked.redirect

LEMMA DeliveriesFit ==
    ASSUME StoreOK, NEW c \in Callback, args[c].code = ANY \/ WithState(c),
           args[c].state \in Attempt => attempts[args[c].state] # NONE
    PROVE  DeliveryFits(c, delivery(c))
<1> USE AnswersHaveTypes
<1>1. CASE args[c].code = ANY
  BY <1>1 DEF delivery, DeliveryFits
<1>2. CASE args[c].code # ANY
  <2> DEFINE asked == attempts[args[c].state]
  <2>1. asked \in AttemptType
    BY <1>2, ConstantsAssumption DEF WithState, StoreOK
  <2>2. asked.redirect \in {CUSTOM, MALFORMED, NONE} /\ asked.clientType \in {"web", "cli"}
    BY <2>1 DEF AttemptType
  <2>3. delivery(c) = IF asked.clientType = "web" THEN InCookies
                      ELSE IF asked.redirect = MALFORMED THEN Refused(500)
                      ELSE Redirected(IF asked.redirect = NONE THEN LISTENER ELSE asked.redirect)
    BY <1>2 DEF delivery
  <2>4. DeliveryFits(c, delivery(c)) <=>
          /\ delivery(c) \in AnswerType /\ delivery(c) # NONE
          /\ \/ asked.redirect = MALFORMED /\ delivery(c).form = "error"
             \/ /\ delivery(c).form \in {"cookies", "redirect"}
                /\ delivery(c).form = "cookies" <=> asked.clientType = "web"
                /\ delivery(c).form = "redirect" =>
                     delivery(c).to = IF asked.redirect = NONE THEN LISTENER ELSE asked.redirect
    BY <1>2 DEF DeliveryFits
  <2> HIDE DEF asked
  <2>5. CASE asked.clientType = "web"
    BY <2>3, <2>4, <2>5
  <2>6. CASE asked.clientType # "web" /\ asked.redirect = MALFORMED
    BY <2>3, <2>4, <2>6
  <2>7. CASE asked.clientType # "web" /\ asked.redirect # MALFORMED
    <3>1. delivery(c) = Redirected(IF asked.redirect = NONE THEN LISTENER ELSE asked.redirect)
      BY <2>3, <2>7
    <3>2. (IF asked.redirect = NONE THEN LISTENER ELSE asked.redirect) \in {LISTENER, CUSTOM}
      BY <2>2, <2>7
    <3> QED
      BY <2>4, <2>7, <3>1, <3>2
  <2> QED
    BY <2>5, <2>6, <2>7
<1> QED
  BY <1>1, <1>2

-----------------------------------------------------------------------------
(* Steps of one call, of the world around it, and their types. *)

CallbackStep(c) ==
    \/ \E w \in Arguments : githubCallback(c, w)
    \/ FindAdmin(c) \/ GetState(c) \/ DeleteState(c) \/ Exchange(c)
    \/ findOrCreateByGithub(c) \/ CreateSession(c) \/ StoreHash(c) \/ CallFails(c)

CreationStep(d) ==
    \/ \E g \in GithubId, role \in Role : create(d, g, role)
    \/ findByGithubId(d) \/ Insert(d) \/ CallFails(d)

WorldStep ==
    \/ \E a \in Attempt : \/ \E query \in Asked : getGitHubAuthUrl(a, query)
                          \/ Expire(a)
                          \/ \E k \in Code, g \in GithubId : Authorize(k, a, g)
    \/ \E g \in GithubId, role \in Role : Seed(g, role)

LEMMA NextIsAStep ==
    Next => \/ \E c \in Callback : CallbackStep(c)
            \/ \E d \in Creation : CreationStep(d)
            \/ WorldStep \/ Crash
BY DEF Next, CallbackStep, CreationStep, WorldStep, Call

LEMMA InitTypeOK == Init => TypeOK
<1> SUFFICES ASSUME Init PROVE ProgressOK /\ StoreOK
  BY TypesInTwo
<1>1. ProgressOK
  BY DEF Init, ProgressOK, Call, Location, CallbackLocation, CreationLocation, FoundType
<1>2. StoreOK
  BY ConstantsAssumption DEF Init, StoreOK
<1> QED
  BY <1>1, <1>2

\* The roles a login and the stores leave.
LEMMA RolesFit ==
    ASSUME StoreOK, NEW g \in GithubId
    PROVE  /\ roleAfterLogin(g) \in Role /\ roleAfterLogin(g) # NONE
           /\ users[g] # NONE => roleAfterLogin(g) = users[g]
           /\ roleAfterLogin(g) = "ADMIN" => users[g] = "ADMIN"
BY ConstantsAssumption DEF StoreOK, roleAfterLogin, Role

LEMMA WitnessFits ==
    ASSUME StoreOK, Witness
    PROVE  /\ admins' \in [Callback -> SUBSET GithubId]
           /\ \A c \in Callback : /\ admins[c] \subseteq admins'[c]
                                  /\ Live(c) => Admins' \subseteq admins'[c]
BY DEF Witness, StoreOK, Admins

\* A callback that begins or goes on keeps its types.
LEMMA CallbackKeepsTypes ==
    ASSUME TypeOK, NEW c \in Callback, ArgumentsFit(c), ReadsFit(c), CallbackStep(c)
    PROVE  TypeOK'
<1> SUFFICES ProgressOK' /\ StoreOK'
  BY TypesInTwo
<1>0. ProgressOK /\ StoreOK /\ c \in Call
  BY TypesInTwo DEF Call
<1>c. c \notin Creation
  BY ConstantsAssumption
<1>a. \A n \in {400, 401, 409, 500} : Refused(n) \in AnswerType
  BY AnswersHaveTypes
<1>d. ASSUME NEW a \in AnswerType, Answer(c, a), pc[c] # "idle", UNCHANGED args PROVE ProgressOK'
  <2>1. Moved(c, "done")
    BY <1>0, <1>d, AnswerMoves
  <2> QED
    BY <2>1, <1>0, <1>c, <1>d, MovedFits DEF CallbackLocation
<1>g. ASSUME NEW l \in CallbackLocation \ {"done"}, NEW v \in FoundType, Goto(c, l, v),
             pc[c] \notin {"idle", "done"}, UNCHANGED args
      PROVE  ProgressOK'
  <2>1. Moved(c, l)
    BY <1>0, <1>g, GotoMoves DEF Location
  <2> QED
    BY <2>1, <1>0, <1>c, <1>g, MovedFits
<1>w. ASSUME args[c] \in CallbackArgs, WithState(c), attempts[args[c].state] # NONE
      PROVE  attempts[args[c].state] \in AttemptType
  BY <1>0, <1>w, ConstantsAssumption DEF WithState, StoreOK
<1>i. pc[c] # "idle" => args[c] \in CallbackArgs
  BY <1>0 DEF ProgressOK
<1>1. ASSUME NEW w \in Arguments, githubCallback(c, w) PROVE ProgressOK' /\ StoreOK'
  <2>1. w \in CallbackArgs
    BY <1>0 DEF Arguments, CallbackArgs
  <2>2. /\ args' = [args EXCEPT ![c] = w] /\ pc[c] = "idle"
        /\ admins' = [admins EXCEPT ![c] = Admins]
        /\ consumed' \in {consumed, consumed \cup {c}} /\ sound' \in {{c}, {}}
        /\ UNCHANGED <<attempts, stored, issued, spent, users, sessions, seeds, faults, hit, inserted>>
    BY <1>1 DEF githubCallback, external, bounds
  <2>3. \/ Answer(c, Refused(400))
        \/ \E l \in {"admin", "get"} : Goto(c, l, NONE)
    BY <1>1 DEF githubCallback
  <2>4. \E l \in CallbackLocation : Moved(c, l)
    <3>1. CASE Answer(c, Refused(400))
      BY <1>0, <1>a, <3>1, AnswerMoves DEF CallbackLocation
    <3>2. ASSUME NEW l \in {"admin", "get"}, Goto(c, l, NONE) PROVE Moved(c, l)
      BY <1>0, <2>2, <3>2, GotoMoves DEF Location, CallbackLocation, FoundType
    <3> QED
      BY <2>3, <3>1, <3>2 DEF CallbackLocation
  <2>5. ProgressOK'
    BY <1>0, <1>c, <2>1, <2>2, <2>4, BeginFits
  <2>6. StoreOK'
    BY <1>0, <2>2 DEF StoreOK, Admins
  <2> QED
    BY <2>5, <2>6
<1>2. ASSUME FindAdmin(c) PROVE ProgressOK' /\ StoreOK'
  <2>1. StoreOK' /\ pc[c] = "admin" /\ UNCHANGED args
    BY <1>0, <1>2 DEF FindAdmin, Await, StoreOK, external, bounds, history
  <2>2. ASSUME NEW g \in Admins
        PROVE  [user |-> g, role |-> users[g], client |-> "cli"] \in FoundType
    BY <1>0, <2>2 DEF Admins, FoundType, LoginUser, Role
  <2>3. \/ Answer(c, Refused(401))
        \/ \E g \in Admins : Goto(c, "create", [user |-> g, role |-> users[g], client |-> "cli"])
    BY <1>2 DEF FindAdmin
  <2> QED
    BY <1>a, <1>d, <1>g, <2>1, <2>2, <2>3 DEF CallbackLocation
<1>3. ASSUME GetState(c) PROVE ProgressOK' /\ StoreOK'
  <2>1. StoreOK' /\ pc[c] = "get" /\ UNCHANGED args
    BY <1>0, <1>3 DEF GetState, Await, StoreOK, external, bounds, history
  <2>2. attempts[args[c].state] \in FoundType
    BY <1>i, <1>w, <2>1 DEF ArgumentsFit, WithState, FoundType
  <2>3. Answer(c, Refused(400)) \/ Goto(c, "del", attempts[args[c].state])
    BY <1>3 DEF GetState
  <2> QED
    BY <1>a, <1>d, <1>g, <2>1, <2>2, <2>3 DEF CallbackLocation
<1>f. found[c] \in FoundType
  BY <1>0 DEF ProgressOK
<1>4. ASSUME DeleteState(c) PROVE ProgressOK' /\ StoreOK'
  <2>1. StoreOK' /\ pc[c] = "del" /\ UNCHANGED args /\ Goto(c, "exchange", found[c])
    BY <1>0, <1>4 DEF DeleteState, Await, StoreOK, external, bounds, history
  <2> QED
    BY <1>f, <1>g, <2>1 DEF CallbackLocation
<1>5. ASSUME Exchange(c) PROVE ProgressOK' /\ StoreOK'
  <2>1. pc[c] = "exchange" /\ UNCHANGED args /\ args[c].code \in Code /\ issued[args[c].code] # NONE
    BY <1>5 DEF Exchange, Await, ArgumentsFit, Exchanging, WithState
  <2>2. StoreOK'
    BY <1>0, <1>5, <2>1 DEF Exchange, StoreOK, bounds, history
  <2>3. Answer(c, Refused(400)) \/ Goto(c, "upsert", found[c])
    BY <1>5 DEF Exchange
  <2> QED
    BY <1>a, <1>d, <1>f, <1>g, <2>1, <2>2, <2>3 DEF CallbackLocation
<1>6. ASSUME findOrCreateByGithub(c) PROVE ProgressOK' /\ StoreOK'
  <2> DEFINE g == issued[args[c].code][2]
             u == [user |-> g, role |-> roleAfterLogin(g), client |-> found[c].clientType]
  <2>1. /\ pc[c] = "upsert" /\ UNCHANGED args
        /\ users' = [users EXCEPT ![g] = roleAfterLogin(g)] /\ Goto(c, "create", u)
        /\ UNCHANGED <<attempts, stored, issued, spent, sessions, seeds, faults,
                       hit, consumed, sound, inserted, admins>>
    BY <1>6 DEF findOrCreateByGithub, Await, external, bounds, history
  <2>2. g \in GithubId
    BY <1>0, <2>1 DEF StoreOK, ArgumentsFit, Exchanging, WithState
  <2>3. found[c] \in AttemptType
    BY <1>i, <1>w, <2>1 DEF ArgumentsFit, ReadsFit, Exchanging, WithState
  <2>4. roleAfterLogin(g) \in Role /\ roleAfterLogin(g) # NONE
    BY <1>0, <2>2, RolesFit
  <2>5. u \in FoundType
    BY <2>2, <2>3, <2>4 DEF AttemptType, LoginUser, FoundType
  <2> HIDE DEF u, g
  <2>6. StoreOK'
    BY <1>0, <2>1, <2>2, <2>4 DEF StoreOK, Session
  <2> QED
    BY <1>g, <2>1, <2>5, <2>6 DEF CallbackLocation
<1>7. ASSUME CreateSession(c) PROVE ProgressOK' /\ StoreOK'
  <2>1. /\ pc[c] = "create" /\ UNCHANGED args
        /\ UNCHANGED <<attempts, stored, issued, spent, users, seeds, faults,
                       hit, consumed, sound, inserted, admins>>
    BY <1>7 DEF CreateSession, Await, external, bounds, history
  <2>2. found[c] \in LoginUser /\ users[found[c].user] # NONE
    BY <2>1 DEF ReadsFit, LoggingIn, LoginFits
  <2>3. CASE Answer(c, Refused(500)) /\ UNCHANGED sessions
    <3>1. StoreOK'
      BY <1>0, <2>1, <2>3 DEF StoreOK
    <3> QED
      BY <1>a, <1>d, <2>1, <2>3, <3>1
  <2>4. CASE /\ Goto(c, "store", found[c])
             /\ sessions' = [sessions EXCEPT ![c] =
                   [user |-> found[c].user, role |-> found[c].role,
                    clientType |-> found[c].client, stored |-> FALSE]]
    <3> DEFINE row == [user |-> found[c].user, role |-> found[c].role,
                       clientType |-> found[c].client, stored |-> FALSE]
    <3>1. row \in Session /\ users[row.user] # NONE
      BY <2>2 DEF LoginUser, Session
    <3>2. sessions' = [sessions EXCEPT ![c] = row]
      BY <2>4
    <3> HIDE DEF row
    <3>3. StoreOK'
      BY <1>0, <2>1, <3>1, <3>2 DEF StoreOK
    <3> QED
      BY <1>f, <1>g, <2>1, <2>4, <3>3 DEF CallbackLocation
  <2> QED
    BY <1>7, <2>3, <2>4 DEF CreateSession
<1>h. ASSUME pc[c] = "store" PROVE Issued(c) /\ sessions[c] \in Session
  BY <1>0, <1>h DEF ReadsFit, Issued, StoreOK
<1>s. ASSUME pc[c] = "store", sessions' = [sessions EXCEPT ![c].stored = TRUE]
      PROVE  /\ sessions' \in [Callback -> Session \cup {NONE}]
             /\ \A d \in Callback : sessions'[d] # NONE => sessions[d] # NONE /\ sessions'[d].user = sessions[d].user
  <2>1. sessions'[c] \in Session /\ sessions'[c].user = sessions[c].user /\ sessions[c] # NONE
    BY <1>0, <1>h, <1>s DEF Session, StoreOK, Issued
  <2>2. \A d \in Callback \ {c} : sessions'[d] = sessions[d]
    BY <1>0, <1>s DEF StoreOK
  <2>3. sessions' \in [Callback -> Session \cup {NONE}]
    BY <1>0, <1>s, <2>1 DEF StoreOK
  <2> QED
    BY <2>1, <2>2, <2>3
<1>8. ASSUME StoreHash(c) PROVE ProgressOK' /\ StoreOK'
  <2>1. /\ pc[c] = "store" /\ UNCHANGED args /\ Answer(c, delivery(c))
        /\ sessions' = [sessions EXCEPT ![c].stored = TRUE]
        /\ UNCHANGED <<attempts, stored, issued, spent, users, seeds, faults,
                       hit, consumed, sound, inserted, admins>>
    BY <1>8 DEF StoreHash, Await, external, bounds, history
  <2>2. delivery(c) \in AnswerType
    <3>1. DeliveryFits(c, delivery(c))
      BY <1>0, <2>1, DeliveriesFit DEF ArgumentsFit, LoggingIn
    <3> QED
      BY <3>1 DEF DeliveryFits
  <2>3. StoreOK'
    BY <1>0, <1>s, <2>1 DEF StoreOK
  <2> QED
    BY <1>d, <2>1, <2>2, <2>3
<1>9. ASSUME CallFails(c) PROVE ProgressOK' /\ StoreOK'
  <2>1. /\ pc[c] \notin {"idle", "done"} /\ UNCHANGED args /\ Answer(c, Refused(IF pc[c] = "exchange" THEN 401 ELSE 500))
        /\ faults < MaxFaults /\ faults' = faults + 1 /\ hit' = hit \cup {c} /\ sound' = sound \ {c}
        /\ UNCHANGED <<attempts, issued, users, seeds, consumed, inserted, admins>>
    BY <1>9 DEF CallFails
  <2>2. stored' \subseteq stored
    BY <1>9 DEF CallFails
  <2>3. spent' = spent \/ (spent' = spent \cup {args[c].code} /\ pc[c] = "exchange")
    BY <1>9 DEF CallFails
  <2>4. spent' \subseteq {k \in Code : issued[k] # NONE}
    BY <1>0, <2>3 DEF StoreOK, ArgumentsFit, Exchanging, WithState
  <2>5. sessions' = sessions \/ (pc[c] = "store" /\ sessions' = [sessions EXCEPT ![c].stored = TRUE])
    BY <1>9 DEF CallFails
  <2>6. /\ sessions' \in [Callback -> Session \cup {NONE}]
        /\ \A d \in Callback : sessions'[d] # NONE => sessions[d] # NONE /\ sessions'[d].user = sessions[d].user
    BY <1>0, <1>s, <2>5 DEF StoreOK
  <2>7. faults' \in 0 .. MaxFaults
    BY <1>0, <2>1, ConstantsAssumption DEF StoreOK
  <2>8. StoreOK'
    BY <1>0, <2>1, <2>2, <2>4, <2>6, <2>7 DEF StoreOK
  <2> QED
    BY <1>a, <1>d, <2>1, <2>8
<1> QED
  BY <1>1, <1>2, <1>3, <1>4, <1>5, <1>6, <1>7, <1>8, <1>9 DEF CallbackStep

\* A creation that begins or goes on keeps its types.
LEMMA CreationKeepsTypes ==
    ASSUME TypeOK, NEW d \in Creation, CreationFits(d), CreationStep(d)
    PROVE  TypeOK'
<1> SUFFICES ProgressOK' /\ StoreOK'
  BY TypesInTwo
<1>0. ProgressOK /\ StoreOK /\ d \in Call /\ d \notin Callback
  BY TypesInTwo, ConstantsAssumption DEF Call
<1>a. Created \in AnswerType /\ \A n \in {409, 500} : Refused(n) \in AnswerType
  BY AnswersHaveTypes
<1>d. ASSUME NEW a \in AnswerType, Answer(d, a), pc[d] # "idle", UNCHANGED args PROVE ProgressOK'
  <2>1. Moved(d, "done")
    BY <1>0, <1>d, AnswerMoves
  <2> QED
    BY <2>1, <1>0, <1>d, MovedFits DEF CreationLocation
<1>i. /\ pc[d] \in CreationLocation
      /\ pc[d] # "idle" => args[d] \in CreationArgs
  BY <1>0 DEF ProgressOK
<1>1. ASSUME NEW g \in GithubId, NEW role \in Role, create(d, g, role) PROVE ProgressOK' /\ StoreOK'
  <2> DEFINE w == [githubId |-> g, role |-> role]
  <2>1. w \in CreationArgs /\ args' = [args EXCEPT ![d] = w] /\ Goto(d, "find", NONE) /\ pc[d] = "idle"
    BY <1>1 DEF create, CreationArgs
  <2>2. StoreOK'
    BY <1>0, <1>1 DEF create, StoreOK, external, bounds, history
  <2>3. Moved(d, "find") /\ "find" \in CreationLocation
    BY <1>0, <2>1, GotoMoves DEF Location, CreationLocation, FoundType
  <2> HIDE DEF w
  <2>4. ProgressOK'
    BY <1>0, <2>1, <2>3, BeginFits
  <2> QED
    BY <2>2, <2>4
<1>2. ASSUME findByGithubId(d) PROVE ProgressOK' /\ StoreOK'
  <2>1. pc[d] = "find" /\ UNCHANGED args /\ (Answer(d, Refused(409)) \/ Goto(d, "insert", NONE))
    BY <1>2 DEF findByGithubId, Await
  <2>2. StoreOK'
    BY <1>0, <1>2 DEF findByGithubId, StoreOK, external, bounds, history
  <2>3. ASSUME Goto(d, "insert", NONE) PROVE ProgressOK'
    <3>1. Moved(d, "insert") /\ "insert" \in CreationLocation
      BY <1>0, <2>1, <2>3, GotoMoves DEF Location, CreationLocation, FoundType
    <3> QED
      BY <1>0, <2>1, <3>1, MovedFits
  <2> QED
    BY <1>a, <1>d, <2>1, <2>2, <2>3
<1>3. ASSUME Insert(d) PROVE ProgressOK' /\ StoreOK'
  <2>1. /\ pc[d] = "insert" /\ UNCHANGED args /\ Witness
        /\ UNCHANGED <<attempts, stored, issued, spent, sessions, seeds, faults, hit, consumed, sound>>
    BY <1>3 DEF Insert, Await, external, bounds
  <2>2. Answer(d, Created) \/ Answer(d, Refused(500))
    BY <1>3 DEF Insert
  <2>3. /\ users' = users \/ users' = [users EXCEPT ![args[d].githubId] = args[d].role]
        /\ inserted' \in {inserted, inserted \cup {d}}
    BY <1>3 DEF Insert
  <2>4. args[d].githubId \in GithubId /\ args[d].role \in Role /\ args[d].role # NONE
    BY <1>i, <2>1, ConstantsAssumption DEF CreationArgs
  <2>5. admins' \in [Callback -> SUBSET GithubId]
    BY <1>0, <2>1, WitnessFits
  <2>6. /\ users' \in [GithubId -> Role \cup {NONE}]
        /\ \A g \in GithubId : users[g] # NONE => users'[g] # NONE
    BY <1>0, <2>3, <2>4 DEF StoreOK
  <2>7. StoreOK'
    BY <1>0, <2>1, <2>3, <2>5, <2>6 DEF StoreOK, Session
  <2> QED
    BY <1>a, <1>d, <2>1, <2>2, <2>7
<1>4. ASSUME CallFails(d) PROVE ProgressOK' /\ StoreOK'
  <2>1. /\ pc[d] \notin {"idle", "done"} /\ UNCHANGED args /\ Answer(d, Refused(IF pc[d] = "exchange" THEN 401 ELSE 500))
        /\ faults < MaxFaults /\ faults' = faults + 1 /\ hit' = hit \cup {d} /\ sound' = sound \ {d}
        /\ UNCHANGED <<attempts, issued, users, seeds, consumed, inserted, admins>>
    BY <1>4 DEF CallFails
  <2>2. pc[d] \notin {"del", "exchange", "store"}
    BY <1>i DEF CreationLocation
  <2>3. UNCHANGED <<stored, spent, sessions>>
    BY <1>4, <2>2 DEF CallFails
  <2>4. faults' \in 0 .. MaxFaults
    BY <1>0, <2>1, ConstantsAssumption DEF StoreOK
  <2>5. StoreOK'
    BY <1>0, <2>1, <2>3, <2>4 DEF StoreOK
  <2>6. Answer(d, Refused(500))
    BY <2>1, <2>2
  <2> QED
    BY <1>a, <1>d, <2>1, <2>5, <2>6
<1> QED
  BY <1>1, <1>2, <1>3, <1>4 DEF CreationStep

\* So do the steps of the world, and a crash.
LEMMA WorldKeepsTypes ==
    ASSUME TypeOK, WorldStep
    PROVE  TypeOK'
<1> SUFFICES ProgressOK' /\ StoreOK'
  BY TypesInTwo
<1>0. ProgressOK /\ StoreOK
  BY TypesInTwo
<1>1. ASSUME NEW a \in Attempt, NEW query \in Asked, getGitHubAuthUrl(a, query)
      PROVE  ProgressOK' /\ StoreOK'
  <2>1. UNCHANGED <<pc, args, found, answer>>
    BY <1>1 DEF getGitHubAuthUrl, progress
  <2>2. query # NONE
    BY ConstantsAssumption
  <2>3. StoreOK'
    BY <1>0, <1>1, <2>2 DEF getGitHubAuthUrl, StoreOK, external, bounds, history
  <2> QED
    BY <1>0, <2>1, <2>3 DEF ProgressOK
<1>2. ASSUME NEW a \in Attempt, Expire(a) PROVE ProgressOK' /\ StoreOK'
  <2>1. UNCHANGED <<pc, args, found, answer>>
    BY <1>2 DEF Expire, progress
  <2>2. StoreOK'
    BY <1>0, <1>2 DEF Expire, StoreOK, external, bounds
  <2> QED
    BY <1>0, <2>1, <2>2 DEF ProgressOK
<1>3. ASSUME NEW a \in Attempt, NEW k \in Code, NEW g \in GithubId, Authorize(k, a, g)
      PROVE  ProgressOK' /\ StoreOK'
  <2>1. UNCHANGED <<pc, args, found, answer>>
    BY <1>3 DEF Authorize, progress
  <2>2. StoreOK'
    BY <1>0, <1>3 DEF Authorize, StoreOK, bounds, history
  <2> QED
    BY <1>0, <2>1, <2>2 DEF ProgressOK
<1>4. ASSUME NEW g \in GithubId, NEW role \in Role, Seed(g, role) PROVE ProgressOK' /\ StoreOK'
  <2>1. /\ UNCHANGED <<pc, args, found, answer>> /\ Witness
        /\ seeds < MaxSeeds /\ seeds' = seeds + 1 /\ users' = [users EXCEPT ![g] = role]
        /\ UNCHANGED <<attempts, stored, issued, spent, sessions, faults, hit, consumed, sound, inserted>>
    BY <1>4 DEF Seed, progress, external
  <2>2. seeds' \in 0 .. MaxSeeds
    BY <1>0, <2>1, ConstantsAssumption DEF StoreOK
  <2>3. admins' \in [Callback -> SUBSET GithubId]
    BY <1>0, <2>1, WitnessFits
  <2>4. StoreOK'
    BY <1>0, <2>1, <2>2, <2>3, ConstantsAssumption DEF StoreOK, Session
  <2> QED
    BY <1>0, <2>1, <2>4 DEF ProgressOK
<1> QED
  BY <1>1, <1>2, <1>3, <1>4 DEF WorldStep

LEMMA CrashKeepsTypes ==
    ASSUME TypeOK, Crash
    PROVE  TypeOK'
<1> SUFFICES ProgressOK' /\ StoreOK'
  BY TypesInTwo
<1>0. ProgressOK /\ StoreOK
  BY TypesInTwo
<1>1. LOST \in AnswerType /\ LOST # NONE
  BY AnswersHaveTypes
<1>2. /\ pc' = [c \in Call |-> IF Live(c) THEN "done" ELSE pc[c]]
      /\ answer' = [c \in Call |-> IF Live(c) THEN LOST ELSE answer[c]]
      /\ hit' = hit \cup {c \in Call : Live(c)} /\ sound' \subseteq sound
      /\ faults < MaxFaults /\ faults' = faults + 1
      /\ UNCHANGED <<attempts, stored, issued, spent, users, sessions, args, found, seeds,
                     consumed, inserted, admins>>
  BY DEF Crash, external
<1>3. faults' \in 0 .. MaxFaults
  BY <1>0, <1>2, ConstantsAssumption DEF StoreOK
<1>4. StoreOK'
  BY <1>0, <1>2, <1>3 DEF StoreOK
<1>5. ProgressOK'
  BY <1>0, <1>1, <1>2 DEF ProgressOK, Live, Call, Location, CallbackLocation, CreationLocation
<1> QED
  BY <1>4, <1>5

-----------------------------------------------------------------------------
(* What a step leaves alone. *)

\* The properties, callback by callback.
Rightful(c) ==
    Issued(c) => IF args[c].code = ANY THEN sessions[c].user \in admins[c]
                 ELSE /\ c \notin consumed
                      /\ issued[args[c].code] = <<args[c].state, sessions[c].user>>

AnsweredAsAsked(c) ==
    Issued(c) /\ pc[c] = "done" =>
        LET asked == attempts[args[c].state]
        IN  \/ ~Delivered(c) /\ c \in hit
            \/ args[c].code = ANY /\ Delivered(c)
            \/ args[c].code # ANY /\ ~Delivered(c) /\ asked.redirect = MALFORMED
            \/ /\ args[c].code # ANY /\ Delivered(c)
               /\ sessions[c].clientType = asked.clientType
               /\ answer[c].form = "cookies" <=> asked.clientType = "web"
               /\ answer[c].form = "redirect" =>
                    answer[c].to = IF asked.redirect = NONE THEN LISTENER ELSE asked.redirect

LogsIn(c) ==
    c \in sound /\ pc[c] = "done" =>
        Delivered(c) \/ (Issued(c) /\ attempts[args[c].state].redirect = MALFORMED)

Fits(c) == ArgumentsFit(c) /\ ReadsFit(c) /\ StateIsGone(c) /\ Rightful(c) /\ AnsweredAsAsked(c)
SoundFits(c) == SoundIsAlone(c) /\ LogsIn(c)

LEMMA InvByCallback ==
    /\ Inv <=> /\ TypeOK /\ \A c \in Callback : Fits(c) /\ SoundFits(c)
               /\ \A d \in Creation : CreationFits(d)
               /\ CreationsAgree
    /\ Inv' <=> /\ TypeOK' /\ \A c \in Callback : Fits(c)' /\ SoundFits(c)'
                /\ \A d \in Creation : CreationFits(d)'
                /\ CreationsAgree'
<1>0. TypeOK => sound \subseteq Callback
  BY DEF TypeOK
<1>1. /\ SessionIsForItsAttempt <=> \A c \in Callback : Rightful(c)
      /\ DeliveredAsAsked <=> \A c \in Callback : AnsweredAsAsked(c)
      /\ TypeOK => (FirstCallbackLogsIn <=> \A c \in Callback : LogsIn(c))
  BY <1>0 DEF SessionIsForItsAttempt, DeliveredAsAsked, FirstCallbackLogsIn,
       Rightful, AnsweredAsAsked, LogsIn
<1>2. TypeOK' => sound' \subseteq Callback
  BY DEF TypeOK
<1>3. /\ SessionIsForItsAttempt' <=> \A c \in Callback : Rightful(c)'
      /\ DeliveredAsAsked' <=> \A c \in Callback : AnsweredAsAsked(c)'
      /\ TypeOK' => (FirstCallbackLogsIn' <=> \A c \in Callback : LogsIn(c)')
  BY <1>2 DEF SessionIsForItsAttempt, DeliveredAsAsked, FirstCallbackLogsIn,
       Rightful, AnsweredAsAsked, LogsIn
<1>4. Inv <=> /\ TypeOK /\ \A c \in Callback : Fits(c) /\ SoundFits(c)
              /\ \A d \in Creation : CreationFits(d)
              /\ CreationsAgree
  BY <1>1 DEF Inv, CallbackFits, Fits, SoundFits
<1>5. Inv' <=> /\ TypeOK' /\ \A c \in Callback : Fits(c)' /\ SoundFits(c)'
               /\ \A d \in Creation : CreationFits(d)'
               /\ CreationsAgree'
  BY <1>3 DEF Inv, CallbackFits, Fits, SoundFits
<1> QED
  BY <1>4, <1>5

\* What has come into being stays; a state that is gone stays gone.
Grows ==
    /\ \A a \in Attempt : attempts[a] # NONE =>
         attempts'[a] = attempts[a] /\ (a \in stored' => a \in stored)
    /\ \A k \in Code : issued[k] # NONE => issued'[k] = issued[k]
    /\ \A g \in GithubId : users[g] # NONE => users'[g] # NONE
    /\ hit \subseteq hit'

Undisturbed(c) ==
    /\ pc'[c] = pc[c] /\ args'[c] = args[c] /\ found'[c] = found[c] /\ answer'[c] = answer[c]
    /\ sessions'[c] = sessions[c] /\ (c \in consumed' <=> c \in consumed)
    /\ admins[c] \subseteq admins'[c]
    /\ Live(c) => Admins' \subseteq admins'[c]

LEMMA UndisturbedFits ==
    ASSUME TypeOK, TypeOK', NEW c \in Callback, Fits(c), Grows, Undisturbed(c)
    PROVE  Fits(c)'
<1>0. /\ pc[c] # "idle" => args[c] \in CallbackArgs
      /\ stored \subseteq Attempt /\ sessions[c] \in Session \cup {NONE}
      /\ Live(c)' <=> Live(c)
      /\ Issued(c)' <=> Issued(c)
      /\ Exchanging(c)' <=> Exchanging(c)
      /\ LoggingIn(c)' <=> LoggingIn(c)
      /\ WithState(c)' <=> WithState(c)
      /\ PastDeletion(c)' <=> PastDeletion(c)
      /\ Delivered(c)' <=> Delivered(c)
  BY DEF TypeOK, Undisturbed, Live, Issued, Exchanging, LoggingIn, WithState, PastDeletion, Delivered
<1>a. Exchanging(c) \/ LoggingIn(c) \/ Issued(c) => pc[c] # "idle"
  BY DEF Fits, ReadsFit, Exchanging, LoggingIn
<1>1. args[c].state \in Attempt /\ pc[c] # "idle" =>
        /\ attempts[args[c].state] # NONE
        /\ attempts'[args[c].state] = attempts[args[c].state]
        /\ args[c].state \in stored' => args[c].state \in stored
  BY DEF Fits, ArgumentsFit, Grows
<1>2. args[c].code \in Code /\ pc[c] # "idle" =>
        issued[args[c].code] # NONE /\ issued'[args[c].code] = issued[args[c].code]
  BY DEF Fits, ArgumentsFit, Grows
<1>3. ArgumentsFit(c)'
  BY <1>0, <1>1, <1>2 DEF Fits, ArgumentsFit, Undisturbed
<1>4. LoggingIn(c) \/ Issued(c) => args[c].code = ANY \/ WithState(c)
  BY DEF Fits, ArgumentsFit
<1>5. Exchanging(c) => WithState(c)
  BY DEF Fits, ArgumentsFit
<1>6. ReadsFit(c)'
  <2>1. ASSUME LoggingIn(c) PROVE LoginFits(c)'
    <3>1. LoginFits(c) /\ found[c].user \in GithubId
      BY <2>1 DEF Fits, ReadsFit, LoginFits, LoginUser
    <3> QED
      BY <1>1, <1>2, <1>4, <1>a, <2>1, <3>1 DEF LoginFits, WithState, Grows, Undisturbed
  <2>2. Exchanging(c) => found'[c] = attempts'[args'[c].state]
    BY <1>1, <1>5, <1>a DEF Fits, ReadsFit, WithState, Undisturbed
  <2>3. pc[c] = "upsert" => issued'[args'[c].code][1] = args'[c].state
    BY <1>2, <1>5 DEF Fits, ReadsFit, Exchanging, WithState, Undisturbed
  <2> QED
    BY <1>0, <2>1, <2>2, <2>3 DEF Fits, ReadsFit, Undisturbed
<1>7. StateIsGone(c)'
  <2>1. ASSUME c \in consumed \/ PastDeletion(c) PROVE args'[c].state \notin stored'
    <3>1. pc[c] # "idle" /\ args[c].state \notin stored
      BY <2>1, <1>a DEF Fits, StateIsGone, PastDeletion, Issued
    <3>2. args[c].state \in Attempt \/ args[c].state = NONE
      BY <1>0, <3>1 DEF CallbackArgs
    <3>3. CASE args[c].state \in Attempt
      BY <1>1, <3>1, <3>3 DEF Undisturbed
    <3>4. CASE args[c].state = NONE
      <4>1. \A a \in Attempt : a # NONE
        BY ConstantsAssumption
      <4>2. \A a \in stored' : a \in Attempt
        BY DEF TypeOK
      <4> QED
        BY <3>4, <4>1, <4>2 DEF Undisturbed
    <3> QED
      BY <3>2, <3>3, <3>4
  <2> QED
    BY <1>0, <2>1 DEF Fits, StateIsGone, Undisturbed
<1>8. Rightful(c)'
  BY <1>0, <1>2, <1>4, <1>a DEF Fits, Rightful, WithState, Undisturbed
<1>9. AnsweredAsAsked(c)'
  BY <1>0, <1>1, <1>4, <1>a DEF Fits, AnsweredAsAsked, WithState, Undisturbed, Grows
<1> QED
  BY <1>3, <1>6, <1>7, <1>8, <1>9 DEF Fits

\* A callback's step disturbs no other callback.
LEMMA CallbackLeavesOthers ==
    ASSUME TypeOK, NEW c \in Callback, \A d \in Callback : Fits(d), CallbackStep(c)
    PROVE  Grows /\ \A d \in Callback \ {c} : Undisturbed(d)
<1>0. StoreOK /\ ProgressOK /\ ArgumentsFit(c) /\ ReadsFit(c)
      /\ \A d \in Callback : d \in Call /\ (Live(d) => Admins \subseteq admins[d])
  BY TypesInTwo DEF Fits, ReadsFit, Call
<1> DEFINE Apart == \A d \in Callback \ {c} :
             /\ pc'[d] = pc[d] /\ args'[d] = args[d] /\ found'[d] = found[d] /\ answer'[d] = answer[d]
             /\ sessions'[d] = sessions[d] /\ (d \in consumed' <=> d \in consumed)
             /\ admins'[d] = admins[d]
<1>1. ASSUME Grows, Apart, Admins' \subseteq Admins
      PROVE  Grows /\ \A d \in Callback \ {c} : Undisturbed(d)
  BY <1>0, <1>1 DEF Undisturbed
<1>2. ASSUME UNCHANGED users PROVE Admins' \subseteq Admins
  BY <1>2 DEF Admins
<1>3. ASSUME NEW w \in Arguments, githubCallback(c, w) PROVE Grows /\ Apart /\ UNCHANGED users
  BY <1>0, <1>3 DEF githubCallback, Answer, Goto, Grows, ProgressOK, StoreOK, external, bounds
<1>4. ASSUME FindAdmin(c) PROVE Grows /\ Apart /\ UNCHANGED users
  <2>1. Grows /\ UNCHANGED <<users, sessions, args, consumed, admins>>
    BY <1>4 DEF FindAdmin, Grows, external, history
  <2>2. \E l, v : Goto(c, l, v) \/ Answer(c, v)
    BY <1>4 DEF FindAdmin
  <2> QED
    BY <1>0, <2>1, <2>2 DEF Goto, Answer, ProgressOK
<1>5. ASSUME GetState(c) PROVE Grows /\ Apart /\ UNCHANGED users
  BY <1>0, <1>5 DEF GetState, Answer, Goto, Grows, ProgressOK, external, bounds, history
<1>6. ASSUME DeleteState(c) PROVE Grows /\ Apart /\ UNCHANGED users
  BY <1>0, <1>6 DEF DeleteState, Goto, Grows, ProgressOK, external, bounds, history
<1>7. ASSUME Exchange(c) PROVE Grows /\ Apart /\ UNCHANGED users
  BY <1>0, <1>7 DEF Exchange, Answer, Goto, Grows, ProgressOK, bounds, history
<1>8. ASSUME findOrCreateByGithub(c) PROVE Grows /\ Apart /\ Admins' \subseteq Admins
  <2> DEFINE g == issued[args[c].code][2]
  <2>1. /\ pc[c] = "upsert" /\ users' = [users EXCEPT ![g] = roleAfterLogin(g)]
        /\ UNCHANGED <<attempts, stored, issued, spent, sessions, args, hit, consumed, admins>>
        /\ \E v : Goto(c, "create", v)
    BY <1>8 DEF findOrCreateByGithub, Await, external, bounds, history
  <2>2. g \in GithubId
    BY <1>0, <2>1 DEF StoreOK, ArgumentsFit, Exchanging, WithState
  <2>3. roleAfterLogin(g) # NONE /\ (roleAfterLogin(g) = "ADMIN" => users[g] = "ADMIN")
    BY <1>0, <2>2, RolesFit
  <2> HIDE DEF g
  <2>4. Grows
    BY <1>0, <2>1, <2>2, <2>3 DEF Grows, StoreOK
  <2>5. Apart
    BY <1>0, <2>1 DEF Goto, ProgressOK
  <2>6. Admins' \subseteq Admins
    BY <1>0, <2>1, <2>2, <2>3 DEF Admins, StoreOK
  <2> QED
    BY <2>4, <2>5, <2>6
<1>9. ASSUME CreateSession(c) PROVE Grows /\ Apart /\ UNCHANGED users
  <2>1. Grows /\ UNCHANGED <<users, args, consumed, admins>>
    BY <1>9 DEF CreateSession, Grows, external, history
  <2>2. \E l, v : Goto(c, l, v) \/ Answer(c, v)
    BY <1>9 DEF CreateSession
  <2>3. \A d \in Callback \ {c} : sessions'[d] = sessions[d]
    BY <1>0, <1>9 DEF CreateSession, StoreOK
  <2> QED
    BY <1>0, <2>1, <2>2, <2>3 DEF Goto, Answer, ProgressOK
<1>10. ASSUME StoreHash(c) PROVE Grows /\ Apart /\ UNCHANGED users
  BY <1>0, <1>10 DEF StoreHash, Answer, Grows, ProgressOK, StoreOK, external, bounds, history
<1>11. ASSUME CallFails(c) PROVE Grows /\ Apart /\ UNCHANGED users
  <2>1. /\ UNCHANGED <<users, attempts, issued, args, consumed, admins>>
        /\ stored' \subseteq stored /\ hit \subseteq hit'
    BY <1>11 DEF CallFails
  <2>2. Answer(c, Refused(IF pc[c] = "exchange" THEN 401 ELSE 500))
    BY <1>11 DEF CallFails
  <2>3. \A d \in Callback \ {c} : sessions'[d] = sessions[d]
    BY <1>0, <1>11 DEF CallFails, StoreOK
  <2> QED
    BY <1>0, <2>1, <2>2, <2>3 DEF Answer, ProgressOK, Grows
<1> HIDE DEF Apart
<1> QED
  BY <1>1, <1>2, <1>3, <1>4, <1>5, <1>6, <1>7, <1>8, <1>9, <1>10, <1>11 DEF CallbackStep

\* A creation's step disturbs no callback.
LEMMA CreationLeavesCallbacks ==
    ASSUME TypeOK, NEW d \in Creation, \A c \in Callback : Fits(c), CreationStep(d)
    PROVE  Grows /\ \A c \in Callback : Undisturbed(c)
<1>0. StoreOK /\ ProgressOK /\ pc[d] \in CreationLocation /\ d \in Call
      /\ \A c \in Callback : c \in Call /\ c # d /\ (Live(c) => Admins \subseteq admins[c])
  BY TypesInTwo, ConstantsAssumption DEF Fits, ReadsFit, Call, ProgressOK
<1> DEFINE Apart == \A c \in Callback :
             /\ pc'[c] = pc[c] /\ args'[c] = args[c] /\ found'[c] = found[c] /\ answer'[c] = answer[c]
             /\ sessions'[c] = sessions[c] /\ (c \in consumed' <=> c \in consumed)
<1>1. ASSUME Apart, UNCHANGED <<users, admins>>
      PROVE  \A c \in Callback : Undisturbed(c)
  BY <1>0, <1>1 DEF Undisturbed, Admins
<1>2. ASSUME NEW g \in GithubId, NEW role \in Role, create(d, g, role)
      PROVE  Grows /\ Apart /\ UNCHANGED <<users, admins>>
  BY <1>0, <1>2 DEF create, Goto, Grows, ProgressOK, external, bounds, history
<1>3. ASSUME findByGithubId(d) PROVE Grows /\ Apart /\ UNCHANGED <<users, admins>>
  BY <1>0, <1>3 DEF findByGithubId, Answer, Goto, Grows, ProgressOK, external, bounds, history
<1>4. ASSUME Insert(d) PROVE Grows /\ \A c \in Callback : Undisturbed(c)
  <2>1. /\ pc[d] = "insert" /\ Witness
        /\ UNCHANGED <<attempts, stored, issued, sessions, args, hit, consumed>>
        /\ \E v : Answer(d, v)
        /\ \/ users' = users
           \/ users' = [users EXCEPT ![args[d].githubId] = args[d].role]
    BY <1>4 DEF Insert, Await, external
  <2>2. args[d].role # NONE
    BY <1>0, <2>1, ConstantsAssumption DEF ProgressOK, CreationArgs
  <2>3. Grows
    BY <1>0, <2>1, <2>2 DEF Grows, StoreOK
  <2>4. Apart
    BY <1>0, <2>1 DEF Answer, ProgressOK
  <2>5. \A c \in Callback : admins[c] \subseteq admins'[c] /\ (Live(c) => Admins' \subseteq admins'[c])
    BY <1>0, <2>1, WitnessFits
  <2> QED
    BY <2>3, <2>4, <2>5 DEF Undisturbed
<1>5. ASSUME CallFails(d) PROVE Grows /\ Apart /\ UNCHANGED <<users, admins>>
  <2>1. pc[d] \notin {"del", "exchange", "store"}
    BY <1>0 DEF CreationLocation
  <2>2. /\ UNCHANGED <<stored, sessions, users, attempts, issued, args, consumed, admins>>
        /\ hit \subseteq hit'
        /\ Answer(d, Refused(IF pc[d] = "exchange" THEN 401 ELSE 500))
    BY <1>5, <2>1 DEF CallFails
  <2> QED
    BY <1>0, <2>2 DEF Answer, ProgressOK, Grows
<1> HIDE DEF Apart
<1> QED
  BY <1>1, <1>2, <1>3, <1>4, <1>5 DEF CreationStep

\* Nor does the world; and it takes nobody's place.
LEMMA WorldLeavesCalls ==
    ASSUME TypeOK, \A c \in Callback : Fits(c), WorldStep
    PROVE  /\ Grows /\ \A c \in Callback : Undisturbed(c)
           /\ UNCHANGED <<pc, args, answer, sessions, spent, inserted, hit>>
<1>0. StoreOK /\ \A c \in Callback : Live(c) => Admins \subseteq admins[c]
  BY TypesInTwo DEF Fits, ReadsFit
<1>1. ASSUME NEW a \in Attempt, NEW query \in Asked, getGitHubAuthUrl(a, query)
      PROVE  /\ Grows /\ \A c \in Callback : Undisturbed(c)
             /\ UNCHANGED <<pc, args, answer, sessions, spent, inserted, hit>>
  BY <1>0, <1>1 DEF getGitHubAuthUrl, Grows, Undisturbed, Admins, StoreOK, external, progress, history
<1>2. ASSUME NEW a \in Attempt, Expire(a)
      PROVE  /\ Grows /\ \A c \in Callback : Undisturbed(c)
             /\ UNCHANGED <<pc, args, answer, sessions, spent, inserted, hit>>
  BY <1>0, <1>2 DEF Expire, Grows, Undisturbed, Admins, external, progress
<1>3. ASSUME NEW a \in Attempt, NEW k \in Code, NEW g \in GithubId, Authorize(k, a, g)
      PROVE  /\ Grows /\ \A c \in Callback : Undisturbed(c)
             /\ UNCHANGED <<pc, args, answer, sessions, spent, inserted, hit>>
  BY <1>0, <1>3 DEF Authorize, Grows, Undisturbed, Admins, StoreOK, progress, history
<1>4. ASSUME NEW g \in GithubId, NEW role \in Role, Seed(g, role)
      PROVE  /\ Grows /\ \A c \in Callback : Undisturbed(c)
             /\ UNCHANGED <<pc, args, answer, sessions, spent, inserted, hit>>
  <2>1. /\ Witness /\ users' = [users EXCEPT ![g] = role]
        /\ UNCHANGED <<pc, args, found, answer, attempts, stored, issued, spent, sessions,
                       hit, consumed, inserted>>
    BY <1>4 DEF Seed, external, progress
  <2>2. \A c \in Callback : admins[c] \subseteq admins'[c] /\ (Live(c) => Admins' \subseteq admins'[c])
    BY <1>0, <2>1, WitnessFits
  <2> QED
    BY <1>0, <2>1, <2>2, ConstantsAssumption DEF Grows, Undisturbed, StoreOK
<1> QED
  BY <1>1, <1>2, <1>3, <1>4 DEF WorldStep

-----------------------------------------------------------------------------
(* What a callback's step does to the callback itself. *)

\* A callback that is refused, or whose call has failed.
LEMMA RefusalFits ==
    ASSUME TypeOK, TypeOK', Grows, NEW c \in Callback, Fits(c), pc[c] # "idle", pc'[c] = "done",
           sessions[c] = NONE, sessions'[c] = NONE, args'[c] = args[c], consumed' = consumed
    PROVE  Fits(c)'
<1>1. /\ ~Issued(c)' /\ ~Live(c)' /\ ~Exchanging(c)' /\ ~LoggingIn(c)' /\ ~PastDeletion(c)'
      /\ args[c].state \in Attempt \/ args[c].state = NONE
      /\ stored' \subseteq Attempt /\ NONE \notin Attempt
  BY ConstantsAssumption DEF Issued, Live, Exchanging, LoggingIn, PastDeletion, TypeOK, CallbackArgs
<1>2. ArgumentsFit(c)'
  BY <1>1 DEF Fits, ArgumentsFit, Grows
<1>3. StateIsGone(c)'
  BY <1>1 DEF Fits, ArgumentsFit, StateIsGone, Grows
<1> QED
  BY <1>1, <1>2, <1>3 DEF Fits, ReadsFit, Rightful, AnsweredAsAsked

LEMMA CallbackFitsItself ==
    ASSUME TypeOK, TypeOK', NEW c \in Callback, \A d \in Callback : Fits(d), Grows, CallbackStep(c)
    PROVE  Fits(c)'
<1>0. /\ StoreOK /\ ProgressOK /\ StoreOK' /\ c \in Call /\ Fits(c)
      /\ stored \subseteq Attempt /\ stored' \subseteq Attempt /\ NONE \notin Attempt
      /\ pc[c] # "idle" => args[c] \in CallbackArgs
      /\ ANY \notin Code
  BY TypesInTwo, ConstantsAssumption DEF StoreOK, ProgressOK, Call
<1>n. pc[c] \notin {"store", "done"} => sessions[c] = NONE
  BY <1>0 DEF Fits, ReadsFit, Issued
<1>1. ASSUME NEW w \in Arguments, githubCallback(c, w) PROVE Fits(c)'
  <2>1. /\ pc[c] = "idle" /\ args'[c] = w /\ pc'[c] \in {"done", "admin", "get"}
        /\ pc'[c] = "admin" => w.code = ANY
        /\ pc'[c] = "get" => w.code \notin {ANY, NONE} /\ w.state # NONE
        /\ admins'[c] = Admins /\ UNCHANGED <<attempts, stored, issued, users, sessions>>
    BY <1>0, <1>1 DEF githubCallback, Answer, Goto, ProgressOK, StoreOK, external
  <2>2. /\ w.state \in Attempt \/ w.state = NONE
        /\ w.state \in Attempt => attempts[w.state] # NONE
        /\ w.code \in Code => issued[w.code] # NONE
        /\ w.code \in Code \cup {ANY, NONE}
        /\ w.code = ANY => w.state = NONE
    <3>1. CASE w \in [code : {k \in Code : issued[k] # NONE},
                      state : {a \in Attempt : attempts[a] # NONE} \cup {NONE},
                      client_type : {"web", NONE}]
      BY <3>1, <1>0
    <3>2. CASE w \in [code : {ANY, NONE}, state : {NONE}, client_type : {"web", NONE}]
      BY <3>2, <1>0, ConstantsAssumption
    <3> QED
      BY <3>1, <3>2 DEF Arguments
  <2>3. /\ consumed' = IF w.state \notin stored \/ \E d \in Callback : TookState(d, w.state)
                         THEN consumed \cup {c} ELSE consumed
        /\ c \notin consumed
    BY <1>0, <1>1, <2>1 DEF githubCallback, Fits, StateIsGone
  <2>4. ASSUME NEW d \in Callback, TookState(d, w.state) PROVE w.state \notin stored
    BY <1>0, <2>4 DEF TookState, Fits, StateIsGone
  <2>5. c \in consumed' => w.state \notin stored
    BY <2>3, <2>4
  <2>6. /\ sessions'[c] = NONE /\ ~Issued(c)' /\ ~Exchanging(c)' /\ ~LoggingIn(c)' /\ ~PastDeletion(c)'
    BY <1>n, <2>1 DEF Issued, Exchanging, LoggingIn, PastDeletion
  <2>7. ArgumentsFit(c)'
    BY <2>1, <2>2, <2>6 DEF ArgumentsFit, WithState
  <2>8. StateIsGone(c)'
    BY <2>1, <2>5, <2>6 DEF StateIsGone
  <2>9. ReadsFit(c)'
    BY <2>1, <2>6 DEF ReadsFit, Admins, Exchanging
  <2> QED
    BY <2>6, <2>7, <2>8, <2>9 DEF Fits, Rightful, AnsweredAsAsked
<1>2. ASSUME FindAdmin(c) PROVE Fits(c)'
  <2>1. pc[c] = "admin" /\ UNCHANGED <<attempts, stored, issued, users, sessions, args, consumed, admins>>
    BY <1>2 DEF FindAdmin, Await, external, history
  <2>2. CASE Admins = {}
    <3>1. pc'[c] = "done"
      BY <1>0, <1>2, <2>2 DEF FindAdmin, Answer, ProgressOK
    <3> QED
      BY <1>0, <1>n, <2>1, <3>1, RefusalFits
  <2>3. CASE Admins # {}
    <3>1. PICK g \in Admins : Goto(c, "create", [user |-> g, role |-> users[g], client |-> "cli"])
      BY <1>2, <2>3 DEF FindAdmin
    <3>2. /\ pc'[c] = "create" /\ found'[c] = [user |-> g, role |-> users[g], client |-> "cli"]
          /\ g \in GithubId /\ users[g] = "ADMIN" /\ g \in admins[c] /\ args[c].code = ANY
      BY <1>0, <2>1, <3>1 DEF Goto, ProgressOK, Admins, Fits, ReadsFit, Live, ArgumentsFit
    <3>3. LoginFits(c)'
      BY <1>0, <2>1, <3>2, ConstantsAssumption DEF LoginFits, LoginUser, Role, StoreOK
    <3>4. ArgumentsFit(c)'
      BY <1>0, <2>1, <3>2 DEF Fits, ArgumentsFit, Exchanging
    <3>5. StateIsGone(c)'
      BY <1>0, <2>1, <3>2 DEF Fits, ArgumentsFit, StateIsGone, Exchanging, LoggingIn
    <3>6. ReadsFit(c)'
      BY <1>0, <1>n, <2>1, <3>2, <3>3 DEF Fits, ReadsFit, Exchanging, Issued, Live, Admins
    <3> QED
      BY <1>n, <2>1, <3>2, <3>4, <3>5, <3>6 DEF Fits, Rightful, AnsweredAsAsked, Issued
  <2> QED
    BY <2>2, <2>3
<1>3. ASSUME GetState(c) PROVE Fits(c)'
  <2>1. /\ pc[c] = "get" /\ WithState(c)
        /\ UNCHANGED <<attempts, stored, issued, users, sessions, args, consumed, admins>>
    BY <1>0, <1>3 DEF GetState, Await, Fits, ArgumentsFit, external, history
  <2>2. CASE args[c].state \notin stored
    <3>1. pc'[c] = "done"
      BY <1>0, <1>3, <2>2 DEF GetState, Answer, ProgressOK
    <3> QED
      BY <1>0, <1>n, <2>1, <3>1, RefusalFits
  <2>3. CASE args[c].state \in stored
    <3>1. pc'[c] = "del" /\ found'[c] = attempts[args[c].state]
      BY <1>0, <1>3, <2>3 DEF GetState, Goto, ProgressOK
    <3>2. ArgumentsFit(c)'
      BY <1>0, <2>1, <3>1 DEF Fits, ArgumentsFit, WithState
    <3>3. StateIsGone(c)'
      BY <1>0, <1>n, <2>1, <2>3, <3>1 DEF Fits, StateIsGone, PastDeletion
    <3>4. ReadsFit(c)'
      BY <1>n, <2>1, <3>1 DEF Fits, ReadsFit, LoggingIn, Issued, Live, Admins
    <3> QED
      BY <1>n, <2>1, <3>1, <3>2, <3>3, <3>4 DEF Fits, Rightful, AnsweredAsAsked, Issued
  <2> QED
    BY <2>2, <2>3
<1>4. ASSUME DeleteState(c) PROVE Fits(c)'
  <2>1. /\ pc[c] = "del" /\ pc'[c] = "exchange" /\ found'[c] = found[c]
        /\ stored' = stored \ {args[c].state}
        /\ UNCHANGED <<attempts, issued, users, sessions, args, consumed, admins>>
    BY <1>0, <1>4 DEF DeleteState, Await, Goto, ProgressOK, external, history
  <2>2. ArgumentsFit(c)'
    BY <1>0, <2>1 DEF Fits, ArgumentsFit, Exchanging, WithState
  <2>3. StateIsGone(c)'
    BY <1>0, <2>1 DEF Fits, StateIsGone, Exchanging
  <2>4. ReadsFit(c)'
    BY <1>n, <2>1 DEF Fits, ReadsFit, LoggingIn, Exchanging, Issued, Live, Admins
  <2> QED
    BY <1>n, <2>1, <2>2, <2>3, <2>4 DEF Fits, Rightful, AnsweredAsAsked, Issued
<1>5. ASSUME Exchange(c) PROVE Fits(c)'
  <2>1. /\ pc[c] = "exchange" /\ WithState(c) /\ issued[args[c].code] # NONE
        /\ UNCHANGED <<attempts, stored, issued, users, sessions, args, consumed, admins>>
    BY <1>0, <1>5 DEF Exchange, Await, Fits, ArgumentsFit, Exchanging, WithState, history
  <2>2. CASE ~Accepts(args[c].code, code_verifier(c))
    <3>1. pc'[c] = "done"
      BY <1>0, <1>5, <2>2 DEF Exchange, Answer, ProgressOK
    <3> QED
      BY <1>0, <1>n, <2>1, <3>1, RefusalFits
  <2>3. CASE Accepts(args[c].code, code_verifier(c))
    <3>1. pc'[c] = "upsert" /\ found'[c] = found[c]
      BY <1>0, <1>5, <2>3 DEF Exchange, Goto, ProgressOK
    <3>2. issued[args[c].code][1] = args[c].state
      BY <1>0, <2>1, <2>3 DEF Accepts, code_verifier, WithState
    <3>3. ArgumentsFit(c)'
      BY <1>0, <2>1, <3>1 DEF Fits, ArgumentsFit, WithState
    <3>4. StateIsGone(c)'
      BY <1>0, <2>1, <3>1 DEF Fits, StateIsGone, PastDeletion, Exchanging
    <3>5. ReadsFit(c)'
      BY <1>n, <2>1, <3>1, <3>2 DEF Fits, ReadsFit, LoggingIn, Exchanging, Issued, Live, Admins
    <3> QED
      BY <1>n, <2>1, <3>1, <3>3, <3>4, <3>5 DEF Fits, Rightful, AnsweredAsAsked, Issued
  <2> QED
    BY <2>2, <2>3
<1>6. ASSUME findOrCreateByGithub(c) PROVE Fits(c)'
  <2> DEFINE k == issued[args[c].code]
             g == k[2]
             u == [user |-> g, role |-> roleAfterLogin(g), client |-> found[c].clientType]
  <2>1. /\ pc[c] = "upsert" /\ WithState(c) /\ attempts[args[c].state] # NONE
        /\ k # NONE /\ k[1] = args[c].state /\ found[c] = attempts[args[c].state]
        /\ args[c].code # ANY
    BY <1>0, <1>6 DEF findOrCreateByGithub, Await, Fits, ArgumentsFit, ReadsFit, Exchanging, WithState
  <2>2. /\ pc'[c] = "create" /\ found'[c] = u /\ users' = [users EXCEPT ![g] = roleAfterLogin(g)]
        /\ UNCHANGED <<attempts, stored, issued, sessions, args, consumed, admins>>
    BY <1>0, <1>6 DEF findOrCreateByGithub, Goto, ProgressOK, external, history
  <2>3. k \in Attempt \X GithubId /\ k = <<args[c].state, g>> /\ g \in GithubId
    BY <1>0, <2>1 DEF StoreOK, WithState
  <2>4. found[c] \in AttemptType
    BY <1>0, <2>1, ConstantsAssumption DEF StoreOK, WithState
  <2>5. roleAfterLogin(g) \in Role /\ roleAfterLogin(g) # NONE
        /\ (roleAfterLogin(g) = "ADMIN" => users[g] = "ADMIN")
    BY <1>0, <2>3, RolesFit
  <2>6. /\ u \in LoginUser /\ u.user = g /\ u.client = found[c].clientType
    BY <2>3, <2>4, <2>5 DEF AttemptType, LoginUser
  <2>7. users'[g] # NONE /\ Admins' \subseteq Admins
    BY <1>0, <2>2, <2>3, <2>5 DEF StoreOK, Admins
  <2> HIDE DEF k, g, u
  <2>8. k = issued'[args'[c].code]
    BY <2>2 DEF k
  <2>9. LoginFits(c)'
    BY <2>1, <2>2, <2>3, <2>6, <2>7, <2>8 DEF LoginFits
  <2>10. ArgumentsFit(c)'
    BY <1>0, <2>1, <2>2 DEF Fits, ArgumentsFit, WithState
  <2>11. StateIsGone(c)'
    BY <1>0, <2>1, <2>2 DEF Fits, StateIsGone, PastDeletion, Exchanging
  <2>12. ReadsFit(c)'
    BY <1>n, <2>1, <2>2, <2>7, <2>9 DEF Fits, ReadsFit, Exchanging, Issued, Live
  <2> QED
    BY <1>n, <2>1, <2>2, <2>10, <2>11, <2>12 DEF Fits, Rightful, AnsweredAsAsked, Issued
<1>7. ASSUME CreateSession(c) PROVE Fits(c)'
  <2>1. /\ pc[c] = "create" /\ LoginFits(c)
        /\ UNCHANGED <<attempts, stored, issued, users, args, consumed, admins>>
    BY <1>0, <1>7 DEF CreateSession, Await, Fits, ReadsFit, LoggingIn, external, history
  <2>2. CASE Pending
    <3>1. pc'[c] = "done" /\ UNCHANGED sessions
      BY <1>0, <1>7, <2>2 DEF CreateSession, Answer, ProgressOK
    <3> QED
      BY <1>0, <1>n, <2>1, <3>1, RefusalFits
  <2>3. CASE ~Pending
    <3>1. /\ pc'[c] = "store" /\ found'[c] = found[c]
          /\ sessions'[c].user = found[c].user /\ sessions'[c].clientType = found[c].client
          /\ sessions'[c] \in Session
      <4>1. found[c] \in LoginUser
        BY <2>1 DEF LoginFits
      <4>2. sessions'[c] = [user |-> found[c].user, role |-> found[c].role,
                            clientType |-> found[c].client, stored |-> FALSE]
        BY <1>0, <1>7, <2>3 DEF CreateSession, StoreOK
      <4>3. pc'[c] = "store" /\ found'[c] = found[c]
        BY <1>0, <1>7, <2>3 DEF CreateSession, Goto, ProgressOK
      <4> QED
        BY <4>1, <4>2, <4>3 DEF LoginUser, Session
    <3>2. Issued(c)'
      BY <3>1, ConstantsAssumption DEF Issued
    <3>3. LoginFits(c)'
      BY <2>1, <3>1 DEF LoginFits
    <3>4. ArgumentsFit(c)'
      BY <1>0, <2>1, <3>1 DEF Fits, ArgumentsFit, LoggingIn, Exchanging, WithState
    <3>5. StateIsGone(c)'
      BY <1>0, <2>1, <3>1 DEF Fits, StateIsGone, PastDeletion, LoggingIn, Exchanging
    <3>6. ReadsFit(c)'
      BY <2>1, <3>1, <3>2, <3>3 DEF Fits, ReadsFit, Exchanging, Live, Admins
    <3>7. Rightful(c)'
      BY <2>1, <3>1, <1>0 DEF Fits, StateIsGone, LoggingIn, Rightful, LoginFits
    <3> QED
      BY <3>1, <3>4, <3>5, <3>6, <3>7 DEF Fits, AnsweredAsAsked
  <2> QED
    BY <2>2, <2>3
\* The end of a callback that has a session.
<1>s. ASSUME pc[c] = "store", pc'[c] = "done",
             sessions' = sessions \/ sessions' = [sessions EXCEPT ![c].stored = TRUE],
             UNCHANGED <<attempts, issued, users, args, consumed, admins>>, stored' \subseteq stored,
             \/ ~Delivered(c)' /\ c \in hit'
             \/ DeliveryFits(c, answer'[c])
      PROVE  Fits(c)'
  <2>1. /\ Issued(c) /\ LoginFits(c) /\ sessions[c].clientType = found[c].client
        /\ args[c].code = ANY \/ WithState(c)
    BY <1>0, <1>s DEF Fits, ReadsFit, ArgumentsFit, LoggingIn
  <2>2. /\ Issued(c)' /\ sessions'[c].user = sessions[c].user
        /\ sessions'[c].clientType = sessions[c].clientType
    <3>1. sessions[c] \in Session
      BY <1>0, <2>1 DEF Issued, StoreOK
    <3>2. sessions'[c] \in {sessions[c], [sessions[c] EXCEPT !.stored = TRUE]}
      BY <1>0, <1>s DEF StoreOK
    <3>3. /\ sessions'[c] \in Session /\ sessions'[c].user = sessions[c].user
          /\ sessions'[c].clientType = sessions[c].clientType
      BY <3>1, <3>2 DEF Session
    <3> QED
      BY <3>3, ConstantsAssumption DEF Issued
  <2>3. ArgumentsFit(c)'
    BY <1>0, <1>s, <2>1 DEF Fits, ArgumentsFit, LoggingIn, Exchanging, WithState
  <2>4. StateIsGone(c)'
    BY <1>0, <1>s DEF Fits, StateIsGone, PastDeletion, LoggingIn, Exchanging
  <2>5. ReadsFit(c)'
    BY <1>s DEF Fits, ReadsFit, LoggingIn, Exchanging, Live
  <2>6. Rightful(c)'
    BY <1>0, <1>s, <2>1, <2>2 DEF Fits, Rightful
  <2>7. AnsweredAsAsked(c)'
    <3>1. args[c].code # ANY => sessions'[c].clientType = attempts[args[c].state].clientType
      BY <2>1, <2>2 DEF LoginFits
    <3>2. CASE DeliveryFits(c, answer'[c])
      <4>1. Delivered(c)' <=> answer'[c].form \in {"cookies", "json", "redirect"}
        BY <3>2 DEF Delivered, DeliveryFits
      <4> QED
        BY <1>s, <3>1, <3>2, <4>1 DEF AnsweredAsAsked, DeliveryFits
    <3> QED
      BY <1>s, <3>2 DEF AnsweredAsAsked
  <2> QED
    BY <2>3, <2>4, <2>5, <2>6, <2>7 DEF Fits
<1>8. ASSUME StoreHash(c) PROVE Fits(c)'
  <2>1. /\ pc[c] = "store" /\ pc'[c] = "done" /\ answer'[c] = delivery(c)
        /\ sessions' = [sessions EXCEPT ![c].stored = TRUE]
        /\ UNCHANGED <<attempts, stored, issued, users, args, consumed, admins>>
    BY <1>0, <1>8 DEF StoreHash, Await, Answer, ProgressOK, external, history
  <2>2. DeliveryFits(c, delivery(c))
    BY <1>0, <2>1, DeliveriesFit DEF Fits, ArgumentsFit, LoggingIn
  <2> QED
    BY <1>s, <2>1, <2>2
<1>9. ASSUME CallFails(c) PROVE Fits(c)'
  <2>1. /\ pc[c] \notin {"idle", "done"} /\ pc'[c] = "done" /\ hit' = hit \cup {c}
        /\ \E n \in {401, 500} : answer'[c] = Refused(n)
        /\ stored' \subseteq stored
        /\ \/ sessions' = sessions
           \/ pc[c] = "store" /\ sessions' = [sessions EXCEPT ![c].stored = TRUE]
        /\ UNCHANGED <<attempts, issued, users, args, consumed, admins>>
    BY <1>0, <1>9 DEF CallFails, Answer, ProgressOK
  <2>2. ~Delivered(c)'
    BY <2>1, AnswersHaveTypes DEF Delivered
  <2>3. CASE pc[c] = "store"
    BY <1>s, <2>1, <2>2, <2>3
  <2>4. CASE pc[c] # "store"
    BY <1>0, <1>n, <2>1, <2>4, RefusalFits
  <2> QED
    BY <2>3, <2>4
<1> QED
  BY <1>1, <1>2, <1>3, <1>4, <1>5, <1>6, <1>7, <1>8, <1>9 DEF CallbackStep

-----------------------------------------------------------------------------
(* A callback that nobody disturbs. *)

\* A step that moves no callback.
LEMMA SoundStands ==
    ASSUME TypeOK, NEW c \in Callback, Fits(c), SoundFits(c), Grows, sound' \subseteq sound,
           UNCHANGED spent,
           \A d \in Callback : /\ pc'[d] = pc[d] /\ args'[d] = args[d] /\ answer'[d] = answer[d]
                               /\ sessions'[d] = sessions[d],
           c \in sound' /\ pc[c] = "get" /\ args[c].state \in stored => args[c].state \in stored'
    PROVE  SoundFits(c)'
<1> SUFFICES ASSUME c \in sound' PROVE SoundFits(c)'
  BY DEF SoundFits, SoundIsAlone, LogsIn
<1>1. SoundIsAlone(c) /\ LogsIn(c) /\ c \in sound /\ WithState(c) /\ pc[c] # "idle"
  BY DEF SoundFits, SoundIsAlone
<1>2. /\ attempts'[args[c].state] = attempts[args[c].state]
      /\ issued'[args[c].code] = issued[args[c].code]
  BY <1>1 DEF Fits, ArgumentsFit, Grows, WithState
<1>3. SoundIsAlone(c)'
  BY <1>1, <1>2 DEF SoundIsAlone, WithState, Live
<1>4. LogsIn(c)'
  BY <1>1, <1>2 DEF LogsIn, Delivered, Issued
<1> QED
  BY <1>3, <1>4 DEF SoundFits

LEMMA WorldKeepsSound ==
    ASSUME TypeOK, \A c \in Callback : Fits(c) /\ SoundFits(c), WorldStep
    PROVE  \A c \in Callback : SoundFits(c)'
<1> TAKE c \in Callback
<1>1. /\ Grows /\ UNCHANGED <<pc, args, answer, sessions, spent>>
  BY WorldLeavesCalls
<1>2. /\ sound' \subseteq sound
      /\ c \in sound' /\ pc[c] = "get" /\ args[c].state \in stored => args[c].state \in stored'
  BY DEF WorldStep, getGitHubAuthUrl, Expire, Authorize, Seed, history
<1> QED
  BY <1>1, <1>2, SoundStands

LEMMA CreationKeepsSound ==
    ASSUME TypeOK, \A c \in Callback : Fits(c) /\ SoundFits(c), NEW d \in Creation, CreationStep(d)
    PROVE  \A c \in Callback : SoundFits(c)'
<1> TAKE c \in Callback
<1>1. Grows /\ \A b \in Callback : Undisturbed(b)
  BY CreationLeavesCallbacks
<1>2. pc[d] \notin {"del", "exchange", "store"}
  BY DEF TypeOK, CreationLocation
<1>3. sound' \subseteq sound /\ UNCHANGED <<stored, spent>>
  BY <1>2 DEF CreationStep, create, findByGithubId, Insert, CallFails, external, history
<1> QED
  BY <1>1, <1>3, SoundStands DEF Undisturbed

\* A step of another callback: none is under way, and one that begins ends the quiet.
LEMMA OthersEndSound ==
    ASSUME TypeOK, NEW c \in Callback, NEW d \in Callback \ {c}, SoundFits(c), CallbackStep(d)
    PROVE  c \notin sound'
<1>1. CASE \E w \in Arguments : githubCallback(d, w)
  BY <1>1 DEF githubCallback
<1>2. CASE ~\E w \in Arguments : githubCallback(d, w)
  <2>1. Live(d)
    BY <1>2 DEF CallbackStep, FindAdmin, GetState, DeleteState, Exchange, findOrCreateByGithub,
       CreateSession, StoreHash, CallFails, Await, Live
  <2>2. sound' \subseteq sound
    BY <1>2 DEF CallbackStep, FindAdmin, GetState, DeleteState, Exchange, findOrCreateByGithub,
       CreateSession, StoreHash, CallFails, history
  <2> QED
    BY <2>1, <2>2 DEF SoundFits, SoundIsAlone
<1> QED
  BY <1>1, <1>2

\* Its own steps are never refused.
LEMMA OwnStepKeepsSound ==
    ASSUME TypeOK, TypeOK', NEW c \in Callback, \A d \in Callback : Fits(d), Fits(c)', SoundFits(c),
           Grows, \A d \in Callback \ {c} : Undisturbed(d), CallbackStep(c)
    PROVE  SoundFits(c)'
<1> SUFFICES ASSUME c \in sound' PROVE SoundFits(c)'
  BY DEF SoundFits, SoundIsAlone, LogsIn
<1>0. /\ StoreOK /\ ProgressOK /\ c \in Call /\ Fits(c)
      /\ pc[c] # "idle" => args[c] \in CallbackArgs
      /\ ANY \notin Code /\ NONE \notin Code /\ NONE \notin Attempt
  BY TypesInTwo, ConstantsAssumption DEF StoreOK, ProgressOK, Call
\* The others are as quiet afterwards.
<1>o. ASSUME \A d \in Callback \ {c} : ~Live(d) /\ (sessions[d] = NONE \/ sessions[d].stored)
      PROVE  \A d \in Callback \ {c} : ~Live(d)' /\ (sessions[d] = NONE \/ sessions[d].stored)'
  BY <1>o DEF Undisturbed, Live
<1>1. ASSUME NEW w \in Arguments, githubCallback(c, w) PROVE SoundFits(c)'
  <2>1. /\ w.state \in stored /\ w.code \in Code \ spent /\ issued[w.code][1] = w.state
        /\ \A d \in Callback : ~Live(d)
        /\ \A d \in Callback : sessions[d] = NONE \/ sessions[d].stored
    BY <1>1 DEF githubCallback
  <2>2. w.state \in Attempt /\ w.state # NONE /\ w.code \notin {ANY, NONE}
    BY <1>0, <2>1 DEF StoreOK
  <2>3. /\ pc'[c] = "get" /\ args'[c] = w /\ UNCHANGED <<stored, spent, issued>>
    BY <1>0, <1>1, <2>2 DEF githubCallback, Goto, ProgressOK, external
  <2>4. SoundIsAlone(c)'
    BY <1>o, <2>1, <2>2, <2>3 DEF SoundIsAlone, WithState
  <2>5. LogsIn(c)'
    BY <2>3 DEF LogsIn
  <2> QED
    BY <2>4, <2>5 DEF SoundFits
<1>2. ASSUME ~\E w \in Arguments : githubCallback(c, w) PROVE SoundFits(c)'
  <2>1. sound' \subseteq sound /\ ~CallFails(c) /\ UNCHANGED <<args, attempts, issued>>
    BY <1>2 DEF CallbackStep, FindAdmin, GetState, DeleteState, Exchange, findOrCreateByGithub,
       CreateSession, StoreHash, CallFails, external, history
  <2>2. /\ pc[c] # "idle" /\ WithState(c) /\ args[c].code # ANY
        /\ \A d \in Callback \ {c} : ~Live(d) /\ (sessions[d] = NONE \/ sessions[d].stored)
        /\ pc[c] = "get" => args[c].state \in stored
        /\ pc[c] \in {"get", "del", "exchange"} =>
             args[c].code \notin spent /\ issued[args[c].code][1] = args[c].state
    BY <1>0, <2>1 DEF SoundFits, SoundIsAlone, WithState
  \* What is left to show of each step.
  <2>3. ASSUME pc'[c] \notin {"idle", "get"},
               pc'[c] \in {"del", "exchange"} => pc[c] \in {"get", "del"} /\ UNCHANGED spent,
               pc'[c] = "done" => DeliveryFits(c, answer'[c]) /\ Issued(c)'
        PROVE  SoundFits(c)'
    <3>1. SoundIsAlone(c)'
      BY <1>o, <2>1, <2>2, <2>3 DEF SoundIsAlone, WithState
    <3>2. LogsIn(c)'
      BY <2>1, <2>2, <2>3 DEF LogsIn, DeliveryFits, Delivered
    <3> QED
      BY <3>1, <3>2 DEF SoundFits
  <2>4. ASSUME FindAdmin(c) PROVE FALSE
    BY <1>0, <2>2, <2>4 DEF FindAdmin, Await, Fits, ArgumentsFit
  <2>5. ASSUME GetState(c) PROVE SoundFits(c)'
    <3>1. pc[c] = "get" /\ pc'[c] = "del" /\ UNCHANGED spent
      BY <1>0, <2>2, <2>5 DEF GetState, Await, Goto, ProgressOK, external
    <3> QED
      BY <2>3, <3>1
  <2>6. ASSUME DeleteState(c) PROVE SoundFits(c)'
    <3>1. pc[c] = "del" /\ pc'[c] = "exchange" /\ UNCHANGED spent
      BY <1>0, <2>6 DEF DeleteState, Await, Goto, ProgressOK, external
    <3> QED
      BY <2>3, <3>1
  <2>7. ASSUME Exchange(c) PROVE SoundFits(c)'
    <3>1. Accepts(args[c].code, code_verifier(c))
      BY <2>2, <2>7 DEF Exchange, Await, Accepts, code_verifier
    <3>2. pc'[c] = "upsert"
      BY <1>0, <2>7, <3>1 DEF Exchange, Goto, ProgressOK
    <3> QED
      BY <2>3, <3>2
  <2>8. ASSUME findOrCreateByGithub(c) PROVE SoundFits(c)'
    <3>1. pc'[c] = "create"
      BY <1>0, <2>8 DEF findOrCreateByGithub, Goto, ProgressOK
    <3> QED
      BY <2>3, <3>1
  <2>9. ASSUME CreateSession(c) PROVE SoundFits(c)'
    <3>1. pc[c] = "create" /\ sessions[c] = NONE
      BY <1>0, <2>9 DEF CreateSession, Await, Fits, ReadsFit, Issued
    <3>2. ~Pending
      BY <2>2, <3>1 DEF Pending
    <3>3. pc'[c] = "store"
      BY <1>0, <2>9, <3>2 DEF CreateSession, Goto, ProgressOK
    <3> QED
      BY <2>3, <3>3
  <2>10. ASSUME StoreHash(c) PROVE SoundFits(c)'
    <3>1. pc[c] = "store" /\ pc'[c] = "done" /\ answer'[c] = delivery(c)
          /\ sessions' = [sessions EXCEPT ![c].stored = TRUE]
      BY <1>0, <2>10 DEF StoreHash, Await, Answer, ProgressOK
    <3>2. DeliveryFits(c, delivery(c))
      BY <1>0, <3>1, DeliveriesFit DEF Fits, ArgumentsFit, LoggingIn
    <3>3. Issued(c)'
      <4>1. sessions[c] \in Session /\ sessions'[c] = [sessions[c] EXCEPT !.stored = TRUE]
        BY <1>0, <3>1 DEF StoreOK, Fits, ReadsFit, Issued
      <4>2. sessions'[c] \in Session
        BY <4>1 DEF Session
      <4> QED
        BY <4>2, ConstantsAssumption DEF Issued
    <3> QED
      BY <2>3, <3>1, <3>2, <3>3
  <2> QED
    BY <1>2, <2>1, <2>4, <2>5, <2>6, <2>7, <2>8, <2>9, <2>10 DEF CallbackStep
<1> QED
  BY <1>1, <1>2

-----------------------------------------------------------------------------
(* Creations. *)

\* CreationsAgree, creation by creation.
Agrees(d) ==
    pc[d] = "done" =>
        /\ d \notin inserted /\ d \notin hit => users[args[d].githubId] # NONE
        /\ \A e \in inserted : d \in inserted /\ args[d].githubId = args[e].githubId => d = e

CreationHolds(d) == CreationFits(d) /\ Agrees(d)

\* A creation stands still, or a failure ends it.
LEMMA CreationStands ==
    ASSUME TypeOK, NEW d \in Creation, \A e \in Creation : CreationHolds(e), Grows,
           inserted' = inserted,
           \A e \in Creation : pc[e] # "idle" => args'[e] = args[e],
           pc'[d] = pc[d] \/ (pc'[d] = "done" /\ pc[d] \notin {"idle", "done"} /\ d \in hit')
    PROVE  CreationHolds(d)'
<1>0. /\ pc[d] # "idle" => args[d] \in CreationArgs
      /\ inserted \subseteq Creation
  BY DEF TypeOK
<1>1. \A e \in inserted : pc[e] # "idle" /\ args'[e] = args[e]
  BY <1>0 DEF CreationHolds, CreationFits
<1>2. pc[d] # "idle" => /\ args'[d] = args[d]
                        /\ users[args[d].githubId] # NONE => users'[args[d].githubId] # NONE
  BY <1>0 DEF CreationArgs, Grows
<1>3. CreationFits(d)'
  BY <1>1, <1>2 DEF CreationHolds, CreationFits
<1>4. Agrees(d)'
  <2>1. CASE pc'[d] = pc[d]
    <3> SUFFICES ASSUME pc[d] = "done" PROVE Agrees(d)'
      BY <2>1 DEF Agrees
    <3>1. Agrees(d) /\ hit \subseteq hit' /\ args'[d] = args[d]
      BY <1>2 DEF CreationHolds, Grows
    <3>2. d \notin inserted' /\ d \notin hit' => users'[args'[d].githubId] # NONE
      BY <1>2, <3>1 DEF Agrees
    <3>3. \A e \in inserted' : d \in inserted' /\ args'[d].githubId = args'[e].githubId => d = e
      BY <1>1, <3>1 DEF Agrees
    <3> QED
      BY <3>2, <3>3 DEF Agrees
  <2>2. CASE pc[d] # "done" /\ d \in hit'
    BY <2>2 DEF CreationHolds, CreationFits, Agrees
  <2> QED
    BY <2>1, <2>2
<1> QED
  BY <1>3, <1>4 DEF CreationHolds

LEMMA CreationsKeep ==
    ASSUME TypeOK, \A e \in Creation : CreationHolds(e), NEW d \in Creation, CreationStep(d), Grows
    PROVE  \A e \in Creation : CreationHolds(e)'
<1>0. /\ pc \in [Call -> Location] /\ args \in [Call -> CallbackArgs \cup CreationArgs \cup {NONE}]
      /\ answer \in [Call -> AnswerType \cup {NONE}] /\ found \in [Call -> FoundType]
      /\ \A e \in Creation : e \in Call /\ (pc[e] # "idle" => args[e] \in CreationArgs)
      /\ users \in [GithubId -> Role \cup {NONE}] /\ inserted \subseteq Creation
      /\ pc[d] \in CreationLocation
  BY DEF TypeOK, Call, Location, FoundType
<1>1. ASSUME NEW g \in GithubId, NEW role \in Role, create(d, g, role)
      PROVE  \A e \in Creation : CreationHolds(e)'
  <2>1. /\ pc[d] = "idle" /\ pc'[d] = "find" /\ inserted' = inserted
        /\ \A e \in Creation \ {d} : pc'[e] = pc[e] /\ args'[e] = args[e]
    BY <1>0, <1>1 DEF create, Goto, history
  <2>2. CreationHolds(d)'
    BY <2>1 DEF CreationHolds, CreationFits, Agrees
  <2>3. ASSUME NEW e \in Creation \ {d} PROVE CreationHolds(e)'
    BY <2>1, CreationStands
  <2> QED
    BY <2>2, <2>3
<1>2. ASSUME findByGithubId(d) PROVE \A e \in Creation : CreationHolds(e)'
  <2>1. /\ pc[d] = "find" /\ inserted' = inserted /\ UNCHANGED <<users, args>>
        /\ \A e \in Creation \ {d} : pc'[e] = pc[e]
        /\ \/ pc'[d] = "insert"
           \/ pc'[d] = "done" /\ users[args[d].githubId] # NONE
    BY <1>0, <1>2 DEF findByGithubId, Await, Goto, Answer, history
  <2>2. CreationHolds(d)'
    BY <2>1 DEF CreationHolds, CreationFits, Agrees
  <2>3. ASSUME NEW e \in Creation \ {d} PROVE CreationHolds(e)'
    BY <2>1, CreationStands
  <2> QED
    BY <2>2, <2>3
<1>3. ASSUME Insert(d) PROVE \A e \in Creation : CreationHolds(e)'
  <2>1. /\ pc[d] = "insert" /\ UNCHANGED <<args, hit>> /\ pc'[d] = "done"
        /\ \A e \in Creation \ {d} : pc'[e] = pc[e]
    BY <1>0, <1>3 DEF Insert, Await, Answer
  <2>2. CASE users[args[d].githubId] # NONE
    <3>1. UNCHANGED <<users, inserted>>
      BY <1>3, <2>2 DEF Insert
    <3>2. CreationHolds(d)'
      BY <2>1, <2>2, <3>1 DEF CreationHolds, CreationFits, Agrees
    <3>3. ASSUME NEW e \in Creation \ {d} PROVE CreationHolds(e)'
      BY <2>1, <3>1, CreationStands
    <3> QED
      BY <3>2, <3>3
  <2>3. CASE users[args[d].githubId] = NONE
    <3> DEFINE g == args[d].githubId
    <3>1. /\ users' = [users EXCEPT ![g] = args[d].role] /\ inserted' = inserted \cup {d}
      BY <1>3, <2>3 DEF Insert
    <3>2. g \in GithubId /\ args[d].role # NONE
      BY <1>0, <2>1, ConstantsAssumption DEF CreationArgs
    <3>3. users'[g] # NONE /\ \A h \in GithubId : users[h] # NONE => users'[h] # NONE
      BY <1>0, <3>1, <3>2
    \* Nobody has inserted a row of this account before.
    <3>4. \A e \in inserted : args[e].githubId # g /\ pc[e] = "done" /\ users[args[e].githubId] # NONE
      BY <1>0, <2>3 DEF CreationHolds, CreationFits
    <3> HIDE DEF g
    <3>g. g = args[d].githubId
      BY DEF g
    <3>5. CreationHolds(d)'
      BY <2>1, <3>1, <3>3, <3>4, <3>g DEF CreationHolds, CreationFits, Agrees
    <3>6. ASSUME NEW e \in Creation \ {d} PROVE CreationHolds(e)'
      <4>1. CreationFits(e)'
        BY <1>0, <2>1, <3>1, <3>3, <3>6 DEF CreationHolds, CreationFits, CreationArgs
      <4>2. Agrees(e)'
        BY <1>0, <2>1, <3>1, <3>3, <3>4, <3>6, <3>g DEF CreationHolds, CreationFits, Agrees, CreationArgs
      <4> QED
        BY <4>1, <4>2 DEF CreationHolds
    <3> QED
      BY <3>5, <3>6
  <2> QED
    BY <2>2, <2>3
<1>4. ASSUME CallFails(d) PROVE \A e \in Creation : CreationHolds(e)'
  <2>1. /\ pc[d] \notin {"idle", "done"} /\ pc'[d] = "done" /\ d \in hit'
        /\ inserted' = inserted /\ args' = args
        /\ \A e \in Creation \ {d} : pc'[e] = pc[e]
    BY <1>0, <1>4 DEF CallFails, Answer
  <2> QED
    BY <2>1, CreationStands
<1> QED
  BY <1>1, <1>2, <1>3, <1>4 DEF CreationStep

LEMMA CallbackKeepsCreations ==
    ASSUME TypeOK, \A e \in Creation : CreationHolds(e), NEW c \in Callback, CallbackStep(c), Grows
    PROVE  \A e \in Creation : CreationHolds(e)'
<1>0. ProgressOK /\ \A e \in Creation : e # c /\ e \in Call
  BY TypesInTwo, ConstantsAssumption DEF Call
<1>1. inserted' = inserted
  BY DEF CallbackStep, githubCallback, FindAdmin, GetState, DeleteState, Exchange,
     findOrCreateByGithub, CreateSession, StoreHash, CallFails, history
<1>2. \/ args' = args
      \/ \E w : args' = [args EXCEPT ![c] = w]
  BY DEF CallbackStep, githubCallback, FindAdmin, GetState, DeleteState, Exchange,
     findOrCreateByGithub, CreateSession, StoreHash, CallFails
<1>3. \E l : pc' = [pc EXCEPT ![c] = l]
  BY DEF CallbackStep, githubCallback, FindAdmin, GetState, DeleteState, Exchange,
     findOrCreateByGithub, CreateSession, StoreHash, CallFails, Goto, Answer
<1>4. \A e \in Creation : pc'[e] = pc[e] /\ args'[e] = args[e]
  BY <1>0, <1>2, <1>3 DEF ProgressOK
<1> QED
  BY <1>1, <1>4, CreationStands

-----------------------------------------------------------------------------
(* The invariant. *)

LEMMA CrashKeepsAll ==
    ASSUME TypeOK, TypeOK', \A c \in Callback : Fits(c) /\ SoundFits(c),
           \A e \in Creation : CreationHolds(e), Crash
    PROVE  /\ \A c \in Callback : Fits(c)' /\ SoundFits(c)'
           /\ \A e \in Creation : CreationHolds(e)'
<1>0. /\ pc' = [c \in Call |-> IF Live(c) THEN "done" ELSE pc[c]]
      /\ answer' = [c \in Call |-> IF Live(c) THEN LOST ELSE answer[c]]
      /\ hit' = hit \cup {c \in Call : Live(c)} /\ sound' = sound \ {c \in Call : Live(c)}
      /\ UNCHANGED <<attempts, stored, issued, spent, users, sessions, args, inserted,
                     consumed, admins, found>>
      /\ \A c \in Callback : c \in Call
      /\ \A d \in Creation : d \in Call
  BY DEF Crash, external, Call
<1>g. Grows
  BY <1>0 DEF Grows
<1>1. ASSUME NEW c \in Callback, ~Live(c) PROVE Undisturbed(c)
  BY <1>0, <1>1 DEF Undisturbed
<1>2. ASSUME NEW c \in Callback PROVE Fits(c)'
  <2>1. CASE ~Live(c)
    BY <1>1, <1>g, <2>1, UndisturbedFits
  <2>2. CASE Live(c)
    <3>1. pc'[c] = "done" /\ answer'[c] = LOST /\ c \in hit' /\ pc[c] # "idle" /\ ~Delivered(c)'
      BY <1>0, <2>2, AnswersHaveTypes DEF Live, Delivered
    <3>2. ~Live(c)' /\ ~Exchanging(c)' /\ ~LoggingIn(c)'
      BY <3>1 DEF Live, Exchanging, LoggingIn
    <3>3. (Issued(c)' <=> Issued(c)) /\ (PastDeletion(c)' => PastDeletion(c))
      BY <1>0, <3>1 DEF Issued, PastDeletion
    <3>4. ArgumentsFit(c)'
      BY <1>0, <3>1, <3>2, <3>3 DEF Fits, ArgumentsFit, WithState
    <3>5. ReadsFit(c)'
      BY <3>1, <3>2, <3>3 DEF ReadsFit
    <3>6. StateIsGone(c)'
      BY <1>0, <3>1, <3>2, <3>3 DEF Fits, StateIsGone
    <3>7. Rightful(c)' /\ AnsweredAsAsked(c)'
      BY <1>0, <3>1, <3>3 DEF Fits, Rightful, AnsweredAsAsked
    <3> QED
      BY <3>4, <3>5, <3>6, <3>7 DEF Fits
  <2> QED
    BY <2>1, <2>2
<1>3. ASSUME NEW c \in Callback PROVE SoundFits(c)'
  <2>1. ASSUME c \in sound' PROVE \A d \in Callback : ~Live(d)
    BY <1>0, <2>1 DEF SoundFits, SoundIsAlone
  <2>2. CASE c \notin sound'
    BY <2>2 DEF SoundFits, SoundIsAlone, LogsIn
  <2>3. CASE c \in sound'
    <3>1. \A d \in Callback : /\ pc'[d] = pc[d] /\ args'[d] = args[d] /\ answer'[d] = answer[d]
                              /\ sessions'[d] = sessions[d]
      BY <1>0, <2>1, <2>3
    <3> QED
      BY <1>0, <1>g, <3>1, SoundStands
  <2> QED
    BY <2>2, <2>3
<1>4. ASSUME NEW d \in Creation PROVE CreationHolds(d)'
  <2>1. pc'[d] = pc[d] \/ (pc'[d] = "done" /\ pc[d] \notin {"idle", "done"} /\ d \in hit')
    BY <1>0 DEF Live
  <2> QED
    BY <1>0, <1>g, <2>1, CreationStands
<1> QED
  BY <1>2, <1>3, <1>4

LEMMA CreationsByCreation ==
    /\ TypeOK => ((\A d \in Creation : CreationFits(d)) /\ CreationsAgree <=>
                  \A d \in Creation : CreationHolds(d))
    /\ TypeOK' => ((\A d \in Creation : CreationFits(d)') /\ CreationsAgree' <=>
                   \A d \in Creation : CreationHolds(d)')
BY DEF CreationHolds, CreationsAgree, Agrees

LEMMA NextInv == Inv /\ [Next]_vars => Inv'
<1> SUFFICES ASSUME Inv, [Next]_vars PROVE Inv'
  OBVIOUS
<1>0. /\ TypeOK /\ \A c \in Callback : Fits(c) /\ SoundFits(c)
      /\ \A d \in Creation : CreationHolds(d) /\ CreationFits(d)
  BY InvByCallback, CreationsByCreation DEF CreationHolds
<1>1. ASSUME TypeOK', \A c \in Callback : Fits(c)' /\ SoundFits(c)',
             \A d \in Creation : CreationHolds(d)'
      PROVE  Inv'
  BY <1>1, InvByCallback, CreationsByCreation
<1>2. CASE UNCHANGED vars
  <2>1. UNCHANGED <<attempts, stored, issued, spent, users, sessions, pc, args, found, answer,
                    seeds, faults, hit, consumed, sound, inserted, admins>>
    BY <1>2 DEF vars, external, progress, bounds, history
  <2>2. TypeOK'
    BY <1>0, <2>1 DEF TypeOK
  <2>3. Grows /\ \A c \in Callback : Undisturbed(c)
    BY <1>0, <2>1 DEF Grows, Undisturbed, Fits, ReadsFit, Admins
  <2>4. \A c \in Callback : Fits(c)'
    BY <1>0, <2>2, <2>3, UndisturbedFits
  <2>5. \A c \in Callback : SoundFits(c)'
    BY <1>0, <2>1, <2>3, SoundStands
  <2>6. \A d \in Creation : CreationHolds(d)'
    BY <1>0, <2>1, <2>3, CreationStands
  <2> QED
    BY <1>1, <2>2, <2>4, <2>5, <2>6
<1>3. ASSUME NEW c \in Callback, CallbackStep(c) PROVE Inv'
  <2>1. ArgumentsFit(c) /\ ReadsFit(c)
    BY <1>0 DEF Fits
  <2>2. TypeOK'
    BY <1>0, <1>3, <2>1, CallbackKeepsTypes
  <2>3. Grows /\ \A d \in Callback \ {c} : Undisturbed(d)
    BY <1>0, <1>3, CallbackLeavesOthers
  <2>4. Fits(c)'
    BY <1>0, <1>3, <2>2, <2>3, CallbackFitsItself
  <2>5. \A d \in Callback \ {c} : Fits(d)'
    BY <1>0, <2>2, <2>3, UndisturbedFits
  <2>6. SoundFits(c)'
    BY <1>0, <1>3, <2>2, <2>3, <2>4, OwnStepKeepsSound
  <2>7. ASSUME NEW d \in Callback \ {c} PROVE SoundFits(d)'
    <3>1. d \notin sound'
      BY <1>0, <1>3, OthersEndSound
    <3> QED
      BY <3>1 DEF SoundFits, SoundIsAlone, LogsIn
  <2>8. \A d \in Creation : CreationHolds(d)'
    BY <1>0, <1>3, <2>3, CallbackKeepsCreations
  <2> QED
    BY <1>1, <2>2, <2>4, <2>5, <2>6, <2>7, <2>8
<1>4. ASSUME NEW d \in Creation, CreationStep(d) PROVE Inv'
  <2>1. TypeOK'
    BY <1>0, <1>4, CreationKeepsTypes
  <2>2. Grows /\ \A c \in Callback : Undisturbed(c)
    BY <1>0, <1>4, CreationLeavesCallbacks
  <2>3. \A c \in Callback : Fits(c)'
    BY <1>0, <2>1, <2>2, UndisturbedFits
  <2>4. \A c \in Callback : SoundFits(c)'
    BY <1>0, <1>4, CreationKeepsSound
  <2>5. \A e \in Creation : CreationHolds(e)'
    BY <1>0, <1>4, <2>2, CreationsKeep
  <2> QED
    BY <1>1, <2>1, <2>3, <2>4, <2>5
<1>5. CASE WorldStep
  <2>1. TypeOK'
    BY <1>0, <1>5, WorldKeepsTypes
  <2>2. /\ Grows /\ \A c \in Callback : Undisturbed(c)
        /\ UNCHANGED <<pc, args, inserted>>
    BY <1>0, <1>5, WorldLeavesCalls
  <2>3. \A c \in Callback : Fits(c)'
    BY <1>0, <2>1, <2>2, UndisturbedFits
  <2>4. \A c \in Callback : SoundFits(c)'
    BY <1>0, <1>5, WorldKeepsSound
  <2>5. \A e \in Creation : CreationHolds(e)'
    BY <1>0, <2>2, CreationStands
  <2> QED
    BY <1>1, <2>1, <2>3, <2>4, <2>5
<1>6. CASE Crash
  <2>1. TypeOK'
    BY <1>0, <1>6, CrashKeepsTypes
  <2> QED
    BY <1>0, <1>1, <1>6, <2>1, CrashKeepsAll
<1> QED
  BY <1>2, <1>3, <1>4, <1>5, <1>6, NextIsAStep

LEMMA InitInv == Init => Inv
<1> SUFFICES ASSUME Init PROVE Inv
  OBVIOUS
<1>1. TypeOK
  BY InitTypeOK
<1>2. /\ \A c \in Callback : pc[c] = "idle" /\ sessions[c] = NONE
      /\ \A d \in Creation : pc[d] = "idle"
      /\ consumed = {} /\ sound = {} /\ inserted = {}
  BY DEF Init, Call
<1>3. \A c \in Callback : CallbackFits(c)
  BY <1>2 DEF CallbackFits, ArgumentsFit, ReadsFit, StateIsGone, SoundIsAlone, PastDeletion,
     Exchanging, LoggingIn, Issued, Live
<1>4. /\ SessionIsForItsAttempt /\ DeliveredAsAsked /\ FirstCallbackLogsIn /\ CreationsAgree
      /\ \A d \in Creation : CreationFits(d)
  BY <1>2 DEF SessionIsForItsAttempt, DeliveredAsAsked, FirstCallbackLogsIn, CreationsAgree,
     CreationFits, Issued
<1> QED
  BY <1>1, <1>3, <1>4 DEF Inv

\* The only steps that change the role of a row that is there are the seed's.
LEMMA RolesChangeBySeed ==
    ASSUME TypeOK, Inv, [Next]_vars, NEW g \in GithubId, users[g] # NONE, users'[g] # users[g]
    PROVE  seeds' > seeds
<1>0. StoreOK /\ \A c \in Callback : ArgumentsFit(c)
  BY TypesInTwo DEF Inv, CallbackFits
<1>1. CASE UNCHANGED vars
  BY <1>1 DEF vars
<1>2. ASSUME NEW c \in Callback, CallbackStep(c) PROVE FALSE
  <2>1. CASE findOrCreateByGithub(c)
    <3> DEFINE h == issued[args[c].code][2]
    <3>1. pc[c] = "upsert" /\ users' = [users EXCEPT ![h] = roleAfterLogin(h)]
      BY <2>1 DEF findOrCreateByGithub, Await
    <3>2. h \in GithubId
      BY <1>0, <3>1 DEF StoreOK, ArgumentsFit, Exchanging, WithState
    <3>3. users[h] # NONE => roleAfterLogin(h) = users[h]
      BY <1>0, <3>2, RolesFit
    <3> HIDE DEF h
    <3> QED
      BY <1>0, <3>1, <3>2, <3>3 DEF StoreOK
  <2>2. CASE ~findOrCreateByGithub(c)
    BY <1>2, <2>2 DEF CallbackStep, githubCallback, FindAdmin, GetState, DeleteState, Exchange,
       CreateSession, StoreHash, CallFails
  <2> QED
    BY <2>1, <2>2
<1>3. ASSUME NEW d \in Creation, CreationStep(d) PROVE FALSE
  <2>1. CASE Insert(d)
    BY <1>0, <2>1 DEF Insert, StoreOK
  <2>2. CASE ~Insert(d)
    BY <1>3, <2>2 DEF CreationStep, create, findByGithubId, CallFails
  <2> QED
    BY <2>1, <2>2
<1>4. CASE WorldStep
  <2>1. \E h \in GithubId, role \in Role : Seed(h, role)
    BY <1>4 DEF WorldStep, getGitHubAuthUrl, Expire, Authorize
  <2> QED
    BY <1>0, <2>1 DEF Seed, StoreOK
<1>5. CASE Crash
  BY <1>5 DEF Crash
<1> QED
  BY <1>1, <1>2, <1>3, <1>4, <1>5, NextIsAStep

-----------------------------------------------------------------------------
(* Theorems. *)

\* The invariant that ties what a callback carries to what it has read.
THEOREM Invariance == Spec => []Inv
BY InitInv, NextInv, PTL DEF Spec

\* Every variable keeps its type, and the user of a session has a row.
THEOREM TypeCorrect == Spec => []TypeOK
<1>1. Inv => TypeOK
  BY DEF Inv
<1> QED
  BY <1>1, Invariance, PTL

\* githubCallback: a session belongs to the account that agreed to the very attempt
\* whose state the callback carries, or, for the test code, to an ADMIN; and the
\* state was there when the callback arrived.
THEOREM SessionsAreForTheirAttempts == Spec => []SessionIsForItsAttempt
<1>1. Inv => SessionIsForItsAttempt
  BY DEF Inv
<1> QED
  BY <1>1, Invariance, PTL

\* The end of githubCallback: who asked for the login is who is answered, and a
\* session nobody received has a fault or a malformed redirect_uri behind it.
THEOREM DeliveriesAreAsAsked == Spec => []DeliveredAsAsked
<1>1. Inv => DeliveredAsAsked
  BY DEF Inv
<1> QED
  BY <1>1, Invariance, PTL

\* An undisturbed callback with a fresh state and its code is never refused.
THEOREM FirstCallbacksLogIn == Spec => []FirstCallbackLogsIn
<1>1. Inv => FirstCallbackLogsIn
  BY DEF Inv
<1> QED
  BY <1>1, Invariance, PTL

\* UserService.create: of the creations of one account at most one inserts, and an
\* undisturbed one that does not leaves a row that is there.
THEOREM CreationsAlwaysAgree == Spec => []CreationsAgree
<1>1. Inv => CreationsAgree
  BY DEF Inv
<1> QED
  BY <1>1, Invariance, PTL

\* findOrCreateByGithub and create: nothing but the seed changes the role of a row.
THEOREM RolesSurvive == Spec => RoleSurvives
<1>1. TypeOK /\ Inv /\ [Next]_vars =>
        [\A g \in GithubId : users[g] # NONE /\ users'[g] # users[g] => seeds' > seeds]_vars
  BY RolesChangeBySeed
<1> QED
  BY <1>1, TypeCorrect, Invariance, PTL DEF Spec, RoleSurvives

===============================================================================
