--------------------------- MODULE RateLimiterProofs ---------------------------
(***************************************************************************)
(* The sliding window of RateLimiter, for any number of requests, clients  *)
(* and paths, any limits and any clock.  The argument: a request admitted  *)
(* in the window of the request r being checked cannot have left the set   *)
(* of their key - neither by zremrangebyscore of a request with a later    *)
(* stamp, nor with the key - so zcard counted it.                          *)
(***************************************************************************)
EXTENDS RateLimiter, FiniteSetTheorems, TLAPS

\* The set a MULTI leaves behind is finite, holds the request itself, and
\* otherwise only live members of the key.
LEMMA CountedFacts ==
    ASSUME TypeOK, MembersAreChecked, NEW r \in Request
    PROVE  /\ IsFiniteSet(Counted(r)) /\ r \in Counted(r)
           /\ Counted(r) \subseteq members[keyOf(r)] \cup {r}
           /\ Cardinality(Counted(r)) \in Nat
<1>1. keyOf(r) \in Key
  BY DEF TypeOK, keyOf, Key
<1>2. IsFiniteSet(members[keyOf(r)] \cup {r})
  <2>1. IsFiniteSet(members[keyOf(r)])
    BY <1>1 DEF MembersAreChecked
  <2> QED
    BY <2>1, FS_AddElement
<1>3. Counted(r) \subseteq members[keyOf(r)] \cup {r}
  BY DEF Counted, Live
<1>4. r \in Counted(r)
  BY ConstantsAssumption DEF Counted, TypeOK
<1>5. IsFiniteSet(Counted(r))
  BY <1>2, <1>3, FS_Subset
<1> QED
  BY <1>3, <1>4, <1>5, FS_CardinalityType

-----------------------------------------------------------------------------
(* The type invariant. *)

LEMMA TypeInit == Init => TypeOK
  BY ConstantsAssumption DEF Init, TypeOK, Ran

LEMMA TypeNext == TypeOK /\ [Next]_vars => TypeOK'
<1> SUFFICES ASSUME TypeOK, [Next]_vars PROVE TypeOK'
  OBVIOUS
<1> USE ConstantsAssumption
<1>1. ASSUME NEW r \in Request, Receive(r) PROVE TypeOK'
  BY <1>1 DEF TypeOK, Receive, Ran
<1>2. ASSUME NEW r \in Request, Check(r) \/ ReplyLost(r) PROVE TypeOK'
  <2>1. keyOf(r) \in Key
    BY DEF TypeOK, keyOf, Key
  <2>2. Counted(r) \in SUBSET Request
    BY <2>1 DEF TypeOK, Counted, Live
  <2>3. members' \in [Key -> SUBSET Request]
    BY <1>2, <2>1, <2>2 DEF TypeOK, Check, ReplyLost, Transact, Ran
  <2>4. expireAt' \in [Key -> Nat]
    BY <1>2, <2>1 DEF TypeOK, Check, ReplyLost, Transact, Ran
  <2>5. pc' \in [Request -> {"idle", "stamped", "failed"} \cup Ran]
    BY <1>2 DEF TypeOK, Check, ReplyLost, Transact, Ran
  <2> QED
    BY <1>2, <2>3, <2>4, <2>5 DEF TypeOK, Check, ReplyLost, Transact, Ran
<1>3. ASSUME NEW r \in Request, CheckFails(r) PROVE TypeOK'
  BY <1>3 DEF TypeOK, CheckFails, Ran
<1>4. ASSUME Tick PROVE TypeOK'
  BY <1>4 DEF TypeOK, Tick
<1>5. ASSUME UNCHANGED vars PROVE TypeOK'
  BY <1>5 DEF TypeOK, vars
<1> QED
  BY <1>1, <1>2, <1>3, <1>4, <1>5 DEF Next

\* Every variable keeps its type: in particular the sets hold requests of the
\* model only and no clock runs past its bound.
THEOREM TypeCorrect == Spec => []TypeOK
<1> QED
  BY TypeInit, TypeNext, PTL DEF Spec

-----------------------------------------------------------------------------
(* The parts of the invariant, step by step. *)

LEMMA StampsNext ==
    TypeOK /\ StampsAreRecent /\ [Next]_vars => StampsAreRecent'
<1> SUFFICES ASSUME TypeOK, StampsAreRecent, [Next]_vars PROVE StampsAreRecent'
  OBVIOUS
<1> USE ConstantsAssumption DEF TypeOK, StampsAreRecent, Ran
<1>1. ASSUME NEW r \in Request, Receive(r) PROVE StampsAreRecent'
  BY <1>1 DEF Receive
<1>2. ASSUME NEW r \in Request, Check(r) \/ ReplyLost(r) PROVE StampsAreRecent'
  <2>1. /\ now' = now /\ stamp' = stamp /\ pc[r] = "stamped"
        /\ pc'[r] \in Ran
        /\ \A q \in Request \ {r} : pc'[q] = pc[q]
    BY <1>2 DEF Check, ReplyLost, Transact, Ran
  <2> QED
    BY <2>1
<1>3. ASSUME NEW r \in Request, CheckFails(r) PROVE StampsAreRecent'
  BY <1>3 DEF CheckFails
<1>4. ASSUME Tick PROVE StampsAreRecent'
  BY <1>4 DEF Tick
<1>5. ASSUME UNCHANGED vars PROVE StampsAreRecent'
  BY <1>5 DEF vars
<1> QED
  BY <1>1, <1>2, <1>3, <1>4, <1>5 DEF Next

LEMMA MembersNext ==
    TypeOK /\ MembersAreChecked /\ [Next]_vars => MembersAreChecked'
<1> SUFFICES ASSUME TypeOK, MembersAreChecked, [Next]_vars PROVE MembersAreChecked'
  OBVIOUS
<1> USE DEF TypeOK, MembersAreChecked, keyOf, Ran
<1>1. ASSUME NEW r \in Request, Receive(r) PROVE MembersAreChecked'
  BY <1>1 DEF Receive
<1>2. ASSUME NEW r \in Request, Check(r) \/ ReplyLost(r) PROVE MembersAreChecked'
  <2>1. /\ client' = client /\ path' = path
        /\ pc'[r] \in Ran
        /\ \A q \in Request \ {r} : pc'[q] = pc[q]
        /\ \A k \in Key : members'[k] = IF k = keyOf(r) THEN Counted(r) ELSE members[k]
    BY <1>2 DEF Check, ReplyLost, Transact, Ran, Key
  <2>2. /\ IsFiniteSet(Counted(r))
        /\ Counted(r) \subseteq members[keyOf(r)] \cup {r}
    BY CountedFacts
  <2>3. ASSUME NEW k \in Key, NEW q \in members'[k]
        PROVE  pc'[q] \in Ran /\ keyOf(q)' = k
    <3>1. (q = r /\ k = keyOf(r)) \/ q \in members[k]
      BY <2>1, <2>2
    <3> QED
      BY <2>1, <3>1
  <2>4. ASSUME NEW k \in Key PROVE IsFiniteSet(members'[k])
    BY <2>1, <2>2
  <2> QED
    BY <2>3, <2>4
<1>3. ASSUME NEW r \in Request, CheckFails(r) PROVE MembersAreChecked'
  BY <1>3 DEF CheckFails
<1>4. ASSUME Tick PROVE MembersAreChecked'
  BY <1>4 DEF Tick
<1>5. ASSUME UNCHANGED vars PROVE MembersAreChecked'
  BY <1>5 DEF vars
<1> QED
  BY <1>1, <1>2, <1>3, <1>4, <1>5 DEF Next

LEMMA GoneIsOldNext ==
    /\ TypeOK /\ GoneIsOld /\ StampsAreRecent /\ MembersAreChecked
    /\ [Next]_vars
    => GoneIsOld'
<1> SUFFICES ASSUME TypeOK, GoneIsOld, StampsAreRecent, MembersAreChecked, [Next]_vars
             PROVE  GoneIsOld'
  OBVIOUS
<1> USE ConstantsAssumption DEF TypeOK, keyOf, Ran
<1>1. ASSUME NEW r \in Request, Receive(r) PROVE GoneIsOld'
  BY <1>1 DEF GoneIsOld, Receive
<1>2. ASSUME NEW r \in Request, Check(r) \/ ReplyLost(r) PROVE GoneIsOld'
  <2>1. /\ client' = client /\ path' = path /\ stamp' = stamp /\ now' = now
        /\ pc[r] = "stamped" /\ pc'[r] \in Ran
        /\ \A q \in Request \ {r} : pc'[q] = pc[q]
        /\ \A k \in Key : members'[k] = IF k = keyOf(r) THEN Counted(r) ELSE members[k]
        /\ \A k \in Key : expireAt'[k] =
                            IF k = keyOf(r) THEN now + Ttl + Grace ELSE expireAt[k]
    BY <1>2 DEF Check, ReplyLost, Transact, Ran, Key
  <2>2. \A q \in Request : keyOf(q) \in Key /\ keyOf(q)' = keyOf(q)
    BY <2>1 DEF Key
  <2>3. \A q \in Request : pc'[q] = "stamped" => pc[q] = "stamped" /\ now <= stamp[q] + MaxDelay
    BY <2>1 DEF StampsAreRecent
  <2> SUFFICES ASSUME NEW q \in Request, pc'[q] \in Ran
               PROVE  \/ /\ q \in members'[keyOf(q)]
                         /\ stamp[q] + Ttl + Grace <= expireAt'[keyOf(q)]
                      \/ /\ stamp[q] + Ttl - MaxDelay <= now
                         /\ \A x \in Request : pc'[x] = "stamped" =>
                              stamp[q] + Ttl - MaxDelay <= stamp[x]
    BY <2>1, <2>2 DEF GoneIsOld
  <2>4. stamp[q] <= now /\ stamp[r] <= now
    BY <2>1 DEF StampsAreRecent
  <2>5. CASE q \in Counted(r) /\ keyOf(q) = keyOf(r)
    BY <2>1, <2>2, <2>4, <2>5
  <2>6. CASE keyOf(q) # keyOf(r)
    BY <2>1, <2>2, <2>3, <2>6 DEF GoneIsOld
  <2>7. CASE q \notin Counted(r) /\ keyOf(q) = keyOf(r)
    <3>1. q # r /\ pc[q] \in Ran
      BY <2>1, <2>7, CountedFacts
    <3>2. CASE /\ stamp[q] + Ttl - MaxDelay <= now
               /\ \A x \in Request : pc[x] = "stamped" =>
                    stamp[q] + Ttl - MaxDelay <= stamp[x]
      BY <2>3, <3>2
    <3>3. CASE /\ q \in members[keyOf(q)]
               /\ stamp[q] + Ttl + Grace <= expireAt[keyOf(q)]
      <4>1. expireAt[keyOf(q)] \in Nat
        BY <2>2
      <4>2. now >= expireAt[keyOf(q)] \/ stamp[q] <= stamp[r] - Ttl
        BY <2>7, <3>3, <4>1 DEF Counted, Live
      <4>3. stamp[q] + Ttl <= now
        BY <2>4, <3>3, <4>1, <4>2
      <4> QED
        BY <2>3, <4>3
    <3> QED
      BY <3>1, <3>2, <3>3 DEF GoneIsOld
  <2> QED
    BY <2>5, <2>6, <2>7
<1>3. ASSUME NEW r \in Request, CheckFails(r) PROVE GoneIsOld'
  BY <1>3 DEF GoneIsOld, CheckFails
<1>4. ASSUME Tick PROVE GoneIsOld'
  BY <1>4 DEF GoneIsOld, Tick
<1>5. ASSUME UNCHANGED vars PROVE GoneIsOld'
  BY <1>5 DEF GoneIsOld, vars
<1> QED
  BY <1>1, <1>2, <1>3, <1>4, <1>5 DEF Next

\* Everybody admitted in the window of an admitted request was counted with it.
LEMMA WindowIsCounted ==
    ASSUME TypeOK, GoneIsOld, StampsAreRecent,
           NEW r \in Request, pc[r] = "stamped", NEW t \in 0 .. MaxTime,
           stamp[r] \in t .. t + Ttl - MaxDelay - 1
    PROVE  Admitted(keyOf(r), t, t + Ttl - MaxDelay) \subseteq Counted(r)
<1> USE ConstantsAssumption DEF TypeOK
<1> SUFFICES ASSUME NEW q \in Admitted(keyOf(r), t, t + Ttl - MaxDelay)
             PROVE  q \in Counted(r)
  OBVIOUS
<1>1. /\ q \in Request /\ pc[q] = "admitted" /\ keyOf(q) = keyOf(r)
      /\ t <= stamp[q] /\ stamp[q] <= t + Ttl - MaxDelay - 1
  BY DEF Admitted
<1>2. stamp[r] < stamp[q] + Ttl - MaxDelay /\ now <= stamp[r] + MaxDelay
  BY <1>1 DEF StampsAreRecent
<1>3. q \in members[keyOf(r)] /\ stamp[q] + Ttl + Grace <= expireAt[keyOf(r)]
  BY <1>1, <1>2 DEF GoneIsOld
<1>4. expireAt[keyOf(r)] \in Nat
  BY DEF keyOf, Key
<1>5. now < expireAt[keyOf(r)]
  BY <1>1, <1>2, <1>3, <1>4
<1>6. stamp[q] > stamp[r] - Ttl
  BY <1>1, <1>2
<1> QED
  BY <1>1, <1>3, <1>5, <1>6 DEF Counted, Live

LEMMA LimitNext ==
    TypeOK /\ Inv /\ [Next]_vars => AdmittedAtMostLimit'
<1> SUFFICES ASSUME TypeOK, Inv, [Next]_vars, NEW k \in Key, NEW t \in 0 .. MaxTime
             PROVE  Cardinality(Admitted(k, t, t + Ttl - MaxDelay)') <= Limit[k[2]]
  BY DEF AdmittedAtMostLimit
<1> DEFINE Window == Admitted(k, t, t + Ttl - MaxDelay)
<1> USE ConstantsAssumption DEF TypeOK, keyOf, Inv
<1>1. Cardinality(Window) <= Limit[k[2]]
  BY DEF AdmittedAtMostLimit
<1>2. ASSUME NEW r \in Request, Receive(r) PROVE Window' = Window
  BY <1>2 DEF Admitted, Receive
<1>3. ASSUME NEW r \in Request, Check(r)
      PROVE  Window' = Window \/ Cardinality(Window') <= Limit[k[2]]
  <2>1. /\ client' = client /\ path' = path /\ stamp' = stamp
        /\ pc[r] = "stamped"
        /\ pc'[r] = IF Cardinality(Counted(r)) > Limit[path[r]] THEN "denied" ELSE "admitted"
        /\ \A q \in Request \ {r} : pc'[q] = pc[q]
    BY <1>3 DEF Check, Transact
  <2>2. CASE r \notin Window'
    BY <2>1, <2>2 DEF Admitted
  <2>3. CASE r \in Window'
    <3>1. keyOf(r) = k /\ pc'[r] = "admitted" /\ stamp[r] \in t .. t + Ttl - MaxDelay - 1
      BY <2>1, <2>3 DEF Admitted
    <3>2. Window \subseteq Counted(r)
      BY <2>1, <3>1, WindowIsCounted
    <3>3. Window' \subseteq Window \cup {r}
      BY <2>1 DEF Admitted
    <3>4. /\ IsFiniteSet(Counted(r)) /\ r \in Counted(r)
          /\ Cardinality(Counted(r)) \in Nat
      BY CountedFacts
    <3>5. Window' \in SUBSET Counted(r)
      BY <3>2, <3>3, <3>4
    <3>6. Cardinality(Window') <= Cardinality(Counted(r)) /\ Cardinality(Window') \in Nat
      BY <3>4, <3>5, FS_Subset, FS_CardinalityType
    <3>7. k[2] = path[r] /\ Limit[path[r]] \in Nat
      BY <3>1
    <3> QED
      BY <2>1, <3>1, <3>4, <3>6, <3>7
  <2> QED
    BY <2>2, <2>3
<1>4. ASSUME NEW r \in Request, ReplyLost(r) \/ CheckFails(r) PROVE Window' = Window
  BY <1>4 DEF Admitted, ReplyLost, Transact, CheckFails
<1>5. ASSUME Tick PROVE Window' = Window
  BY <1>5 DEF Admitted, Tick
<1>6. ASSUME UNCHANGED vars PROVE Window' = Window
  BY <1>6 DEF Admitted, vars
<1> QED
  BY <1>1, <1>2, <1>3, <1>4, <1>5, <1>6 DEF Next

-----------------------------------------------------------------------------
(* The invariant, and what it is for. *)

LEMMA InvInit == Init => Inv
<1> SUFFICES ASSUME Init PROVE Inv
  OBVIOUS
<1>1. GoneIsOld /\ StampsAreRecent
  BY DEF Init, GoneIsOld, StampsAreRecent, Ran
<1>2. MembersAreChecked
  BY FS_EmptySet DEF Init, MembersAreChecked
<1>3. ASSUME NEW k \in Key, NEW t \in 0 .. MaxTime
      PROVE  Cardinality(Admitted(k, t, t + Ttl - MaxDelay)) <= Limit[k[2]]
  <2>1. Admitted(k, t, t + Ttl - MaxDelay) = {}
    BY DEF Init, Admitted
  <2>2. Limit[k[2]] \in Nat
    BY ConstantsAssumption DEF Key
  <2> QED
    BY <2>1, <2>2, FS_EmptySet
<1> QED
  BY <1>1, <1>2, <1>3 DEF Inv, AdmittedAtMostLimit

\* The inductive invariant: a request that ran is counted until it is too old
\* for every window that is still to be checked.
THEOREM Invariance == Spec => []Inv
<1>1. TypeOK /\ Inv /\ [Next]_vars => Inv'
  BY GoneIsOldNext, StampsNext, MembersNext, LimitNext DEF Inv
<1> QED
  BY <1>1, InvInit, TypeCorrect, PTL DEF Spec

\* In any Ttl - MaxDelay ticks at most Limit requests of one client to one path
\* are admitted, in whatever order their transactions run.
THEOREM AdmittedWithinLimit == Spec => []AdmittedAtMostLimit
<1>1. Inv => AdmittedAtMostLimit
  BY DEF Inv
<1> QED
  BY <1>1, Invariance, PTL
-----------------------------------------------------------------------------
(* Denials. *)

Checked == {q \in Request : pc[q] \in Ran}

\* The requests that ran so far are finite in number, so rivals can be counted.
LEMMA CheckedIsFinite == Spec => []IsFiniteSet(Checked)
<1>1. Init => IsFiniteSet(Checked)
  <2> SUFFICES ASSUME Init PROVE IsFiniteSet(Checked)
    OBVIOUS
  <2>1. Checked = {}
    BY DEF Init, Checked, Ran
  <2> QED
    BY <2>1, FS_EmptySet
<1>2. TypeOK /\ IsFiniteSet(Checked) /\ [Next]_vars => IsFiniteSet(Checked)'
  <2> SUFFICES ASSUME TypeOK, IsFiniteSet(Checked), [Next]_vars
               PROVE  IsFiniteSet(Checked')
    OBVIOUS
  <2>1. ASSUME NEW r \in Request, Receive(r) \/ Check(r) \/ ReplyLost(r) \/ CheckFails(r)
        PROVE  Checked' \subseteq Checked \cup {r}
    BY <2>1 DEF Checked, Receive, Check, ReplyLost, Transact, CheckFails, TypeOK
  <2>2. CASE Tick \/ UNCHANGED vars
    <3>1. Checked' = Checked
      BY <2>2 DEF Checked, Tick, vars
    <3> QED
      BY <3>1
  <2>3. CASE \E r \in Request : Receive(r) \/ Check(r) \/ ReplyLost(r) \/ CheckFails(r)
    <3>1. PICK r \in Request : Receive(r) \/ Check(r) \/ ReplyLost(r) \/ CheckFails(r)
      BY <2>3
    <3>2. IsFiniteSet(Checked \cup {r})
      BY FS_AddElement
    <3> QED
      BY <2>1, <3>1, <3>2, FS_Subset
  <2> QED
    BY <2>2, <2>3 DEF Next
<1> QED
  BY <1>1, <1>2, TypeCorrect, PTL DEF Spec

\* Rivals stay rivals, and what a MULTI counts are rivals.
LEMMA DeniedNext ==
    ASSUME TypeOK, Inv, IsFiniteSet(Checked'), DeniedIsExplained, [Next]_vars
    PROVE  DeniedIsExplained'
<1> USE ConstantsAssumption DEF TypeOK, Ran
<1> SUFFICES ASSUME NEW d \in Request, pc'[d] = "denied"
             PROVE  Cardinality(Rivals(d)') > Limit[path'[d]]
  BY DEF DeniedIsExplained
<1>1. Limit[path[d]] \in Nat /\ path' = path /\ client' = client
  BY DEF Next, Receive, Check, ReplyLost, Transact, CheckFails, Tick, vars
<1>2. IsFiniteSet(Rivals(d)') /\ Cardinality(Rivals(d)') \in Nat
  <2>1. Rivals(d)' \subseteq Checked'
    BY DEF Rivals, Checked
  <2> QED
    BY <2>1, FS_Subset, FS_CardinalityType
<1>3. ASSUME pc[d] = "denied", Rivals(d) \subseteq Rivals(d)'
      PROVE  Cardinality(Rivals(d)') > Limit[path'[d]]
  <2>1. Cardinality(Rivals(d)) > Limit[path[d]]
    BY <1>3 DEF DeniedIsExplained
  <2>2. Cardinality(Rivals(d)) <= Cardinality(Rivals(d)') /\ Cardinality(Rivals(d)) \in Nat
    BY <1>2, <1>3, FS_Subset, FS_CardinalityType
  <2> QED
    BY <1>1, <1>2, <2>1, <2>2
<1>4. ASSUME NEW r \in Request, Receive(r) PROVE Cardinality(Rivals(d)') > Limit[path'[d]]
  <2>1. pc[d] = "denied" /\ stamp'[d] = stamp[d]
    BY <1>4 DEF Receive
  <2>2. \A q \in Rivals(d) : pc'[q] = pc[q] /\ stamp'[q] = stamp[q]
    BY <1>4 DEF Receive, Rivals
  <2>3. Rivals(d) \subseteq Rivals(d)'
    BY <1>1, <2>1, <2>2 DEF Rivals, keyOf
  <2> QED
    BY <1>3, <2>1, <2>3
<1>5. ASSUME NEW r \in Request, Check(r) \/ ReplyLost(r)
      PROVE  Cardinality(Rivals(d)') > Limit[path'[d]]
  <2>1. /\ stamp' = stamp /\ \A q \in Request \ {r} : pc'[q] = pc[q]
        /\ pc[r] = "stamped" /\ pc'[r] \in Ran
        /\ pc'[r] = "denied" => Cardinality(Counted(r)) > Limit[path[r]]
    BY <1>5 DEF Check, ReplyLost, Transact
  <2>2. CASE d = r
    <3>1. Counted(r) \subseteq members[keyOf(r)] \cup {r} /\ Cardinality(Counted(r)) \in Nat
      BY CountedFacts DEF Inv
    <3>2. keyOf(r) \in Key
      BY DEF keyOf, Key
    <3>3. \A q \in Counted(r) : /\ q \in Request /\ stamp[q] > stamp[r] - Ttl
                                /\ keyOf(q) = keyOf(r)
                                /\ pc'[q] \in Ran
      BY <2>1, <3>1, <3>2 DEF Inv, MembersAreChecked, Counted
    <3>4. Counted(r) \subseteq Rivals(d)'
      BY <1>1, <2>1, <2>2, <3>3 DEF Rivals, keyOf
    <3>5. Cardinality(Counted(r)) <= Cardinality(Rivals(d)')
      BY <1>2, <3>4, FS_Subset
    <3> QED
      BY <1>1, <1>2, <2>1, <2>2, <3>1, <3>5
  <2>3. CASE d # r
    <3>1. pc[d] = "denied" /\ Rivals(d) \subseteq Rivals(d)'
      BY <1>1, <2>1, <2>3 DEF Rivals, keyOf
    <3> QED
      BY <1>3, <3>1
  <2> QED
    BY <2>2, <2>3
<1>6. ASSUME NEW r \in Request, CheckFails(r) PROVE Cardinality(Rivals(d)') > Limit[path'[d]]
  <2>1. pc[d] = "denied" /\ Rivals(d) \subseteq Rivals(d)'
    BY <1>1, <1>6 DEF CheckFails, Rivals, keyOf
  <2> QED
    BY <1>3, <2>1
<1>7. ASSUME Tick \/ UNCHANGED vars PROVE Cardinality(Rivals(d)') > Limit[path'[d]]
  <2>1. pc[d] = "denied" /\ Rivals(d) \subseteq Rivals(d)'
    BY <1>1, <1>7 DEF Tick, vars, Rivals, keyOf
  <2> QED
    BY <1>3, <2>1
<1> QED
  BY <1>4, <1>5, <1>6, <1>7 DEF Next

\* A denied request has more than Limit rivals, for any limits and delays.
THEOREM DenialsExplained == Spec => []DeniedIsExplained
<1>1. Init => DeniedIsExplained
  BY DEF Init, DeniedIsExplained
<1>2. /\ TypeOK /\ Inv /\ IsFiniteSet(Checked)' /\ DeniedIsExplained /\ [Next]_vars
      => DeniedIsExplained'
  BY DeniedNext
<1> QED
  BY <1>1, <1>2, TypeCorrect, Invariance, CheckedIsFinite, PTL DEF Spec
=============================================================================
