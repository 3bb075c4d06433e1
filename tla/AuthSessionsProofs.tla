-------------------------- MODULE AuthSessionsProofs --------------------------
(* Proofs about AuthSessions, for any sets of requests and users, any number *)
(* of faults and any choice of ageing rows: what holds in any interleaving,  *)
(* and then what one request at a time implements.                           *)
EXTENDS AuthSessions, TLAPS

USE DEF table, clock, locals, history

-----------------------------------------------------------------------------
(* Types. *)

LEMMA TokenFacts ==
    /\ \A r \in Request : RefreshToken(r) \in Token /\ AccessToken(r) \in Token
    /\ \A t \in Token : hashToken(t) \in Digest
    /\ \A r, s \in Request : RefreshToken(r) = RefreshToken(s) => r = s
    /\ \A t, v \in Token : hashToken(t) = hashToken(v) => t = v
    /\ \A r \in Request : RefreshToken(r).row = r
    /\ \A t \in Token : t.row \in Request
    /\ PENDING \notin Digest /\ NONE \notin Digest /\ NONE # PENDING
    /\ NONE \notin Request /\ NONE \notin Token
    /\ NONE \notin {"login", "refresh", "logout", "ok", "invalid", "reused", "error"}
BY ConstantsAssumption DEF RefreshToken, AccessToken, Token, hashToken, Digest

LEMMA InitTypeOK == Init => TypeOK
BY ConstantsAssumption DEF Init, TypeOK, Location, Verdict

\* No step of any request, failure or clock takes the state out of its types.
LEMMA NextTypeOK == TypeOK /\ [Next]_vars => TypeOK'
<1> SUFFICES ASSUME TypeOK, [Next]_vars PROVE TypeOK'
  OBVIOUS
<1> USE DEF TypeOK, Goto, Return, Location, Verdict
<1>1. CASE UNCHANGED vars
  BY <1>1 DEF vars
<1>2. ASSUME NEW r \in Request, NEW u \in User, BeginLogin(r, u) PROVE TypeOK'
  BY <1>2, ConstantsAssumption DEF BeginLogin
<1>3. ASSUME NEW r \in Request, NEW t \in Token, BeginRefresh(r, t) PROVE TypeOK'
  BY <1>3 DEF BeginRefresh, Present
<1>4. ASSUME NEW r \in Request, NEW t \in Token, BeginLogout(r, t) PROVE TypeOK'
  BY <1>4 DEF BeginLogout, Present
<1>5. ASSUME NEW r \in Request, RefreshFind(r) PROVE TypeOK'
  <2>1. payloadFamily(token[r]) \in Request \cup {NONE}
    BY <1>5, TokenFacts DEF RefreshFind, payloadFamily
  <2> QED
    BY <1>5, <2>1 DEF RefreshFind
<1>6. ASSUME NEW r \in Request, RevokeFamily(r) PROVE TypeOK'
  BY <1>6 DEF RevokeFamily
<1>7. ASSUME NEW r \in Request, CreateSession(r) PROVE TypeOK'
  BY <1>7 DEF CreateSession
<1>8. ASSUME NEW r \in Request, UniqueViolation(r) PROVE TypeOK'
  BY <1>8 DEF UniqueViolation, Thrown
<1>9. ASSUME NEW r \in Request, StoreHash(r) PROVE TypeOK'
  <2>1. hash' \in [Request -> Digest \cup {PENDING, NONE}]
    BY <1>9, TokenFacts DEF StoreHash
  <2>2. /\ pc' \in [Request -> Location] /\ answer' \in [Request -> Verdict]
        /\ UNCHANGED <<rows, owner, family, replacedBy, revoked, clock, locals, history>>
    BY <1>9 DEF StoreHash
  <2> QED
    BY <2>1, <2>2
<1>10. ASSUME NEW r \in Request, SetReplacement(r) PROVE TypeOK'
  BY <1>10, TokenFacts DEF SetReplacement
<1>11. ASSUME NEW r \in Request, RevokeSession(r) PROVE TypeOK'
  BY <1>11 DEF RevokeSession
<1>12. ASSUME NEW r \in Request, LogoutFind(r) PROVE TypeOK'
  BY <1>12 DEF LogoutFind
<1>13. ASSUME NEW r \in Request, DbFails(r) PROVE TypeOK'
  BY <1>13, ConstantsAssumption DEF DbFails, Thrown
<1>14. ASSUME Crash PROVE TypeOK'
  BY <1>14, ConstantsAssumption DEF Crash
<1>15. ASSUME NEW s \in Request, Expire(s) PROVE TypeOK'
  BY <1>15 DEF Expire
<1>16. ASSUME NEW t \in Token, Lapse(t) PROVE TypeOK'
  BY <1>16 DEF Lapse
<1> QED
  BY <1>1, <1>2, <1>3, <1>4, <1>5, <1>6, <1>7, <1>8, <1>9, <1>10, <1>11,
     <1>12, <1>13, <1>14, <1>15, <1>16 DEF Next, Begin, Step, Environment

\* The columns and locals of AuthService keep their types for ever.
THEOREM TypeCorrect == Spec => []TypeOK
BY InitTypeOK, NextTypeOK, PTL DEF Spec
-----------------------------------------------------------------------------
(* The invariant, action by action. *)

LEMMA InitInv == Init => Inv
BY TokenFacts DEF Init, Inv, HeldTokenIsStored, LocationTellsProgress,
   RowIsFromItsRequest, FoundIsRowOfToken, PresentedTokenIsHeld, SpentStaysOut,
   ReplacementIsRotation, Held

LEMMA BeginLoginKeeps ==
    ASSUME TypeOK, Inv, NEW r \in Request, NEW u \in User, BeginLogin(r, u)
    PROVE  Inv'
<1> USE TokenFacts DEF TypeOK, Location, Verdict, Goto, Return, Inv, Held, Dead
<1>1. HeldTokenIsStored'
  BY DEF BeginLogin, HeldTokenIsStored, LocationTellsProgress
<1>2. LocationTellsProgress'
  BY DEF BeginLogin, LocationTellsProgress
<1>3. RowIsFromItsRequest'
  BY DEF BeginLogin, LocationTellsProgress, RowIsFromItsRequest
<1>4. FoundIsRowOfToken'
  BY DEF BeginLogin, FoundIsRowOfToken
<1>5. PresentedTokenIsHeld'
  BY DEF BeginLogin, PresentedTokenIsHeld, payloadFamily
<1>6. SpentStaysOut'
  BY DEF BeginLogin, SpentStaysOut
<1>7. ReplacementIsRotation'
  BY DEF BeginLogin, LocationTellsProgress, ReplacementIsRotation
<1> QED
  BY <1>1, <1>2, <1>3, <1>4, <1>5, <1>6, <1>7

LEMMA BeginRefreshKeeps ==
    ASSUME TypeOK, Inv, NEW r \in Request, NEW t \in Token, BeginRefresh(r, t)
    PROVE  Inv'
<1> USE TokenFacts DEF TypeOK, Location, Verdict, Goto, Return, Inv, Held, Dead
<1>1. HeldTokenIsStored'
  BY DEF BeginRefresh, Present, HeldTokenIsStored, LocationTellsProgress
<1>2. LocationTellsProgress'
  BY DEF BeginRefresh, Present, LocationTellsProgress
<1>3. RowIsFromItsRequest'
  BY DEF BeginRefresh, Present, LocationTellsProgress, RowIsFromItsRequest
<1>4. FoundIsRowOfToken'
  BY DEF BeginRefresh, Present, LocationTellsProgress, FoundIsRowOfToken
<1>5. PresentedTokenIsHeld'
  BY DEF BeginRefresh, Present, LocationTellsProgress, PresentedTokenIsHeld,
         payloadFamily
<1>6. SpentStaysOut'
  <2>1. ASSUME NEW q \in spent, q # r PROVE op'[q] = op[q] /\ pc'[q] = pc[q] /\ token'[q] = token[q] /\ answer'[q] = answer[q]
    BY <2>1 DEF BeginRefresh, Present
  <2>2. r \in spent' => Dead(t.row)' 
    <3>1. op[r] = NONE
      BY DEF BeginRefresh, Present, LocationTellsProgress
    <3> QED
      BY <3>1 DEF BeginRefresh, Present, SpentStaysOut
  <2>3. pc'[r] \in {"find", "done"} /\ answer'[r] # "ok" /\ token'[r] = t
    BY DEF BeginRefresh, Present, LocationTellsProgress
  <2>4. \A s \in Request : Dead(s)' <=> Dead(s)
    BY DEF BeginRefresh, Present
  <2>5. spent' \subseteq spent \cup {r}
    BY DEF BeginRefresh, Present
  <2> QED
    BY <2>1, <2>2, <2>3, <2>4, <2>5 DEF SpentStaysOut
<1>7. ReplacementIsRotation'
  BY DEF BeginRefresh, Present, LocationTellsProgress, ReplacementIsRotation
<1> QED
  BY <1>1, <1>2, <1>3, <1>4, <1>5, <1>6, <1>7

LEMMA BeginLogoutKeeps ==
    ASSUME TypeOK, Inv, NEW r \in Request, NEW t \in Token, BeginLogout(r, t)
    PROVE  Inv'
<1> USE TokenFacts DEF TypeOK, Location, Verdict, Goto, Return, Inv, Held, Dead
<1>1. HeldTokenIsStored'
  BY DEF BeginLogout, Present, HeldTokenIsStored, LocationTellsProgress
<1>2. LocationTellsProgress'
  BY DEF BeginLogout, Present, LocationTellsProgress
<1>3. RowIsFromItsRequest'
  BY DEF BeginLogout, Present, LocationTellsProgress, RowIsFromItsRequest
<1>4. FoundIsRowOfToken'
  BY DEF BeginLogout, Present, FoundIsRowOfToken
<1>5. PresentedTokenIsHeld'
  BY DEF BeginLogout, Present, LocationTellsProgress, PresentedTokenIsHeld,
         payloadFamily
<1>6. SpentStaysOut'
  BY DEF BeginLogout, Present, SpentStaysOut
<1>7. ReplacementIsRotation'
  BY DEF BeginLogout, Present, LocationTellsProgress, ReplacementIsRotation
<1> QED
  BY <1>1, <1>2, <1>3, <1>4, <1>5, <1>6, <1>7

LEMMA RefreshFindKeeps ==
    ASSUME TypeOK, Inv, NEW r \in Request, RefreshFind(r)
    PROVE  Inv'
<1> USE TokenFacts DEF TypeOK, Location, Verdict, Goto, Return, Inv, Held, Dead
<1>1. HeldTokenIsStored'
  BY DEF RefreshFind, HeldTokenIsStored, RowIsFromItsRequest
<1>2. LocationTellsProgress'
  <2>1. r \notin rows /\ op[r] = "refresh" /\ answer[r] # "ok"
    BY DEF RefreshFind, LocationTellsProgress
  <2>2. pc'[r] \in {"revokeFamily", "create"} /\ UNCHANGED <<op, rows, answer>>
    BY DEF RefreshFind
  <2>3. \A q \in Request \ {r} : pc'[q] = pc[q] /\ user'[q] = user[q] /\ fam'[q] = fam[q]
    BY DEF RefreshFind
  <2> QED
    BY <2>1, <2>2, <2>3 DEF LocationTellsProgress
<1>3. RowIsFromItsRequest'
  BY DEF RefreshFind, LocationTellsProgress, RowIsFromItsRequest
<1>4. FoundIsRowOfToken'
  BY DEF RefreshFind, LocationTellsProgress, RowIsFromItsRequest,
         FoundIsRowOfToken
<1>5. PresentedTokenIsHeld'
  <2>1. \A s \in rows : hash[s] = hashToken(token[r]) => token[r] = RefreshToken(s)
    BY DEF RefreshFind, RowIsFromItsRequest
  <2>2. op[r] = "refresh" /\ fam'[r] = payloadFamily(token[r])
    BY <2>1 DEF RefreshFind, payloadFamily, RefreshToken
  <2>3. \A q \in Request \ {r} : pc'[q] = pc[q] /\ fam'[q] = fam[q]
    BY DEF RefreshFind
  <2>4. UNCHANGED <<op, token, answer, family>>
    BY DEF RefreshFind
  <2> QED
    BY <2>2, <2>3, <2>4 DEF PresentedTokenIsHeld, payloadFamily
<1>6. SpentStaysOut'
  <2>1. r \in spent => pc'[r] = "revokeFamily"
    <3>1. ASSUME NEW s \in rows, hash[s] = hashToken(token[r]) PROVE token[r] = RefreshToken(s)
      BY <3>1 DEF RefreshFind, RowIsFromItsRequest
    <3> QED
      BY <3>1 DEF RefreshFind, SpentStaysOut
  <2>3. \A q \in Request \ {r} : pc'[q] = pc[q]
    BY DEF RefreshFind
  <2>4. UNCHANGED <<op, token, revoked, expired, answer, spent>>
    BY DEF RefreshFind
  <2> QED
    BY <2>1, <2>3, <2>4 DEF SpentStaysOut
<1>7. ReplacementIsRotation'
  BY DEF RefreshFind, LocationTellsProgress, RowIsFromItsRequest,
         ReplacementIsRotation
<1> QED
  BY <1>1, <1>2, <1>3, <1>4, <1>5, <1>6, <1>7

LEMMA RevokeFamilyKeeps ==
    ASSUME TypeOK, Inv, NEW r \in Request, RevokeFamily(r)
    PROVE  Inv'
<1> USE TokenFacts DEF TypeOK, Location, Verdict, Goto, Return, Inv, Held, Dead
<1>1. HeldTokenIsStored'
  BY DEF RevokeFamily, HeldTokenIsStored
<1>2. LocationTellsProgress'
  BY DEF RevokeFamily, LocationTellsProgress
<1>3. RowIsFromItsRequest'
  BY DEF RevokeFamily, RowIsFromItsRequest
<1>4. FoundIsRowOfToken'
  BY DEF RevokeFamily, FoundIsRowOfToken
<1>5. PresentedTokenIsHeld'
  BY DEF RevokeFamily, LocationTellsProgress, PresentedTokenIsHeld,
         payloadFamily
<1>6. SpentStaysOut'
  BY DEF RevokeFamily, SpentStaysOut
<1>7. ReplacementIsRotation'
  BY DEF RevokeFamily, FoundIsRowOfToken, ReplacementIsRotation
<1> QED
  BY <1>1, <1>2, <1>3, <1>4, <1>5, <1>6, <1>7

LEMMA CreateSessionKeeps ==
    ASSUME TypeOK, Inv, NEW r \in Request, CreateSession(r)
    PROVE  Inv'
<1> USE TokenFacts DEF TypeOK, Location, Verdict, Goto, Return, Inv, Held, Dead
<1>1. HeldTokenIsStored'
  BY DEF CreateSession, HeldTokenIsStored, LocationTellsProgress
<1>2. LocationTellsProgress'
  BY DEF CreateSession, LocationTellsProgress
<1>3. RowIsFromItsRequest'
  <2>1. op[r] \in {"login", "refresh"} /\ r \notin rows
    BY DEF CreateSession, LocationTellsProgress
  <2>2. fam[r] \in Request /\ op[fam[r]] = "login" /\ user[r] = user[fam[r]]
    <3>1. CASE op[r] = "login"
      BY <3>1 DEF CreateSession, LocationTellsProgress
    <3>2. CASE op[r] = "refresh"
      BY <3>2 DEF CreateSession, FoundIsRowOfToken, RowIsFromItsRequest
    <3> QED
      BY <2>1, <3>1, <3>2
  <2>3. /\ owner'[r] = user[r] /\ family'[r] = fam[r] /\ hash'[r] = PENDING /\ pc'[r] = "store"
    BY DEF CreateSession
  <2>4. \A s \in rows : /\ owner'[s] = owner[s] /\ family'[s] = family[s]
                        /\ hash'[s] = hash[s] /\ pc'[s] = pc[s]
    BY <2>1 DEF CreateSession
  <2>5. rows' = rows \cup {r} /\ UNCHANGED <<op, user, fam>>
    BY DEF CreateSession
  <2> QED
    BY <2>1, <2>2, <2>3, <2>4, <2>5 DEF RowIsFromItsRequest
<1>4. FoundIsRowOfToken'
  BY DEF CreateSession, RowIsFromItsRequest, FoundIsRowOfToken
<1>5. PresentedTokenIsHeld'
  BY DEF CreateSession, LocationTellsProgress, PresentedTokenIsHeld,
         payloadFamily
<1>6. SpentStaysOut'
  BY DEF CreateSession, SpentStaysOut
<1>7. ReplacementIsRotation'
  BY DEF CreateSession, LocationTellsProgress, ReplacementIsRotation
<1> QED
  BY <1>1, <1>2, <1>3, <1>4, <1>5, <1>6, <1>7

LEMMA UniqueViolationKeeps ==
    ASSUME TypeOK, Inv, NEW r \in Request, UniqueViolation(r)
    PROVE  Inv'
<1> USE TokenFacts DEF TypeOK, Location, Verdict, Goto, Return, Inv, Held, Dead
<1>1. HeldTokenIsStored'
  BY DEF UniqueViolation, Thrown, HeldTokenIsStored
<1>2. LocationTellsProgress'
  BY DEF UniqueViolation, Thrown, LocationTellsProgress
<1>3. RowIsFromItsRequest'
  BY DEF UniqueViolation, Thrown, RowIsFromItsRequest
<1>4. FoundIsRowOfToken'
  BY DEF UniqueViolation, Thrown, FoundIsRowOfToken
<1>5. PresentedTokenIsHeld'
  BY DEF UniqueViolation, Thrown, LocationTellsProgress, PresentedTokenIsHeld,
         payloadFamily
<1>6. SpentStaysOut'
  BY DEF UniqueViolation, Thrown, SpentStaysOut
<1>7. ReplacementIsRotation'
  BY DEF UniqueViolation, Thrown, ReplacementIsRotation
<1> QED
  BY <1>1, <1>2, <1>3, <1>4, <1>5, <1>6, <1>7

LEMMA StoreHashKeeps ==
    ASSUME TypeOK, Inv, NEW r \in Request, StoreHash(r)
    PROVE  Inv'
<1> USE TokenFacts DEF TypeOK, Location, Verdict, Goto, Return, Inv, Held, Dead
<1>1. HeldTokenIsStored'
  BY DEF StoreHash, HeldTokenIsStored, LocationTellsProgress,
         RowIsFromItsRequest
<1>2. LocationTellsProgress'
  BY DEF StoreHash, LocationTellsProgress
<1>3. RowIsFromItsRequest'
  BY DEF StoreHash, RowIsFromItsRequest
<1>4. FoundIsRowOfToken'
  BY DEF StoreHash, FoundIsRowOfToken
<1>5. PresentedTokenIsHeld'
  BY DEF StoreHash, PresentedTokenIsHeld, payloadFamily
<1>6. SpentStaysOut'
  BY DEF StoreHash, SpentStaysOut
<1>7. ReplacementIsRotation'
  BY DEF StoreHash, ReplacementIsRotation
<1> QED
  BY <1>1, <1>2, <1>3, <1>4, <1>5, <1>6, <1>7

LEMMA SetReplacementKeeps ==
    ASSUME TypeOK, Inv, NEW r \in Request, SetReplacement(r)
    PROVE  Inv'
<1> USE TokenFacts DEF TypeOK, Location, Verdict, Goto, Return, Inv, Held, Dead
<1>1. HeldTokenIsStored'
  BY DEF SetReplacement, HeldTokenIsStored
<1>2. LocationTellsProgress'
  BY DEF SetReplacement, LocationTellsProgress
<1>3. RowIsFromItsRequest'
  BY DEF SetReplacement, RowIsFromItsRequest
<1>4. FoundIsRowOfToken'
  BY DEF SetReplacement, FoundIsRowOfToken
<1>5. PresentedTokenIsHeld'
  BY DEF SetReplacement, PresentedTokenIsHeld, payloadFamily
<1>6. SpentStaysOut'
  BY DEF SetReplacement, SpentStaysOut
<1>7. ReplacementIsRotation'
  BY DEF SetReplacement, LocationTellsProgress, RowIsFromItsRequest,
         FoundIsRowOfToken, ReplacementIsRotation
<1> QED
  BY <1>1, <1>2, <1>3, <1>4, <1>5, <1>6, <1>7

LEMMA RevokeSessionKeeps ==
    ASSUME TypeOK, Inv, NEW r \in Request, RevokeSession(r)
    PROVE  Inv'
<1> USE TokenFacts DEF TypeOK, Location, Verdict, Goto, Return, Inv, Held, Dead
<1>1. HeldTokenIsStored'
  BY DEF RevokeSession, HeldTokenIsStored, LocationTellsProgress,
         RowIsFromItsRequest
<1>2. LocationTellsProgress'
  BY DEF RevokeSession, LocationTellsProgress
<1>3. RowIsFromItsRequest'
  BY DEF RevokeSession, RowIsFromItsRequest
<1>4. FoundIsRowOfToken'
  BY DEF RevokeSession, FoundIsRowOfToken
<1>5. PresentedTokenIsHeld'
  BY DEF RevokeSession, PresentedTokenIsHeld, payloadFamily
<1>6. SpentStaysOut'
  BY DEF RevokeSession, SpentStaysOut
<1>7. ReplacementIsRotation'
  BY DEF RevokeSession, LocationTellsProgress, FoundIsRowOfToken,
         ReplacementIsRotation
<1> QED
  BY <1>1, <1>2, <1>3, <1>4, <1>5, <1>6, <1>7

LEMMA LogoutFindKeeps ==
    ASSUME TypeOK, Inv, NEW r \in Request, LogoutFind(r)
    PROVE  Inv'
<1> USE TokenFacts DEF TypeOK, Location, Verdict, Goto, Return, Inv, Held, Dead
<1>1. HeldTokenIsStored'
  BY DEF LogoutFind, HeldTokenIsStored
<1>2. LocationTellsProgress'
  BY DEF LogoutFind, LocationTellsProgress
<1>3. RowIsFromItsRequest'
  BY DEF LogoutFind, RowIsFromItsRequest
<1>4. FoundIsRowOfToken'
  <2>1. /\ UNCHANGED <<rows, family, owner, op, token, user, fam>> /\ op[r] = "logout"
        /\ \A q \in Request \ {r} : pc'[q] = pc[q] /\ found'[q] = found[q]
        /\ pc'[r] \in {"revoke", "done"}
    BY DEF LogoutFind
  <2>2. pc'[r] = "revoke" => found'[r] \in rows /\ token[r] = RefreshToken(found'[r])
    BY DEF LogoutFind, RowIsFromItsRequest
  <2>3. r \notin rows
    BY DEF LogoutFind, LocationTellsProgress
  <2> QED
    BY <2>1, <2>2, <2>3 DEF FoundIsRowOfToken
<1>5. PresentedTokenIsHeld'
  BY DEF LogoutFind, PresentedTokenIsHeld, payloadFamily
<1>6. SpentStaysOut'
  BY DEF LogoutFind, SpentStaysOut
<1>7. ReplacementIsRotation'
  BY DEF LogoutFind, ReplacementIsRotation
<1> QED
  BY <1>1, <1>2, <1>3, <1>4, <1>5, <1>6, <1>7

LEMMA DbFailsKeeps ==
    ASSUME TypeOK, Inv, NEW r \in Request, DbFails(r)
    PROVE  Inv'
<1> USE TokenFacts DEF TypeOK, Location, Verdict, Goto, Return, Inv, Held, Dead
<1>1. HeldTokenIsStored'
  BY DEF DbFails, Thrown, InFlight, HeldTokenIsStored
<1>2. LocationTellsProgress'
  BY DEF DbFails, Thrown, InFlight, LocationTellsProgress
<1>3. RowIsFromItsRequest'
  BY DEF DbFails, Thrown, InFlight, RowIsFromItsRequest
<1>4. FoundIsRowOfToken'
  BY DEF DbFails, Thrown, InFlight, FoundIsRowOfToken
<1>5. PresentedTokenIsHeld'
  BY DEF DbFails, Thrown, InFlight, LocationTellsProgress,
         PresentedTokenIsHeld, payloadFamily
<1>6. SpentStaysOut'
  BY DEF DbFails, Thrown, InFlight, SpentStaysOut
<1>7. ReplacementIsRotation'
  BY DEF DbFails, Thrown, InFlight, ReplacementIsRotation
<1> QED
  BY <1>1, <1>2, <1>3, <1>4, <1>5, <1>6, <1>7

LEMMA CrashKeeps ==
    ASSUME TypeOK, Inv, Crash
    PROVE  Inv'
<1> USE TokenFacts DEF TypeOK, Location, Verdict, Goto, Return, Inv, Held, Dead
<1>1. HeldTokenIsStored'
  BY DEF Crash, InFlight, HeldTokenIsStored
<1>2. LocationTellsProgress'
  BY DEF Crash, InFlight, LocationTellsProgress
<1>3. RowIsFromItsRequest'
  BY DEF Crash, InFlight, RowIsFromItsRequest
<1>4. FoundIsRowOfToken'
  BY DEF Crash, InFlight, FoundIsRowOfToken
<1>5. PresentedTokenIsHeld'
  BY DEF Crash, InFlight, PresentedTokenIsHeld, payloadFamily
<1>6. SpentStaysOut'
  BY DEF Crash, InFlight, SpentStaysOut
<1>7. ReplacementIsRotation'
  BY DEF Crash, InFlight, ReplacementIsRotation
<1> QED
  BY <1>1, <1>2, <1>3, <1>4, <1>5, <1>6, <1>7

LEMMA ExpireKeeps ==
    ASSUME TypeOK, Inv, NEW s \in Request, Expire(s)
    PROVE  Inv'
<1> USE TokenFacts DEF TypeOK, Location, Verdict, Goto, Return, Inv, Held, Dead
<1>1. HeldTokenIsStored'
  BY DEF Expire, HeldTokenIsStored
<1>2. LocationTellsProgress'
  BY DEF Expire, LocationTellsProgress
<1>3. RowIsFromItsRequest'
  BY DEF Expire, RowIsFromItsRequest
<1>4. FoundIsRowOfToken'
  BY DEF Expire, FoundIsRowOfToken
<1>5. PresentedTokenIsHeld'
  BY DEF Expire, PresentedTokenIsHeld, payloadFamily
<1>6. SpentStaysOut'
  BY DEF Expire, SpentStaysOut
<1>7. ReplacementIsRotation'
  BY DEF Expire, ReplacementIsRotation
<1> QED
  BY <1>1, <1>2, <1>3, <1>4, <1>5, <1>6, <1>7

LEMMA LapseKeeps ==
    ASSUME TypeOK, Inv, NEW t \in Token, Lapse(t)
    PROVE  Inv'
<1> USE TokenFacts DEF TypeOK, Location, Verdict, Goto, Return, Inv, Held, Dead
<1>1. HeldTokenIsStored'
  BY DEF Lapse, HeldTokenIsStored
<1>2. LocationTellsProgress'
  BY DEF Lapse, LocationTellsProgress
<1>3. RowIsFromItsRequest'
  BY DEF Lapse, RowIsFromItsRequest
<1>4. FoundIsRowOfToken'
  BY DEF Lapse, FoundIsRowOfToken
<1>5. PresentedTokenIsHeld'
  BY DEF Lapse, PresentedTokenIsHeld, payloadFamily
<1>6. SpentStaysOut'
  BY DEF Lapse, SpentStaysOut
<1>7. ReplacementIsRotation'
  BY DEF Lapse, ReplacementIsRotation
<1> QED
  BY <1>1, <1>2, <1>3, <1>4, <1>5, <1>6, <1>7

LEMMA StutterKeeps == TypeOK /\ Inv /\ UNCHANGED vars => Inv'
BY DEF vars, Inv, HeldTokenIsStored, LocationTellsProgress, RowIsFromItsRequest,
   FoundIsRowOfToken, PresentedTokenIsHeld, SpentStaysOut, ReplacementIsRotation,
   Held, Dead, payloadFamily

\* Inv is inductive.
LEMMA NextInv == TypeOK /\ Inv /\ [Next]_vars => Inv'
<1> SUFFICES ASSUME TypeOK, Inv, [Next]_vars PROVE Inv'
  OBVIOUS
<1>1. ASSUME NEW r \in Request, Begin(r) PROVE Inv'
  BY <1>1, BeginLoginKeeps, BeginRefreshKeeps, BeginLogoutKeeps DEF Begin
<1>2. ASSUME NEW r \in Request, Step(r) PROVE Inv'
  BY <1>2, RefreshFindKeeps, RevokeFamilyKeeps, CreateSessionKeeps,
     UniqueViolationKeeps, StoreHashKeeps, SetReplacementKeeps,
     RevokeSessionKeeps, LogoutFindKeeps DEF Step
<1>3. ASSUME Environment PROVE Inv'
  BY <1>3, DbFailsKeeps, CrashKeeps, ExpireKeeps, LapseKeeps DEF Environment
<1> QED
  BY <1>1, <1>2, <1>3, StutterKeeps DEF Next

\* The inductive invariant holds in every reachable state.
THEOREM Invariance == Spec => [](TypeOK /\ Inv)
<1>1. Init => TypeOK /\ Inv
  BY InitTypeOK, InitInv
<1>2. TypeOK /\ Inv /\ [Next]_vars => (TypeOK /\ Inv)'
  BY NextTypeOK, NextInv
<1> QED
  BY <1>1, <1>2, PTL DEF Spec

-----------------------------------------------------------------------------
(* The state properties. *)

\* A token a client holds is stored in the row created for it.
THEOREM HeldStored == Spec => []HeldTokenIsStored
<1>1. Inv => HeldTokenIsStored
  BY DEF Inv
<1> QED
  BY <1>1, Invariance, PTL

LEMMA InvOneOwner == Inv => FamilyHasOneOwner
BY DEF Inv, RowIsFromItsRequest, FamilyHasOneOwner

\* Revoking a family never reaches a second user's sessions.
THEOREM OneOwner == Spec => []FamilyHasOneOwner
BY InvOneOwner, Invariance, PTL

\* A token that was revoked or expired on arrival is never rotated, whatever
\* other requests, failures and crashes do between the arrival and the answer.
THEOREM SpentNeverRotates == Spec => []SpentTokenNeverRotates
<1>1. Inv => SpentTokenNeverRotates
  BY DEF Inv, SpentStaysOut, SpentTokenNeverRotates
<1> QED
  BY <1>1, Invariance, PTL

\* Every refresh that was answered has revoked the row of the token it was
\* called with, and that row names the digest of a token rotated from it.
THEOREM RefreshConsumes == Spec => []RefreshConsumesToken
<1>1. ASSUME TypeOK, Inv PROVE RefreshConsumesToken
  <2> SUFFICES ASSUME NEW r \in Request, op[r] = "refresh", answer[r] = "ok"
               PROVE  /\ revoked[token[r].row]
                      /\ \E q \in rows :
                           /\ replacedBy[token[r].row] = hash[q]
                           /\ token[q] = token[r]
                           /\ family[q] = family[token[r].row]
    BY DEF RefreshConsumesToken
  <2>1. r \in rows /\ revoked[found[r]] /\ replacedBy[found[r]] # NONE
    BY <1>1 DEF Inv, ReplacementIsRotation
  <2>2. found[r] \in Request /\ token[r] = RefreshToken(found[r])
    BY <1>1, <2>1 DEF Inv, FoundIsRowOfToken, TypeOK
  <2>3. PICK q \in rows : /\ replacedBy[found[r]] = hash[q]
                          /\ op[q] = "refresh" /\ found[q] = found[r]
    BY <1>1, <2>1, <2>2 DEF Inv, ReplacementIsRotation
  <2>4. q \in Request
    BY <1>1 DEF TypeOK
  <2>5. token[q] = RefreshToken(found[r])
    BY <1>1, <2>3, <2>4 DEF Inv, FoundIsRowOfToken
  <2>6. family[q] = family[found[r]]
    BY <1>1, <2>3, <2>4 DEF Inv, FoundIsRowOfToken, RowIsFromItsRequest
  <2> QED
    BY <2>1, <2>2, <2>3, <2>5, <2>6, TokenFacts
<1> QED
  BY <1>1, Invariance, PTL

-----------------------------------------------------------------------------
(* The action properties. *)

\* No step writes to an existing row's owner or family.
LEMMA RowsKeepTheirFamily ==
    ASSUME TypeOK, Inv, [Next]_vars, NEW s \in rows
    PROVE  s \in rows' /\ owner'[s] = owner[s] /\ family'[s] = family[s]
<1> USE DEF TypeOK, Goto, Return
<1>1. ASSUME NEW r \in Request, CreateSession(r)
      PROVE  s \in rows' /\ owner'[s] = owner[s] /\ family'[s] = family[s]
  <2>1. r # s
    BY <1>1 DEF CreateSession, Inv, LocationTellsProgress
  <2> QED
    BY <1>1, <2>1 DEF CreateSession
<1>2. CASE UNCHANGED <<rows, owner, family>>
  BY <1>2
<1> QED
  BY <1>1, <1>2 DEF Next, Begin, Step, Environment, BeginLogin, BeginRefresh,
     BeginLogout, Present, RefreshFind, RevokeFamily, UniqueViolation, StoreHash,
     SetReplacement, RevokeSession, LogoutFind, DbFails, Crash, Expire, Lapse, vars

\* Whatever tokens clients send, a session ends only for a request that presented
\* a refresh token of its family and user, or an access token to refreshTokens; it
\* never comes back and never moves.
THEOREM SessionsEndForTheirFamily == Spec => RevokedOnBehalfOfOwner
<1>1. ASSUME TypeOK, Inv, [Next]_vars PROVE RevocationStep
  <2> SUFFICES ASSUME NEW s \in rows
               PROVE  /\ revoked[s] => revoked'[s]
                      /\ revoked'[s] /\ ~revoked[s] =>
                           \E r \in Request : EndsSessionOf(r, s)
    BY <1>1, RowsKeepTheirFamily DEF RevocationStep
  <2> USE <1>1
  <2>1. ASSUME NEW r \in Request, RevokeFamily(r)
        PROVE  /\ revoked[s] => revoked'[s]
               /\ revoked'[s] /\ ~revoked[s] => EndsSessionOf(r, s)
    <3>1. op[r] = "refresh" /\ fam[r] = payloadFamily(token[r])
      BY <2>1 DEF RevokeFamily, Inv, PresentedTokenIsHeld
    <3>2. token[r] \in Token /\ Held(token[r])
      BY <3>1 DEF Inv, PresentedTokenIsHeld, TypeOK
    <3>3. /\ pc[r] = "revokeFamily" /\ pc'[r] = "done"
          /\ revoked[s] => revoked'[s]
          /\ revoked'[s] => revoked[s] \/ fam[r] \in {NONE, family[s]}
      BY <2>1 DEF RevokeFamily, Return, TypeOK
    <3>4. CASE token[r].kind = "refresh"
      <4>1. token[r].row \in rows
        BY <3>2, <3>4, TokenFacts DEF Inv, HeldTokenIsStored, Held, RefreshToken
      <4>2. fam[r] = family[token[r].row] /\ fam[r] # NONE
        BY <3>1, <3>4, <4>1, TokenFacts
        DEF payloadFamily, Inv, RowIsFromItsRequest
      <4>3. fam[r] = family[s] => owner[token[r].row] = owner[s]
        BY <4>1, <4>2, InvOneOwner DEF FamilyHasOneOwner
      <4> QED
        BY <3>3, <3>4, <4>2, <4>3 DEF EndsSessionOf
    <3>5. CASE token[r].kind # "refresh"
      BY <3>1, <3>3, <3>5 DEF EndsSessionOf
    <3> QED
      BY <3>4, <3>5
  <2>2. ASSUME NEW r \in Request, RevokeSession(r)
        PROVE  /\ revoked[s] => revoked'[s]
               /\ revoked'[s] /\ ~revoked[s] => EndsSessionOf(r, s)
    <3>1. op[r] \in {"refresh", "logout"}
      BY <2>2 DEF RevokeSession, Inv, LocationTellsProgress, TypeOK
    <3>2. token[r] = RefreshToken(found[r]) /\ found[r] \in Request
      BY <2>2, <3>1 DEF RevokeSession, Inv, FoundIsRowOfToken, TypeOK
    <3>3. token[r].kind = "refresh" /\ token[r].row = found[r]
      BY <3>2 DEF RefreshToken
    <3>4. /\ pc[r] = "revoke" /\ pc'[r] = "done"
          /\ revoked[s] => revoked'[s]
          /\ revoked'[s] /\ ~revoked[s] => s = found[r]
      BY <2>2 DEF RevokeSession, Return, TypeOK
    <3> QED
      BY <3>3, <3>4 DEF EndsSessionOf
  <2>3. CASE UNCHANGED revoked
    BY <2>3
  <2> QED
    BY <2>1, <2>2, <2>3 DEF Next, Begin, Step, Environment, BeginLogin,
       BeginRefresh, BeginLogout, Present, RefreshFind, CreateSession,
       UniqueViolation, StoreHash, SetReplacement, LogoutFind, DbFails, Crash,
       Expire, Lapse, vars
<1> QED
  BY <1>1, Invariance, PTL DEF Spec, RevokedOnBehalfOfOwner

LEMMA PendingNext ==
    TypeOK /\ Inv /\ PendingHasCause /\ [Next]_vars => PendingHasCause'
<1> SUFFICES ASSUME TypeOK, Inv, PendingHasCause, [Next]_vars PROVE PendingHasCause'
  OBVIOUS
<1> USE DEF TypeOK, PendingHasCause, Goto, Return
<1>1. ASSUME NEW r \in Request, CreateSession(r) PROVE PendingHasCause'
  BY <1>1 DEF CreateSession, locals, history
<1>2. ASSUME NEW r \in Request, StoreHash(r) PROVE PendingHasCause'
  <2>1. hashToken(RefreshToken(r)) # PENDING
    BY ConstantsAssumption, TokenFacts DEF Digest
  <2>2. /\ rows' = rows /\ faulted' = faulted /\ hash'[r] # PENDING
        /\ \A s \in Request \ {r} : hash'[s] = hash[s] /\ pc'[s] = pc[s]
    BY <1>2, <2>1 DEF StoreHash, locals, history
  <2> QED
    BY <2>2
<1>3. ASSUME rows' = rows, hash' = hash, faulted \subseteq faulted',
             \A s \in rows : pc[s] = "store" => pc'[s] = "store" \/ s \in faulted'
      PROVE  PendingHasCause'
  BY <1>3
<1>4. ASSUME NEW r \in Request, DbFails(r) PROVE PendingHasCause'
  <2>1. \A s \in rows : pc[s] = "store" => pc'[s] = "store" \/ s \in faulted'
    BY <1>4 DEF DbFails
  <2> QED
    BY <1>3, <1>4, <2>1 DEF DbFails, table
<1>5. ASSUME Crash PROVE PendingHasCause'
  <2>1. \A s \in rows : pc[s] = "store" => s \in faulted'
    BY <1>5 DEF Crash, InFlight
  <2> QED
    BY <1>3, <1>5, <2>1 DEF Crash, table
<1>6. ASSUME NEW r \in Request, Begin(r) PROVE PendingHasCause'
  <2>1. pc[r] = "idle" /\ \A s \in Request \ {r} : pc'[s] = pc[s]
    BY <1>6 DEF Begin, BeginLogin, BeginRefresh, BeginLogout, Present
  <2>2. rows' = rows /\ hash' = hash /\ faulted' = faulted
    BY <1>6 DEF Begin, BeginLogin, BeginRefresh, BeginLogout, Present, table, history
  <2> QED
    BY <1>3, <2>1, <2>2
<1>7. ASSUME NEW r \in Request,
             \/ RefreshFind(r) \/ RevokeFamily(r) \/ UniqueViolation(r)
             \/ SetReplacement(r) \/ RevokeSession(r) \/ LogoutFind(r)
      PROVE  PendingHasCause'
  <2>1. pc[r] # "store" /\ \A s \in Request \ {r} : pc'[s] = pc[s]
    BY <1>7 DEF RefreshFind, RevokeFamily, UniqueViolation, SetReplacement,
       RevokeSession, LogoutFind
  <2>2. rows' = rows /\ hash' = hash /\ faulted' = faulted
    BY <1>7 DEF RefreshFind, RevokeFamily, UniqueViolation, SetReplacement,
       RevokeSession, LogoutFind, table, history
  <2> QED
    BY <1>3, <2>1, <2>2
<1>8. ASSUME (\E s \in Request : Expire(s)) \/ (\E t \in Token : Lapse(t)) \/ UNCHANGED vars
      PROVE  PendingHasCause'
  BY <1>8 DEF Expire, Lapse, vars, table, history
<1> QED
  BY <1>1, <1>2, <1>4, <1>5, <1>6, <1>7, <1>8 DEF Next, Step, Environment

\* A request that neither failed nor brought a lapsed token is refused only by a
\* row left PENDING, and then it has written nothing.
THEOREM RefusalsAreCollisions == Spec => RefusedByCollision
<1>1. Init => PendingHasCause
  BY DEF Init, PendingHasCause
<1>2. ASSUME TypeOK, Inv, PendingHasCause, [Next]_vars PROVE RefusalStep
  <2> SUFFICES ASSUME NEW q \in Request, answer[q] = NONE,
                      answer'[q] \in {"invalid", "error"}
               PROVE  \/ token'[q] \in lapsed
                      \/ q \in faulted'
                      \/ /\ op[q] # "logout" /\ q \notin rows /\ UNCHANGED table
                         /\ \E s \in rows : /\ hash[s] = PENDING
                                            /\ pc[s] = "store" \/ s \in faulted
    BY DEF RefusalStep
  <2> USE <1>2, ConstantsAssumption DEF TypeOK, Goto, Return
  <2>1. ASSUME NEW r \in Request, UniqueViolation(r) PROVE q = r
    BY <2>1 DEF UniqueViolation
  <2>2. ASSUME UniqueViolation(q)
        PROVE  /\ op[q] # "logout" /\ q \notin rows /\ UNCHANGED table
               /\ \E s \in rows : /\ hash[s] = PENDING
                                  /\ pc[s] = "store" \/ s \in faulted
    BY <2>2 DEF UniqueViolation, PendingHasCause, Inv, LocationTellsProgress
  <2>3. ASSUME NEW r \in Request, DbFails(r) PROVE q \in faulted'
    BY <2>3 DEF DbFails
  <2>4. ASSUME NEW r \in Request, NEW t \in Token, BeginRefresh(r, t)
        PROVE  token'[q] \in lapsed
    BY <2>4 DEF BeginRefresh, Present
  <2>5. ASSUME NEW r \in Request,
               \/ \E u \in User : BeginLogin(r, u)
               \/ \E t \in Token : BeginLogout(r, t)
               \/ RefreshFind(r) \/ RevokeFamily(r) \/ CreateSession(r)
               \/ StoreHash(r) \/ SetReplacement(r) \/ RevokeSession(r)
               \/ LogoutFind(r)
        PROVE  FALSE
    BY <2>5 DEF BeginLogin, BeginLogout, Present, RefreshFind, RevokeFamily,
       CreateSession, StoreHash, SetReplacement, RevokeSession, LogoutFind
  <2>6. CASE UNCHANGED answer
    BY <2>6
  <2> QED
    BY <2>1, <2>2, <2>3, <2>4, <2>5, <2>6
    DEF Next, Begin, Step, Environment, Crash, Expire, Lapse, vars
<1> QED
  BY <1>1, <1>2, PendingNext, TypeCorrect, Invariance, PTL DEF Spec, RefusedByCollision

\* A family whose rows are all revoked, with no refresh of it between lookup
\* and insert, stays so under every later step.
THEOREM DeadFamilies == Spec => DeadFamilyStaysDead
<1>1. ASSUME TypeOK, Inv, [Next]_vars PROVE ClosedStaysClosed
  <2> SUFFICES ASSUME NEW f \in rows, Closed(f) PROVE Closed(f)'
    BY DEF ClosedStaysClosed
  <2> USE <1>1 DEF TypeOK, Goto, Return
  <2>1. ASSUME NEW r \in Request, RefreshFind(r) PROVE Closed(f)'
    <3>1. pc'[r] = "create" => fam'[r] # f
      BY <2>1 DEF RefreshFind, Closed, FamilyDead, Dead
    <3>2. \A q \in Request \ {r} : pc'[q] = pc[q] /\ fam'[q] = fam[q]
      BY <2>1 DEF RefreshFind
    <3>3. pc'[r] # "store" /\ UNCHANGED <<rows, family, revoked>>
      BY <2>1 DEF RefreshFind
    <3> QED
      BY <3>1, <3>2, <3>3 DEF Closed, FamilyDead, NoneRotating
  <2>2. ASSUME NEW r \in Request, CreateSession(r) PROVE Closed(f)'
    <3>1. fam[r] # f /\ r \notin rows
      BY <2>2 DEF CreateSession, Closed, NoneRotating, Inv, LocationTellsProgress
    <3> QED
      BY <2>2, <3>1 DEF CreateSession, Closed, FamilyDead, NoneRotating
  <2>3. ASSUME NEW r \in Request, NEW u \in User, BeginLogin(r, u) PROVE Closed(f)'
    <3>1. r # f
      BY <2>3 DEF BeginLogin, Inv, LocationTellsProgress
    <3> QED
      BY <2>3, <3>1 DEF BeginLogin, Closed, FamilyDead, NoneRotating
  <2>4. ASSUME \/ \E r \in Request : RevokeFamily(r) \/ RevokeSession(r),
               NEW s \in rows
        PROVE  revoked[s] => revoked'[s]
    BY <2>4 DEF RevokeFamily, RevokeSession
  <2>5. ASSUME NEW r \in Request, RevokeFamily(r) \/ RevokeSession(r)
        PROVE Closed(f)'
    BY <2>4, <2>5 DEF RevokeFamily, RevokeSession, Closed, FamilyDead, NoneRotating
  <2>6. CASE \E r \in Request : \/ \E t \in Token : BeginRefresh(r, t) \/ BeginLogout(r, t)
                               \/ UniqueViolation(r) \/ StoreHash(r)
                               \/ SetReplacement(r) \/ LogoutFind(r)
    BY <2>6 DEF BeginRefresh, BeginLogout, Present, UniqueViolation, StoreHash,
       SetReplacement, LogoutFind, Closed, FamilyDead, NoneRotating
  <2>7. CASE Environment \/ UNCHANGED vars
    BY <2>7 DEF Environment, DbFails, Crash, Expire, Lapse, vars, Closed,
       FamilyDead, NoneRotating
  <2> QED
    BY <2>1, <2>2, <2>3, <2>5, <2>6, <2>7 DEF Next, Begin, Step
<1> QED
  BY <1>1, Invariance, PTL DEF Spec, DeadFamilyStaysDead

-----------------------------------------------------------------------------
(***************************************************************************)
(* That login, refresh and logout, one request at a time, implement the    *)
(* rotation of AuthRotation, for any sets of requests and users and any    *)
(* number of faults.  The argument: of a family's tokens at most one would *)
(* work, a refresh that goes on past its lookup holds that one, and only   *)
(* the last statement of a request changes which one it is.                *)
(***************************************************************************)

(* A request's own steps. *)

Acts(r) == (Quiet /\ Begin(r)) \/ Step(r) \/ DbFails(r)

\* Time passes, or everything in flight is lost.
Elapses == Crash \/ (\E s \in Request : Expire(s)) \/ (\E t \in Token : Lapse(t))

LEMMA SerialNextIsAStep ==
    /\ SerialNext => Next
    /\ SerialNext => (\E r \in Request : Acts(r)) \/ Elapses
BY DEF SerialNext, Next, Acts, Elapses, Environment

HeldRow(s) == Held(RefreshToken(s))

\* What a step of r leaves alone.
Frame(r) ==
    /\ \A q \in Request \ {r} :
         /\ pc'[q] = pc[q] /\ op'[q] = op[q] /\ token'[q] = token[q] /\ found'[q] = found[q]
         /\ fam'[q] = fam[q] /\ answer'[q] = answer[q] /\ hash'[q] = hash[q]
         /\ q \in spent' <=> q \in spent
         /\ q \in faulted' <=> q \in faulted
    /\ pc[r] # "done" /\ answer[r] = NONE /\ pc'[r] # "idle"
    /\ pc[r] # "idle" => op'[r] = op[r] /\ token'[r] = token[r] /\ (r \in spent' <=> r \in spent)
    /\ rows \subseteq rows' /\ rows' \subseteq rows \cup {r}
    /\ \A s \in rows : family'[s] = family[s]
    /\ expired' = expired /\ lapsed' = lapsed

LEMMA ActsFrame ==
    ASSUME TypeOK, Inv, AnswersComeLast, NEW r \in Request, Acts(r)
    PROVE  Frame(r)
<1> USE DEF Goto, Return, TypeOK
<1>1. ASSUME NEW u \in User, BeginLogin(r, u) PROVE Frame(r)
  BY <1>1 DEF BeginLogin, AnswersComeLast, Frame
<1>2. ASSUME NEW t \in Token, BeginRefresh(r, t) PROVE Frame(r)
  BY <1>2 DEF BeginRefresh, Present, AnswersComeLast, Frame
<1>3. ASSUME NEW t \in Token, BeginLogout(r, t) PROVE Frame(r)
  BY <1>3 DEF BeginLogout, Present, AnswersComeLast, Frame
<1>4. ASSUME RefreshFind(r) PROVE Frame(r)
  BY <1>4 DEF RefreshFind, AnswersComeLast, Frame
<1>5. ASSUME RevokeFamily(r) PROVE Frame(r)
  BY <1>5 DEF RevokeFamily, AnswersComeLast, Frame
<1>6. ASSUME CreateSession(r) PROVE Frame(r)
  <2>1. r \notin rows
    BY <1>6 DEF CreateSession, Inv, LocationTellsProgress
  <2> QED
    BY <1>6, <2>1 DEF CreateSession, AnswersComeLast, Frame
<1>7. ASSUME UniqueViolation(r) PROVE Frame(r)
  BY <1>7 DEF UniqueViolation, AnswersComeLast, Frame
<1>8. ASSUME StoreHash(r) PROVE Frame(r)
  BY <1>8 DEF StoreHash, AnswersComeLast, Frame
<1>9. ASSUME SetReplacement(r) PROVE Frame(r)
  BY <1>9 DEF SetReplacement, AnswersComeLast, Frame
<1>10. ASSUME RevokeSession(r) PROVE Frame(r)
  BY <1>10 DEF RevokeSession, AnswersComeLast, Frame
<1>11. ASSUME LogoutFind(r) PROVE Frame(r)
  BY <1>11 DEF LogoutFind, AnswersComeLast, Frame
<1>12. ASSUME DbFails(r) PROVE Frame(r)
  BY <1>12 DEF DbFails, InFlight, AnswersComeLast, Frame
<1> QED
  BY <1>1, <1>2, <1>3, <1>4, <1>5, <1>6, <1>7, <1>8, <1>9, <1>10, <1>11, <1>12
     DEF Acts, Begin, Step

-----------------------------------------------------------------------------
(* Answers, rows left PENDING, and one request at a time. *)

LEMMA AnswersKeep ==
    ASSUME TypeOK, Inv, AnswersComeLast, NEW r \in Request, Acts(r)
    PROVE  AnswersComeLast'
<1> USE DEF Goto, Return, TypeOK
<1>0. Frame(r)
  BY ActsFrame
<1>1. ASSUME /\ pc'[r] # "done" => answer'[r] = NONE
             /\ token'[r] # NONE => op'[r] \in {"refresh", "logout"}
             /\ r \in faulted' => pc'[r] = "done"
             /\ r \in rows' /\ hash'[r] = PENDING => pc'[r] = "store" \/ r \in faulted'
      PROVE  AnswersComeLast'
  <2>1. faulted \subseteq Request /\ faulted' \subseteq Request
    BY NextTypeOK DEF Acts, Begin, Step, BeginLogin, BeginRefresh, BeginLogout, Present, RefreshFind,
       RevokeFamily, CreateSession, UniqueViolation, StoreHash, SetReplacement, RevokeSession,
       LogoutFind, DbFails
  <2>2. \A q \in Request : /\ pc'[q] # "done" => answer'[q] = NONE
                           /\ token'[q] # NONE => op'[q] \in {"refresh", "logout"}
    BY <1>0, <1>1 DEF Frame, AnswersComeLast, PendingHasCause
  <2>3. \A q \in faulted' : pc'[q] = "done"
    BY <1>0, <1>1, <2>1 DEF Frame, AnswersComeLast, PendingHasCause
  <2>4. \A s \in rows' : hash'[s] = PENDING => pc'[s] = "store" \/ s \in faulted'
    BY <1>0, <1>1 DEF Frame, AnswersComeLast, PendingHasCause
  <2> QED
    BY <2>2, <2>3, <2>4 DEF AnswersComeLast, PendingHasCause
<1>2. r \notin faulted /\ (token[r] # NONE => op[r] \in {"refresh", "logout"})
  BY <1>0 DEF Frame, AnswersComeLast, PendingHasCause
<1>3. ASSUME NEW u \in User, BeginLogin(r, u) PROVE AnswersComeLast'
  <2>1. r \notin rows' /\ op[r] = NONE
    BY <1>3 DEF BeginLogin, Inv, LocationTellsProgress
  <2> QED
    BY <1>0, <1>1, <1>2, <1>3, <2>1, TokenFacts DEF BeginLogin, Frame
<1>4. ASSUME NEW t \in Token, BeginRefresh(r, t) \/ BeginLogout(r, t) PROVE AnswersComeLast'
  <2>1. r \notin rows'
    BY <1>4 DEF BeginRefresh, BeginLogout, Present, Inv, LocationTellsProgress
  <2> QED
    BY <1>0, <1>1, <1>2, <1>4, <2>1 DEF BeginRefresh, BeginLogout, Present, Frame
<1>5. ASSUME RefreshFind(r) \/ LogoutFind(r) PROVE AnswersComeLast'
  <2>1. r \notin rows'
    BY <1>5 DEF RefreshFind, LogoutFind, Inv, LocationTellsProgress
  <2> QED
    BY <1>0, <1>1, <1>2, <1>5, <2>1 DEF RefreshFind, LogoutFind, Frame
<1>6. ASSUME RevokeFamily(r) \/ UniqueViolation(r) PROVE AnswersComeLast'
  <2>1. r \notin rows'
    BY <1>6 DEF RevokeFamily, UniqueViolation, Inv, LocationTellsProgress
  <2> QED
    BY <1>0, <1>1, <1>2, <1>6, <2>1 DEF RevokeFamily, UniqueViolation, Frame
<1>7. ASSUME CreateSession(r) PROVE AnswersComeLast'
  BY <1>0, <1>1, <1>2, <1>7 DEF CreateSession, Frame
<1>8. ASSUME StoreHash(r) PROVE AnswersComeLast'
  <2>1. hash'[r] # PENDING
    BY <1>8, TokenFacts DEF StoreHash
  <2> QED
    BY <1>0, <1>1, <1>2, <1>8, <2>1 DEF StoreHash, Frame
<1>9. ASSUME SetReplacement(r) \/ RevokeSession(r) PROVE AnswersComeLast'
  <2>1. r \in rows' => hash'[r] # PENDING
    BY <1>9, TokenFacts DEF SetReplacement, RevokeSession, Inv, RowIsFromItsRequest
  <2> QED
    BY <1>0, <1>1, <1>2, <1>9, <2>1 DEF SetReplacement, RevokeSession, Frame
<1>10. ASSUME DbFails(r) PROVE AnswersComeLast'
  BY <1>0, <1>1, <1>2, <1>10 DEF DbFails, Frame
<1> QED
  BY <1>3, <1>4, <1>5, <1>6, <1>7, <1>8, <1>9, <1>10 DEF Acts, Begin, Step

LEMMA OneKeeps ==
    ASSUME TypeOK, Inv, AnswersComeLast, OneInFlight, NEW r \in Request, Acts(r)
    PROVE  /\ OneInFlight'
           /\ \A q \in Request \ {r} : ~InFlight(q) /\ ~InFlight(q)'
<1>1. Frame(r)
  BY ActsFrame
<1>2. Quiet \/ InFlight(r)
  BY DEF Acts, Step, RefreshFind, RevokeFamily, CreateSession, UniqueViolation, StoreHash,
     SetReplacement, RevokeSession, LogoutFind, DbFails, InFlight
<1>3. \A q \in Request \ {r} : ~InFlight(q) /\ ~InFlight(q)'
  BY <1>1, <1>2 DEF Quiet, OneInFlight, InFlight, Frame
<1> QED
  BY <1>3 DEF OneInFlight

LEMMA ElapsesKeeps ==
    ASSUME TypeOK, AnswersComeLast, OneInFlight, Elapses
    PROVE  AnswersComeLast' /\ OneInFlight'
<1>1. CASE Crash
  BY <1>1 DEF Crash, InFlight, TypeOK, Location, AnswersComeLast, PendingHasCause, OneInFlight
<1>2. CASE ~Crash
  BY <1>2 DEF Elapses, Expire, Lapse, AnswersComeLast, PendingHasCause, OneInFlight, InFlight
<1> QED
  BY <1>1, <1>2

-----------------------------------------------------------------------------
(* Refusals. *)

LEMMA RefusalKeeps ==
    ASSUME TypeOK, Inv, AnswersComeLast, OneInFlight, RefusalIsExplained,
           NEW r \in Request, Acts(r)
    PROVE  RefusalIsExplained'
<1> USE DEF Goto, Return, TypeOK
<1> DEFINE Explained(q) == answer[q] \in {"invalid", "error"} =>
               \/ token[q] \in lapsed
               \/ q \in faulted
               \/ op[q] # "logout" /\ \E s \in rows \cap faulted : hash[s] = PENDING
<1>0. Frame(r) /\ \A q \in Request \ {r} : ~InFlight(q)
  BY ActsFrame, OneKeeps
\* A row left PENDING by a failure stays so.
<1>1. ASSUME NEW s \in rows \cap faulted, hash[s] = PENDING
      PROVE  s \in rows' \cap faulted' /\ hash'[s] = PENDING
  <2>1. pc[s] = "done" /\ s # r
    BY <1>0, <1>1 DEF Frame, AnswersComeLast, PendingHasCause
  <2> QED
    BY <1>0, <1>1, <2>1 DEF Frame
<1>2. ASSUME NEW q \in Request \ {r} PROVE Explained(q)'
  <2>1. Explained(q)
    BY DEF RefusalIsExplained
  <2>2. /\ answer'[q] = answer[q] /\ token'[q] = token[q] /\ op'[q] = op[q] /\ lapsed' = lapsed
        /\ q \in faulted => q \in faulted'
    BY <1>0 DEF Frame
  <2> QED
    BY <1>1, <2>1, <2>2
<1>3. ASSUME answer'[r] \notin {"invalid", "error"} PROVE Explained(r)'
  BY <1>3
<1>4. answer[r] = NONE /\ NONE \notin {"invalid", "error"}
  BY <1>0, TokenFacts DEF Frame
<1>5. ASSUME NEW t \in Token, BeginRefresh(r, t) PROVE Explained(r)'
  <2>1. CASE t \in lapsed
    BY <1>0, <1>5, <2>1 DEF BeginRefresh, Present, Frame
  <2>2. CASE t \notin lapsed
    BY <1>4, <1>5, <2>2 DEF BeginRefresh
  <2> QED
    BY <2>1, <2>2
<1>6. ASSUME UniqueViolation(r) PROVE Explained(r)'
  <2>1. pc[r] = "create" /\ op[r] # "logout" /\ r \notin rows /\ op' = op
    BY <1>6 DEF UniqueViolation, Inv, LocationTellsProgress
  <2>2. PICK s \in rows : hash[s] = PENDING
    BY <1>6 DEF UniqueViolation
  <2>3. s \in Request \ {r} /\ ~InFlight(s)
    BY <1>0, <2>1, <2>2
  <2>4. s \in faulted
    BY <2>2, <2>3 DEF AnswersComeLast, PendingHasCause, InFlight
  <2> QED
    BY <1>1, <2>1, <2>2, <2>4
<1>7. ASSUME DbFails(r) PROVE Explained(r)'
  BY <1>7 DEF DbFails
<1>8. Explained(r)'
  <2>1. CASE \E u \in User : BeginLogin(r, u)
    BY <1>3, <1>4, <2>1 DEF BeginLogin
  <2>2. CASE \E t \in Token : BeginLogout(r, t)
    BY <1>3, <1>4, <2>2 DEF BeginLogout
  <2>3. CASE \/ RefreshFind(r) \/ CreateSession(r) \/ StoreHash(r) \/ SetReplacement(r)
             \/ RevokeFamily(r) \/ RevokeSession(r) \/ LogoutFind(r)
    <3>1. answer'[r] \in {answer[r], "ok", "reused"}
      BY <2>3 DEF RefreshFind, CreateSession, StoreHash, SetReplacement, RevokeFamily,
         RevokeSession, LogoutFind
    <3> QED
      BY <1>3, <1>4, <3>1
  <2> QED
    BY <1>5, <1>6, <1>7, <2>1, <2>2, <2>3 DEF Acts, Begin, Step
<1> QED
  BY <1>2, <1>8 DEF RefusalIsExplained

LEMMA ElapsesExplains ==
    ASSUME TypeOK, RefusalIsExplained, Elapses
    PROVE  RefusalIsExplained'
BY DEF Elapses, Crash, Expire, Lapse, RefusalIsExplained

-----------------------------------------------------------------------------
(* Tokens in the hands of clients. *)

\* The row of a token a client holds is there, and its request is over.
LEMMA HeldFacts ==
    ASSUME TypeOK, Inv
    PROVE  /\ \A s \in Request : HeldRow(s) =>
                /\ s \in rows /\ family[s] \in Request /\ pc[s] = "done" /\ answer[s] = "ok"
                /\ op[s] \in {"login", "refresh"} /\ hash[s] = hashToken(RefreshToken(s))
           /\ \A s \in Request : Usable(s) <=> HeldRow(s) /\ ~Dead(s)
<1>1. ASSUME NEW s \in Request, HeldRow(s)
      PROVE  /\ s \in rows /\ family[s] \in Request /\ pc[s] = "done" /\ answer[s] = "ok"
             /\ op[s] \in {"login", "refresh"} /\ hash[s] = hashToken(RefreshToken(s))
  BY <1>1, TokenFacts DEF HeldRow, Held, Inv, HeldTokenIsStored, LocationTellsProgress,
     RowIsFromItsRequest
<1> QED
  BY <1>1 DEF Usable, HeldRow

\* The refresh token a request came with.
LEMMA TokensAreHeld ==
    ASSUME TypeOK, Inv, AnswersComeLast, NEW r \in Request, token[r] # NONE, token[r].kind = "refresh"
    PROVE  /\ token[r].row \in Request /\ token[r] = RefreshToken(token[r].row)
           /\ HeldRow(token[r].row)
<1>1. op[r] \in {"refresh", "logout"} /\ token[r] \in Token
  BY DEF AnswersComeLast, PendingHasCause, TypeOK
<1>2. token[r].row \in Request /\ token[r] = RefreshToken(token[r].row)
  BY <1>1 DEF Token, RefreshToken
<1> QED
  BY <1>1, <1>2 DEF Inv, PresentedTokenIsHeld, HeldRow

\* A token that was rotated is dead.
LEMMA RotatedIsDead ==
    ASSUME TypeOK, Inv, NEW s \in Rotated
    PROVE  s \in Request /\ HeldRow(s) /\ Dead(s)
<1>1. PICK r \in Request : op[r] = "refresh" /\ answer[r] = "ok" /\ token[r].row = s
  BY DEF Rotated
<1>2. r \in rows /\ revoked[found[r]]
  BY <1>1 DEF Inv, ReplacementIsRotation
<1>3. found[r] \in rows /\ token[r] = RefreshToken(found[r])
  BY <1>1, <1>2 DEF Inv, FoundIsRowOfToken
<1>4. found[r] = s /\ s \in Request
  BY <1>1, <1>3 DEF RefreshToken, TypeOK
<1> QED
  BY <1>1, <1>2, <1>3, <1>4 DEF Inv, PresentedTokenIsHeld, HeldRow, Dead

\* The login of a family came before the rest of it.
LEMMA FirstIsHeld ==
    ASSUME TypeOK, Inv, FamilyIsHeld, NEW s \in Request, HeldRow(s)
    PROVE  HeldRow(family[s])
<1>1. s \in rows /\ op[s] \in {"login", "refresh"}
  BY HeldFacts
<1>2. op[s] = "login" => family[s] = s
  BY <1>1 DEF Inv, LocationTellsProgress, RowIsFromItsRequest
<1> QED
  BY <1>1, <1>2 DEF FamilyIsHeld, HeldRow

LEMMA HeldStays ==
    ASSUME TypeOK, Inv, NEW r \in Request, Frame(r), NEW s \in Request, HeldRow(s)
    PROVE  HeldRow(s)' /\ s # r /\ family'[s] = family[s]
<1>1. s # r /\ s \in rows
  BY HeldFacts DEF Frame
<1> QED
  BY <1>1, TokenFacts DEF Frame, HeldRow, Held

LEMMA FamilyKeeps ==
    ASSUME TypeOK, TypeOK', Inv, AnswersComeLast, FamilyIsHeld, NEW r \in Request, Acts(r)
    PROVE  FamilyIsHeld'
<1>0. Frame(r)
  BY ActsFrame
<1> SUFFICES ASSUME NEW s \in rows', op'[s] = "refresh" PROVE Held(RefreshToken(family[s]))'
  BY DEF FamilyIsHeld
\* It is enough that the new family is a row held before.
<1>1. ASSUME NEW f \in Request, family'[s] = f, HeldRow(f)
      PROVE  Held(RefreshToken(family[s]))'
  <2>1. HeldRow(f)'
    BY <1>0, <1>1, HeldStays
  <2> QED
    BY <1>1, <2>1 DEF HeldRow, Held, RefreshToken
<1>2. CASE s \in rows
  <2>1. op'[s] = op[s] /\ family'[s] = family[s] /\ s \in Request
    BY <1>0, <1>2 DEF Frame, TypeOK, Inv, LocationTellsProgress
  <2>2. HeldRow(family[s]) /\ family[s] \in Request
    BY <1>2, <2>1 DEF FamilyIsHeld, HeldRow, Inv, RowIsFromItsRequest
  <2> QED
    BY <1>1, <2>1, <2>2
<1>3. CASE s \notin rows
  <2>1. CreateSession(r) /\ s = r
    BY <1>0, <1>3 DEF Acts, Begin, Step, BeginLogin, BeginRefresh, BeginLogout, Present, RefreshFind,
       RevokeFamily, UniqueViolation, StoreHash, SetReplacement, RevokeSession,
       LogoutFind, DbFails, Frame
  <2>2. op[r] = "refresh" /\ pc[r] = "create" /\ family'[r] = fam[r]
    BY <2>1 DEF CreateSession, TypeOK
  <2>3. /\ found[r] \in rows /\ token[r] = RefreshToken(found[r]) /\ fam[r] = family[found[r]]
    BY <2>2 DEF Inv, FoundIsRowOfToken
  <2>4. HeldRow(found[r]) /\ found[r] \in Request
    BY <2>2, <2>3 DEF Inv, PresentedTokenIsHeld, HeldRow, TypeOK
  <2>5. HeldRow(fam[r]) /\ fam[r] \in Request
    BY <2>3, <2>4, FirstIsHeld, HeldFacts
  <2> QED
    BY <1>1, <2>1, <2>2, <2>5
<1> QED
  BY <1>2, <1>3

-----------------------------------------------------------------------------
(* What a step may do to the families: take tokens away, end one family, or *)
(* hand out one token in the place of the last.                             *)

\* Tokens handed out keep their families, and no family is reopened.
Lasts ==
    /\ \A s \in Request : HeldRow(s) => HeldRow(s)' /\ family'[s] = family[s]
    /\ \A f \in Request : Over(f) => Over(f)'

\* Nothing new, and nothing works that did not.
Fade ==
    /\ Lasts /\ Rotated' = Rotated
    /\ \A s \in Request : /\ HeldRow(s)' => HeldRow(s)
                          /\ Usable(s)' => Usable(s)
    /\ \A f \in Request : Over(f)' => Over(f)

\* The tokens of f, which clients have been given, stop working, for good.
Ending(f) ==
    /\ \E s \in Request : HeldRow(s) /\ family[s] = f
    /\ Lasts /\ Rotated' = Rotated
    /\ \A s \in Request : /\ HeldRow(s)' => HeldRow(s)
                          /\ Usable(s)' <=> Usable(s) /\ family[s] # f
    /\ \A g \in Request : Over(g)' <=> Over(g) \/ g = f

\* t is handed out, and of its family f nothing else works.
Handing(f, t) ==
    /\ Lasts /\ ~Over(f)
    /\ ~HeldRow(t) /\ HeldRow(t)' /\ family'[t] = f
    /\ \A s \in Request \ {t} : /\ HeldRow(s)' => HeldRow(s)
                                /\ Usable(s)' <=> Usable(s) /\ family[s] # f
    /\ \A g \in Request : Over(g)' => Over(g)

\* In each of these steps a family keeps at most one token that works.
LEMMA AloneKeeps ==
    ASSUME TypeOK, Inv, TypeOK', Inv', CurrentIsAlone,
           Fade \/ (\E f \in Request : Ending(f) \/ \E t \in Request : Handing(f, t))
    PROVE  CurrentIsAlone'
<1> SUFFICES ASSUME NEW s \in rows', Usable(s)'
             PROVE  OnlyUsable(s)' /\ ~Over(family[s])'
  BY DEF CurrentIsAlone
<1>0. s \in Request /\ family'[s] \in Request
  BY DEF TypeOK, Inv, RowIsFromItsRequest
\* What works after a step, but for the token it hands out, worked before it.
<1>1. ASSUME NEW q \in Request, Usable(q) PROVE q \in rows /\ HeldRow(q)
  BY <1>1, HeldFacts
<1>2. CASE Fade
  <2>1. \A q \in Request : Usable(q)' => Usable(q) /\ q \in rows /\ family'[q] = family[q]
    BY <1>1, <1>2 DEF Fade, Lasts
  <2>2. OnlyUsable(s) /\ ~Over(family[s]) /\ family'[s] = family[s]
    BY <1>0, <2>1 DEF CurrentIsAlone
  <2> QED
    BY <1>0, <1>2, <2>1, <2>2 DEF Fade, OnlyUsable, TypeOK
<1>3. ASSUME NEW f \in Request, Ending(f) PROVE OnlyUsable(s)' /\ ~Over(family[s])'
  <2>1. \A q \in Request : Usable(q)' =>
          Usable(q) /\ q \in rows /\ family'[q] = family[q] /\ family[q] # f
    BY <1>1, <1>3 DEF Ending, Lasts
  <2>2. OnlyUsable(s) /\ ~Over(family[s]) /\ family'[s] = family[s] /\ family[s] # f
    BY <1>0, <2>1 DEF CurrentIsAlone
  <2> QED
    BY <1>0, <1>3, <2>1, <2>2 DEF Ending, OnlyUsable, TypeOK
<1>4. ASSUME NEW f \in Request, NEW t \in Request, Handing(f, t)
      PROVE  OnlyUsable(s)' /\ ~Over(family[s])'
  <2>1. \A q \in Request : Usable(q)' =>
          \/ q = t
          \/ Usable(q) /\ q \in rows /\ family'[q] = family[q] /\ family[q] # f
    BY <1>1, <1>4 DEF Handing, Lasts
  <2>2. family'[t] = f
    BY <1>4 DEF Handing
  <2>3. CASE s = t
    BY <1>4, <2>1, <2>2, <2>3 DEF Handing, OnlyUsable, TypeOK
  <2>4. CASE s # t
    <3>1. OnlyUsable(s) /\ ~Over(family[s]) /\ family'[s] = family[s] /\ family[s] # f
      BY <1>0, <2>1, <2>4 DEF CurrentIsAlone
    <3> QED
      BY <1>0, <1>4, <2>1, <2>2, <3>1 DEF Handing, OnlyUsable, TypeOK
  <2> QED
    BY <2>3, <2>4
<1> QED
  BY <1>2, <1>3, <1>4

\* What a request in flight works with stays the one token that works.
LEMMA OnlyStays ==
    ASSUME TypeOK, Inv, TypeOK', Inv', Fade, NEW s \in Request, HeldRow(s)
    PROVE  /\ OnlyUsable(s) => OnlyUsable(s)'
           /\ ~Over(family[s]) => ~Over(family[s])'
<1>1. \A q \in Request : Usable(q)' => Usable(q) /\ q \in rows /\ family'[q] = family[q]
  BY HeldFacts DEF Fade, Lasts
<1>2. family'[s] = family[s] /\ family[s] \in Request
  BY HeldFacts DEF Fade, Lasts
<1> QED
  BY <1>1, <1>2 DEF Fade, OnlyUsable, TypeOK

-----------------------------------------------------------------------------
(* The same, seen as rotation. *)

Current(f) == {r \in rows : Usable(r) /\ family[r] = f}
Handed == {<<family[r], r>> : r \in {q \in Request : HeldRow(q)}}
Used == {<<family[r], r>> : r \in Rotated}

LEMMA FadeIsLoss ==
    ASSUME TypeOK, Inv, TypeOK', Inv', CurrentIsAlone, Fade
    PROVE  Rotation!Lose
<1>1. \A q \in Request : Usable(q)' => Usable(q)
  BY DEF Fade
<1>2. \A q \in Request : Usable(q) => q \in rows /\ family'[q] = family[q] /\ family[q] \in Request
  BY HeldFacts DEF Fade, Lasts
<1>3. \A q \in Request : Usable(q)' => q \in rows'
  BY DEF Usable
<1>4. ASSUME NEW f \in Request PROVE Current(f)' \in {Current(f), {}}
  <2>1. \A q, s \in Request : Usable(q) /\ Usable(s) /\ family[q] = f /\ family[s] = f => q = s
    BY <1>2 DEF CurrentIsAlone, OnlyUsable
  <2>2. \A q : q \in Current(f)' <=> q \in Request /\ Usable(q)' /\ family[q] = f
    BY <1>1, <1>2, <1>3 DEF Current, TypeOK
  <2>3. \A q : q \in Current(f) <=> q \in Request /\ Usable(q) /\ family[q] = f
    BY <1>2 DEF Current, TypeOK
  <2> QED
    BY <1>1, <2>1, <2>2, <2>3
<1>5. \A f \in Request : Current(f)' \in SUBSET Request
  BY DEF Current, TypeOK
<1>6. Handed' = Handed
  BY DEF Handed, Fade, Lasts
<1>7. Used' = Used
  BY RotatedIsDead DEF Used, Fade, Lasts
<1>8. {f \in Request : Over(f)}' = {f \in Request : Over(f)}
  BY DEF Fade, Lasts
<1> QED
  BY <1>4, <1>5, <1>6, <1>7, <1>8 DEF Rotation!Lose, Current, Handed, Used, HeldRow

LEMMA EndingIsEnd ==
    ASSUME TypeOK, Inv, TypeOK', Inv', NEW f \in Request, Ending(f)
    PROVE  Rotation!End(f)
<1>1. \A q \in Request : Usable(q)' <=> Usable(q) /\ family[q] # f
  BY DEF Ending
<1>2. \A q \in Request : Usable(q) => q \in rows /\ family'[q] = family[q]
  BY HeldFacts DEF Ending, Lasts
<1>3. \A q \in Request : Usable(q)' => q \in rows'
  BY DEF Usable
<1>4. \A g \in Request : Current(g)' = IF g = f THEN {} ELSE Current(g)
  BY <1>1, <1>2, <1>3 DEF Current, TypeOK
<1>5. [g \in Request |-> Current(g)]' = [[g \in Request |-> Current(g)] EXCEPT ![f] = {}]
  BY <1>4
<1>6. Handed' = Handed
  BY DEF Handed, Ending, Lasts
<1>7. Used' = Used
  BY RotatedIsDead DEF Used, Ending, Lasts
<1>8. {g \in Request : Over(g)}' = {g \in Request : Over(g)} \cup {f}
  BY DEF Ending
<1>9. \E t \in Request : <<f, t>> \in Handed
  BY DEF Ending, Handed
<1> QED
  BY <1>5, <1>6, <1>7, <1>8, <1>9 DEF Rotation!End, Current, Handed, Used, HeldRow

LEMMA HandingIsHand ==
    ASSUME TypeOK, Inv, TypeOK', Inv', NEW f \in Request, NEW t \in Request, Handing(f, t)
    PROVE  Rotation!Hand(f, t)
<1>1. \A q \in Request \ {t} : Usable(q)' <=> Usable(q) /\ family[q] # f
  BY DEF Handing
<1>2. \A q \in Request : Usable(q) => q \in rows /\ q # t /\ family'[q] = family[q]
  BY HeldFacts DEF Handing, Lasts
<1>3. \A q \in Request : Usable(q)' => q \in rows'
  BY DEF Usable
<1>4. family'[t] = f /\ ~HeldRow(t) /\ HeldRow(t)'
  BY DEF Handing
<1>5. \A g \in Request \ {f} : Current(g)' = Current(g)
  BY <1>1, <1>2, <1>3, <1>4 DEF Current, TypeOK
<1>6. Current(f)' \in SUBSET {t}
  BY <1>1, <1>2, <1>4 DEF Current, TypeOK
<1>7. [g \in Request |-> Current(g)]' = [[g \in Request |-> Current(g)] EXCEPT ![f] = Current(f)']
  BY <1>5
<1>8. Handed' = Handed \cup {<<f, t>>}
  BY <1>4 DEF Handed, Handing, Lasts
<1>9. \A g \in Request : <<g, t>> \notin Handed
  BY <1>4 DEF Handed
<1>10. {g \in Request : Over(g)}' = {g \in Request : Over(g)}
  BY DEF Handing, Lasts
<1> QED
  BY <1>6, <1>7, <1>8, <1>9, <1>10 DEF Rotation!Hand, Current, Handed, HeldRow

-----------------------------------------------------------------------------
(* What each statement does to the families. *)

\* The answer to r ends family f.
EndsBy(r, f) ==
    /\ token[r] # NONE /\ token[r].kind = "refresh" /\ family[token[r].row] = f
    /\ \/ answer[r] = "reused"
       \/ answer[r] = "ok" /\ op[r] = "logout" /\ r \notin spent

\* Only the answer to r changes what is handed out, rotated and over.
Narrow(r) ==
    /\ Lasts
    /\ \A s \in Request : HeldRow(s)' =>
         HeldRow(s) \/ (s = r /\ op'[r] \in {"login", "refresh"} /\ answer'[r] = "ok")
    /\ \A f \in Request : Over(f)' => Over(f) \/ EndsBy(r, f)'
    /\ \A s : s \in Rotated' <=>
         \/ s \in Rotated
         \/ s \in Request /\ op'[r] = "refresh" /\ answer'[r] = "ok" /\ token'[r].row = s

LEMMA ActsNarrow ==
    ASSUME TypeOK, Inv, AnswersComeLast, NEW r \in Request, Acts(r)
    PROVE  Narrow(r)
<1>0. Frame(r)
  BY ActsFrame
<1>1. \A s \in Request : HeldRow(s) => HeldRow(s)' /\ family'[s] = family[s]
  BY <1>0, HeldStays
<1>2. ASSUME NEW q \in Request, token[q] # NONE, token[q].kind = "refresh"
      PROVE  token[q].row \in Request /\ family'[token[q].row] = family[token[q].row]
  BY <1>1, <1>2, TokensAreHeld
<1>3. answer[r] \notin {"ok", "reused"}
  BY <1>0, TokenFacts DEF Frame
<1>4. ASSUME NEW q \in Request, q # r
      PROVE  /\ token'[q] = token[q] /\ answer'[q] = answer[q] /\ op'[q] = op[q]
             /\ q \in spent' <=> q \in spent
  BY <1>0, <1>4 DEF Frame
<1>5. ASSUME NEW f \in Request, Over(f) PROVE Over(f)'
  <2>1. PICK q \in Request : EndsBy(q, f)
    BY <1>5 DEF Over, EndsBy
  <2>2. q # r
    BY <1>3, <2>1 DEF EndsBy
  <2>3. EndsBy(q, f)'
    BY <1>2, <1>4, <2>1, <2>2 DEF EndsBy
  <2> QED
    BY <2>3 DEF Over, EndsBy
<1>6. ASSUME NEW f \in Request, Over(f)' PROVE Over(f) \/ EndsBy(r, f)'
  <2>1. PICK q \in Request : EndsBy(q, f)'
    BY <1>6 DEF Over, EndsBy
  <2>2. CASE q = r
    BY <2>1, <2>2
  <2>3. CASE q # r
    <3>1. EndsBy(q, f)
      BY <1>2, <1>4, <2>1, <2>3 DEF EndsBy
    <3> QED
      BY <3>1 DEF Over, EndsBy
  <2> QED
    BY <2>2, <2>3
<1>7. ASSUME NEW s \in Request, HeldRow(s)', s # r PROVE HeldRow(s)
  BY <1>4, <1>7 DEF HeldRow, Held, RefreshToken
<1>8. HeldRow(r)' => op'[r] \in {"login", "refresh"} /\ answer'[r] = "ok"
  BY DEF HeldRow, Held, RefreshToken
<1>9. ASSUME NEW s
      PROVE  s \in Rotated' <=>
               \/ s \in Rotated
               \/ s \in Request /\ op'[r] = "refresh" /\ answer'[r] = "ok" /\ token'[r].row = s
  BY <1>3, <1>4 DEF Rotated
<1> QED
  BY <1>1, <1>5, <1>6, <1>7, <1>8, <1>9 DEF Narrow, Lasts

\* A row that is dead stays dead.
LEMMA DeadStays ==
    ASSUME TypeOK, NEW r \in Request, Acts(r), expired' = expired
    PROVE  \A s \in Request : Dead(s) => Dead(s)'
<1>1. \A s \in Request : revoked[s] => revoked'[s]
  BY DEF TypeOK, Acts, Begin, Step, BeginLogin, BeginRefresh, BeginLogout, Present, RefreshFind,
     RevokeFamily, CreateSession, UniqueViolation, StoreHash, SetReplacement, RevokeSession,
     LogoutFind, DbFails
<1> QED
  BY <1>1 DEF Dead

LEMMA UsableFacts ==
    ASSUME TypeOK, TypeOK', Inv, Inv', NEW s \in Request
    PROVE  /\ Usable(s) <=> HeldRow(s) /\ ~Dead(s)
           /\ Usable(s)' <=> HeldRow(s)' /\ ~Dead(s)'
           /\ HeldRow(s) => s \in rows
<1>1. HeldRow(s) => s \in rows
  BY DEF HeldRow, Inv, HeldTokenIsStored
<1>2. HeldRow(s)' => s \in rows'
  BY DEF HeldRow, Inv, HeldTokenIsStored
<1> QED
  BY <1>1, <1>2 DEF Usable, HeldRow

\* Without a new pair and without the end of a family, nothing is gained.
LEMMA QuietFades ==
    ASSUME TypeOK, TypeOK', Inv, Inv', AnswersComeLast, NEW r \in Request, Acts(r),
           answer'[r] = "ok" => op'[r] \notin {"login", "refresh"},
           \A f \in Request : ~EndsBy(r, f)'
    PROVE  Fade
<1>1. Narrow(r) /\ Frame(r)
  BY ActsNarrow, ActsFrame
<1>2. \A s \in Request : Dead(s) => Dead(s)'
  BY <1>1, DeadStays DEF Frame
<1>3. \A s \in Request : HeldRow(s)' => HeldRow(s)
  BY <1>1 DEF Narrow
<1>4. \A s \in Request : Usable(s)' => Usable(s)
  BY <1>2, <1>3, UsableFacts
<1>5. \A s : s \in Rotated' <=> s \in Rotated
  BY <1>1 DEF Narrow
<1>6. Rotated' = Rotated
  BY <1>5 DEF Rotated
<1> QED
  BY <1>1, <1>3, <1>4, <1>6 DEF Narrow, Fade

\* The end of a family is an end of all its tokens.
LEMMA EndIsEnding ==
    ASSUME TypeOK, TypeOK', Inv, Inv', AnswersComeLast, NEW r \in Request, Acts(r),
           answer'[r] = "ok" => op'[r] \notin {"login", "refresh"},
           NEW f \in Request, EndsBy(r, f)', \E s \in Request : HeldRow(s) /\ family[s] = f,
           \A s \in Request : Usable(s)' <=> Usable(s) /\ family[s] # f
    PROVE  Ending(f)
<1>1. Narrow(r)
  BY ActsNarrow
<1>2. \A s \in Request : HeldRow(s)' => HeldRow(s)
  BY <1>1 DEF Narrow
<1>3. \A s : s \in Rotated' <=> s \in Rotated
  BY <1>1 DEF Narrow
<1>4. Rotated' = Rotated
  BY <1>3 DEF Rotated
<1>5. \A g \in Request : EndsBy(r, g)' => g = f
  BY DEF EndsBy
<1>6. Over(f)'
  BY DEF Over, EndsBy
<1> QED
  BY <1>1, <1>2, <1>4, <1>5, <1>6 DEF Narrow, Lasts, Ending

LEMMA RevokeFamilyEnds ==
    ASSUME TypeOK, TypeOK', Inv, Inv', AnswersComeLast, NEW r \in Request, RevokeFamily(r)
    PROVE  Fade \/ \E f \in Request : Ending(f)
<1> DEFINE f == family[token[r].row]
<1>1. /\ Acts(r) /\ op[r] = "refresh" /\ token[r] \in Token /\ fam[r] = payloadFamily(token[r])
      /\ op' = op /\ token' = token /\ family' = family /\ rows' = rows /\ expired' = expired
  BY DEF RevokeFamily, Acts, Step, Inv, PresentedTokenIsHeld, TypeOK
<1>2. answer'[r] = "reused"
  BY DEF RevokeFamily, Return, TypeOK
<1>3. CASE token[r].kind = "refresh"
  <2>1. HeldRow(token[r].row) /\ token[r].row \in Request
    BY <1>1, <1>3, TokensAreHeld, TokenFacts
  <2>2. fam[r] = f /\ f \in Request
    BY <1>1, <1>3, <2>1, HeldFacts DEF payloadFamily
  <2>3. EndsBy(r, f)'
    BY <1>1, <1>2, <1>3, TokenFacts DEF EndsBy
  <2>4. ASSUME NEW s \in Request PROVE Usable(s)' <=> Usable(s) /\ family[s] # f
    <3>1. HeldRow(s)' <=> HeldRow(s)
      BY <1>1, <1>2, ActsNarrow DEF Narrow, Lasts
    <3>2. s \in rows => (Dead(s)' <=> Dead(s) \/ family[s] = f)
      <4>1. fam[r] # NONE
        BY <2>2, ConstantsAssumption
      <4>2. s \in rows => (revoked'[s] <=> revoked[s] \/ family[s] = f)
        BY <2>2, <4>1 DEF RevokeFamily, TypeOK
      <4> QED
        BY <1>1, <4>2 DEF Dead
    <3> QED
      BY <3>1, <3>2, UsableFacts
  <2> QED
    BY <1>1, <1>2, <2>1, <2>2, <2>3, <2>4, EndIsEnding
<1>4. CASE token[r].kind # "refresh"
  <2>1. \A g \in Request : ~EndsBy(r, g)'
    BY <1>1, <1>4 DEF EndsBy
  <2> QED
    BY <1>1, <1>2, <2>1, QuietFades
<1> QED
  BY <1>3, <1>4

\* A refresh or a logout that ends the session it found, and what it works with.
LEMMA RevokeFacts ==
    ASSUME TypeOK, Inv, NEW r \in Request, RevokeSession(r)
    PROVE  /\ Acts(r) /\ op[r] \in {"refresh", "logout"} /\ answer'[r] = "ok"
           /\ found[r] \in Request /\ token[r] = RefreshToken(found[r]) /\ HeldRow(found[r])
           /\ op' = op /\ token' = token /\ family' = family /\ spent' = spent /\ fam' = fam
           /\ \A s \in Request : Dead(s)' <=> Dead(s) \/ s = found[r]
<1>1. pc[r] = "revoke" /\ op[r] \in {"refresh", "logout"}
  BY DEF RevokeSession, Inv, LocationTellsProgress, TypeOK
<1>2. found[r] \in rows /\ token[r] = RefreshToken(found[r])
  BY <1>1 DEF Inv, FoundIsRowOfToken
<1>3. found[r] \in Request /\ HeldRow(found[r])
  BY <1>1, <1>2 DEF Inv, PresentedTokenIsHeld, HeldRow, TypeOK
<1>4. \A s \in Request : Dead(s)' <=> Dead(s) \/ s = found[r]
  BY <1>3 DEF RevokeSession, Dead, TypeOK
<1> QED
  BY <1>1, <1>2, <1>3, <1>4 DEF RevokeSession, Return, TypeOK, Acts, Step

LEMMA LogoutEnds ==
    ASSUME TypeOK, TypeOK', Inv, Inv', AnswersComeLast, WorkIsOnCurrent,
           NEW r \in Request, RevokeSession(r), op[r] = "logout"
    PROVE  Fade \/ \E f \in Request : Ending(f)
<1>1. /\ Acts(r) /\ answer'[r] = "ok" /\ op'[r] = "logout" /\ token'[r] = token[r]
      /\ found[r] \in Request /\ token[r] = RefreshToken(found[r]) /\ HeldRow(found[r])
      /\ \A s \in Request : Dead(s)' <=> Dead(s) \/ s = found[r]
  BY RevokeFacts
<1>2. token[r].kind = "refresh" /\ token[r].row = found[r] /\ token[r] # NONE /\ InFlight(r)
  BY <1>1, TokenFacts DEF RefreshToken, RevokeSession, InFlight
<1>3. CASE r \in spent
  <2>1. \A g \in Request : ~EndsBy(r, g)'
    BY <1>1, <1>3, RevokeFacts DEF EndsBy
  <2> QED
    BY <1>1, <2>1, QuietFades
<1>4. CASE r \notin spent
  <2>1. OnlyUsable(found[r])
    BY <1>2, <1>4 DEF WorkIsOnCurrent
  <2>2. PICK f \in Request : f = family[found[r]]
    BY <1>1, HeldFacts
  <2>3. EndsBy(r, f)'
    <3>1. family' = family /\ spent' = spent
      BY RevokeFacts
    <3> QED
      BY <1>1, <1>2, <1>4, <2>2, <3>1 DEF EndsBy
  <2>4. ASSUME NEW s \in Request PROVE Usable(s)' <=> Usable(s) /\ family[s] # f
    <3>1. HeldRow(s)' <=> HeldRow(s)
      BY <1>1, ActsNarrow DEF Narrow, Lasts
    <3>2. Usable(s) /\ family[s] = f => s = found[r]
      BY <2>1, <2>2, UsableFacts DEF OnlyUsable
    <3> QED
      BY <1>1, <2>2, <3>1, <3>2, UsableFacts
  <2> QED
    BY <1>1, <2>2, <2>3, <2>4, EndIsEnding
<1> QED
  BY <1>3, <1>4

LEMMA RefreshHands ==
    ASSUME TypeOK, TypeOK', Inv, Inv', AnswersComeLast, WorkIsOnCurrent,
           NEW r \in Request, RevokeSession(r), op[r] = "refresh"
    PROVE  \E f, old \in Request : Handing(f, r) /\ Rotation!Refresh(f, old, r)
<1>1. /\ Acts(r) /\ answer'[r] = "ok" /\ op'[r] = "refresh" /\ token'[r] = token[r]
      /\ found[r] \in Request /\ token[r].row = found[r] /\ HeldRow(found[r])
      /\ \A s \in Request : Dead(s)' <=> Dead(s) \/ s = found[r]
  <2>1. RefreshToken(found[r]).row = found[r]
    BY DEF RefreshToken
  <2> QED
    BY <2>1, RevokeFacts
<1>2. PICK f \in Request : f = family[found[r]]
  BY <1>1, HeldFacts
<1>0. family' = family
  BY RevokeFacts
<1>3. OnlyUsable(found[r]) /\ ~Over(f) /\ found[r] \notin Rotated
  BY <1>2 DEF WorkIsOnCurrent, RevokeSession
<1>4. Narrow(r)
  BY <1>1, ActsNarrow
<1>5. ~HeldRow(r) /\ HeldRow(r)' /\ r \in rows /\ family[r] = f
  <2>1. r \in rows /\ answer[r] # "ok"
    BY DEF RevokeSession, Inv, LocationTellsProgress
  <2>2. family[r] = fam[r] /\ fam[r] = f
    BY <1>2, <2>1 DEF Inv, RowIsFromItsRequest, FoundIsRowOfToken
  <2> QED
    BY <1>1, <2>1, <2>2 DEF HeldRow, Held, RefreshToken
<1>6. ASSUME NEW s \in Request \ {r}
      PROVE  /\ HeldRow(s)' <=> HeldRow(s)
             /\ Usable(s)' <=> Usable(s) /\ family[s] # f
  <2>1. HeldRow(s)' <=> HeldRow(s)
    BY <1>4 DEF Narrow, Lasts
  <2>2. Usable(s) /\ family[s] = f => s = found[r]
    BY <1>2, <1>3, UsableFacts DEF OnlyUsable
  <2>4. Dead(s)' <=> Dead(s) \/ s = found[r]
    BY <1>1
  <2>5. (Usable(s) <=> HeldRow(s) /\ ~Dead(s)) /\ (Usable(s)' <=> HeldRow(s)' /\ ~Dead(s)')
    BY UsableFacts
  <2>6. s = found[r] => family[s] = f
    BY <1>2
  <2> QED
    BY <2>1, <2>2, <2>4, <2>5, <2>6
<1>7. \A g \in Request : Over(g)' => Over(g)
  BY <1>1, <1>4 DEF Narrow, EndsBy
<1>8. Handing(f, r)
  BY <1>0, <1>3, <1>4, <1>5, <1>6, <1>7 DEF Handing, Narrow
<1>9. Rotation!Hand(f, r)
  BY <1>2, <1>8, HandingIsHand
<1>10. \A s : s \in Rotated' <=> s \in Rotated \/ s = found[r]
  BY <1>1, <1>4 DEF Narrow
<1>11. Used' = Used \cup {<<f, found[r]>>}
  BY <1>0, <1>2, <1>10 DEF Used
<1>12. <<f, found[r]>> \in Handed \ Used
  BY <1>1, <1>2, <1>3 DEF Handed, Used
<1>13. Rotation!Refresh(f, found[r], r)
  BY <1>3, <1>9, <1>11, <1>12 DEF Rotation!Refresh, Handed, Used, HeldRow
<1> QED
  BY <1>1, <1>8, <1>13

LEMMA LoginHands ==
    ASSUME TypeOK, TypeOK', Inv, Inv', AnswersComeLast, FamilyIsHeld,
           NEW r \in Request, StoreHash(r), op[r] = "login"
    PROVE  Handing(r, r) /\ Rotation!Login(r, r)
<1>1. /\ Acts(r) /\ answer'[r] = "ok" /\ op'[r] = "login"
      /\ family' = family /\ expired' = expired /\ revoked' = revoked
  BY DEF StoreHash, Return, TypeOK, Acts, Step
<1>2. r \in rows /\ answer[r] # "ok" /\ family[r] = r
  BY DEF StoreHash, Inv, LocationTellsProgress, RowIsFromItsRequest
<1>3. Narrow(r)
  BY <1>1, ActsNarrow
<1>4. ~HeldRow(r) /\ HeldRow(r)'
  BY <1>1, <1>2 DEF HeldRow, Held, RefreshToken
<1>5. \A s \in Request : HeldRow(s) => family[s] # r
  BY <1>4, FirstIsHeld
<1>6. ~Over(r)
  BY <1>5, TokensAreHeld DEF Over
<1>7. ASSUME NEW s \in Request \ {r}
      PROVE  /\ HeldRow(s)' => HeldRow(s)
             /\ Usable(s)' <=> Usable(s) /\ family[s] # r
  <2>1. HeldRow(s)' <=> HeldRow(s)
    BY <1>3 DEF Narrow, Lasts
  <2>2. Dead(s)' <=> Dead(s)
    BY <1>1 DEF Dead
  <2>3. (Usable(s) <=> HeldRow(s) /\ ~Dead(s)) /\ (Usable(s)' <=> HeldRow(s)' /\ ~Dead(s)')
    BY UsableFacts
  <2> QED
    BY <1>5, <2>1, <2>2, <2>3
<1>8. \A g \in Request : Over(g)' => Over(g)
  BY <1>1, <1>3 DEF Narrow, EndsBy
<1>9. Handing(r, r)
  BY <1>1, <1>2, <1>3, <1>4, <1>6, <1>7, <1>8 DEF Handing, Narrow
<1>10. Rotation!Hand(r, r)
  BY <1>9, HandingIsHand
<1>11. \A s : s \in Rotated' <=> s \in Rotated
  BY <1>1, <1>3 DEF Narrow
<1>12. Used' = Used
  BY <1>1, <1>11 DEF Used
<1>13. \A s \in Request : <<r, s>> \notin Handed
  BY <1>5 DEF Handed
<1> QED
  BY <1>9, <1>10, <1>12, <1>13 DEF Rotation!Login, Handed, Used, HeldRow

-----------------------------------------------------------------------------
(* Every step together. *)

\* A statement that does not answer leaves the families as they are.
LEMMA UnansweredFades ==
    ASSUME TypeOK, TypeOK', Inv, Inv', AnswersComeLast, NEW r \in Request, Acts(r),
           answer'[r] \notin {"ok", "reused"}
    PROVE  Fade
BY QuietFades DEF EndsBy

\* logout of a token that is in no row: no refresh token is.
LEMMA UnknownLogoutFades ==
    ASSUME TypeOK, TypeOK', Inv, Inv', AnswersComeLast, NEW r \in Request, LogoutFind(r)
    PROVE  Fade
<1>1. Acts(r) /\ op[r] = "logout" /\ op' = op /\ token' = token
  BY DEF Acts, Step, LogoutFind
<1>2. CASE answer'[r] \in {"ok", "reused"}
  <2>1. \A s \in rows : hash[s] # hashToken(token[r])
    <3>1. answer[r] \notin {"ok", "reused"}
      BY <1>1, ActsFrame, TokenFacts DEF Frame
    <3> QED
      BY <1>2, <3>1 DEF LogoutFind, Goto
  <2>2. token[r] # NONE => token[r].kind # "refresh"
    BY <2>1, TokensAreHeld, HeldFacts
  <2> QED
    BY <1>1, <2>2, QuietFades DEF EndsBy
<1> QED
  BY <1>1, <1>2, UnansweredFades

\* What a step of a request is to the families.
LEMMA ActsRotate ==
    ASSUME TypeOK, TypeOK', Inv, Inv', AnswersComeLast, FamilyIsHeld, CurrentIsAlone,
           WorkIsOnCurrent, NEW r \in Request, Acts(r)
    PROVE  /\ Fade \/ \E f \in Request : Ending(f) \/ \E t \in Request : Handing(f, t)
           /\ Rotation!Next
<1>1. ASSUME Fade \/ \E f \in Request : Ending(f) PROVE Rotation!Next
  BY <1>1, FadeIsLoss, EndingIsEnd DEF Rotation!Next
<1>2. CASE RevokeFamily(r)
  BY <1>1, <1>2, RevokeFamilyEnds
<1>3. CASE RevokeSession(r)
  <2>1. op[r] \in {"refresh", "logout"}
    BY <1>3, RevokeFacts
  <2>2. CASE op[r] = "logout"
    BY <1>1, <1>3, <2>2, LogoutEnds
  <2>3. CASE op[r] = "refresh"
    BY <1>3, <2>3, RefreshHands DEF Rotation!Next
  <2> QED
    BY <2>1, <2>2, <2>3
<1>4. CASE StoreHash(r) /\ op[r] = "login"
  BY <1>4, LoginHands DEF Rotation!Next
<1>5. CASE LogoutFind(r)
  BY <1>1, <1>5, UnknownLogoutFades
<1>6. CASE ~RevokeFamily(r) /\ ~RevokeSession(r) /\ ~LogoutFind(r) /\ ~(StoreHash(r) /\ op[r] = "login")
  <2>1. answer[r] \notin {"ok", "reused"}
    BY ActsFrame, TokenFacts DEF Frame
  <2>2. answer'[r] \notin {"ok", "reused"}
    BY <1>6, <2>1 DEF Acts, Begin, Step, BeginLogin, BeginRefresh, BeginLogout, Present, RefreshFind,
       CreateSession, UniqueViolation, StoreHash, SetReplacement, DbFails, Goto, Return,
       Thrown, TypeOK
  <2> QED
    BY <1>1, <2>2, UnansweredFades
<1> QED
  BY <1>2, <1>3, <1>4, <1>5, <1>6

\* A request that goes on works with the one token of its family that works.
LEMMA WorkKeeps ==
    ASSUME TypeOK, TypeOK', Inv, Inv', AnswersComeLast, AnswersComeLast', OneInFlight,
           CurrentIsAlone, WorkIsOnCurrent, NEW r \in Request, Acts(r)
    PROVE  WorkIsOnCurrent'
<1> DEFINE Works(q) ==
             /\ op[q] = "refresh" /\ pc[q] \in {"create", "store", "replace", "revoke"} =>
                  OnlyUsable(found[q]) /\ ~Over(family[found[q]]) /\ found[q] \notin Rotated
             /\ op[q] = "logout" /\ InFlight(q) /\ token[q].kind = "refresh" =>
                  IF q \in spent THEN Dead(token[q].row) ELSE OnlyUsable(token[q].row)
<1> SUFFICES Works(r)'
  <2>1. ASSUME NEW q \in Request \ {r} PROVE Works(q)'
    BY OneKeeps DEF InFlight
  <2> QED
    BY <2>1 DEF WorkIsOnCurrent
<1>1. CASE pc'[r] = "done"
  BY <1>1 DEF InFlight
<1>2. CASE pc'[r] # "done"
  <2> USE <1>2
  <2>1. answer'[r] = NONE
    BY DEF AnswersComeLast, PendingHasCause
  <2>2. Fade /\ Frame(r)
    BY <2>1, UnansweredFades, ActsFrame, TokenFacts
  \* A refresh.
  <2>3. ASSUME NEW s \in Request, found'[r] = s, HeldRow(s), OnlyUsable(s), ~Over(family[s]),
               s \notin Rotated
        PROVE  OnlyUsable(found[r])' /\ ~Over(family[found[r]])' /\ found'[r] \notin Rotated'
    <3>1. OnlyUsable(s)' /\ ~Over(family[s])' /\ Rotated' = Rotated
      BY <2>2, <2>3, OnlyStays DEF Fade
    <3> QED
      BY <2>3, <3>1 DEF OnlyUsable, Over
  <2>4. ASSUME op'[r] = "refresh", pc'[r] \in {"create", "store", "replace", "revoke"}
        PROVE  \E s \in Request : /\ found'[r] = s /\ HeldRow(s) /\ OnlyUsable(s)
                                  /\ ~Over(family[s]) /\ s \notin Rotated
    <3>1. CASE RefreshFind(r)
      <4>1. op[r] = "refresh" /\ pc'[r] = "create"
        BY <2>4, <3>1 DEF RefreshFind, Goto, TypeOK
      <4>2. PICK s \in rows : hash[s] = hashToken(token[r]) /\ found'[r] = s /\ ~Dead(s)
        BY <3>1, <4>1 DEF RefreshFind, Goto, TypeOK
      <4>3. s \in Request /\ token[r] = RefreshToken(s)
        BY <4>1, <4>2, TokenFacts DEF Inv, RowIsFromItsRequest, TypeOK
      <4>4. HeldRow(s)
        BY <4>1, <4>3 DEF Inv, PresentedTokenIsHeld, HeldRow
      <4>5. Usable(s)
        BY <4>2, <4>4 DEF Usable, HeldRow
      <4>6. s \notin Rotated
        BY <4>2, RotatedIsDead
      <4> QED
        BY <4>2, <4>3, <4>4, <4>5, <4>6 DEF CurrentIsAlone
    <3>2. CASE CreateSession(r) \/ StoreHash(r) \/ SetReplacement(r)
      <4>1. /\ op[r] = "refresh" /\ pc[r] \in {"create", "store", "replace"} /\ found' = found
        BY <2>4, <3>2 DEF CreateSession, StoreHash, SetReplacement
      <4>2. found[r] \in rows /\ token[r] = RefreshToken(found[r])
        BY <4>1 DEF Inv, FoundIsRowOfToken
      <4>3. found[r] \in Request /\ HeldRow(found[r])
        BY <4>1, <4>2 DEF Inv, PresentedTokenIsHeld, HeldRow, TypeOK
      <4> QED
        BY <4>1, <4>3 DEF WorkIsOnCurrent
    <3> QED
      BY <2>4, <3>1, <3>2 DEF Acts, Begin, Step, BeginLogin, BeginRefresh, BeginLogout, Present,
         RevokeFamily, UniqueViolation, RevokeSession, LogoutFind, DbFails, Goto, Return, TypeOK
  \* A logout.
  <2>5. ASSUME NEW s \in Request, token'[r] = RefreshToken(s), HeldRow(s),
               IF r \in spent' THEN Dead(s) ELSE OnlyUsable(s)
        PROVE  IF r \in spent' THEN Dead(token[r].row)' ELSE OnlyUsable(token[r].row)'
    <3>1. token'[r].row = s
      BY <2>5 DEF RefreshToken
    <3>2. IF r \in spent' THEN Dead(s)' ELSE OnlyUsable(s)'
      BY <2>2, <2>5, DeadStays, OnlyStays DEF Frame
    <3> QED
      BY <3>1, <3>2 DEF OnlyUsable, Dead
  <2>6. ASSUME op'[r] = "logout", token'[r].kind = "refresh"
        PROVE  \E s \in Request : /\ token'[r] = RefreshToken(s) /\ HeldRow(s)
                                  /\ IF r \in spent' THEN Dead(s) ELSE OnlyUsable(s)
    <3>1. ASSUME NEW t \in Token, BeginLogout(r, t)
          PROVE  \E s \in Request : /\ token'[r] = RefreshToken(s) /\ HeldRow(s)
                                    /\ IF r \in spent' THEN Dead(s) ELSE OnlyUsable(s)
      <4>1. token'[r] = t /\ Held(t) /\ r \notin spent
        BY <3>1 DEF BeginLogout, Present, TypeOK, Inv, SpentStaysOut
      <4>2. PICK s \in Request : t = RefreshToken(s)
        BY <2>6, <4>1 DEF Token, RefreshToken
      <4>3. HeldRow(s) /\ t.row = s
        BY <4>1, <4>2 DEF HeldRow, RefreshToken
      <4>4. r \in spent' <=> Dead(s)
        BY <3>1, <4>1, <4>3 DEF BeginLogout, Present
      <4>5. ~Dead(s) => OnlyUsable(s)
        BY <4>3, HeldFacts DEF CurrentIsAlone
      <4> QED
        BY <4>1, <4>2, <4>3, <4>4, <4>5
    <3>2. CASE LogoutFind(r)
      <4>1. op[r] = "logout" /\ InFlight(r) /\ token' = token /\ spent' = spent
        BY <3>2 DEF LogoutFind, InFlight
      <4>2. token[r].row \in Request /\ token[r] = RefreshToken(token[r].row) /\ HeldRow(token[r].row)
        BY <2>6, <4>1, TokensAreHeld, TokenFacts DEF TypeOK
      <4> QED
        BY <2>6, <4>1, <4>2 DEF WorkIsOnCurrent
    <3> QED
      BY <2>6, <3>1, <3>2 DEF Acts, Begin, Step, BeginLogin, BeginRefresh, Present,
         RefreshFind, RevokeFamily, CreateSession, UniqueViolation, StoreHash, SetReplacement,
         RevokeSession, DbFails, Goto, Return, TypeOK, Inv, LocationTellsProgress
  <2> QED
    BY <2>3, <2>4, <2>5, <2>6
<1> QED
  BY <1>1, <1>2

\* Time and crashes hand out nothing and end no family.
LEMMA ElapsesFades ==
    ASSUME TypeOK, TypeOK', Elapses
    PROVE  /\ Fade
           /\ \A q \in Request : /\ op'[q] = op[q] /\ token'[q] = token[q] /\ found'[q] = found[q]
                                 /\ pc'[q] \in {pc[q], "done"}
           /\ \A s \in Request : Dead(s) => Dead(s)'
           /\ rows' = rows /\ family' = family /\ spent' = spent
<1>1. /\ rows' = rows /\ family' = family /\ revoked' = revoked /\ op' = op /\ token' = token
      /\ found' = found /\ answer' = answer /\ spent' = spent /\ expired \subseteq expired'
  BY DEF Elapses, Crash, Expire, Lapse
<1>2. \A q \in Request : pc'[q] \in {pc[q], "done"}
  BY DEF Elapses, Crash, Expire, Lapse
<1>3. \A s \in Request : (HeldRow(s)' <=> HeldRow(s)) /\ (Dead(s) => Dead(s)')
  BY <1>1 DEF HeldRow, Held, RefreshToken, Dead
<1>4. \A s \in Request : Usable(s)' => Usable(s)
  BY <1>1, <1>3 DEF Usable, HeldRow
<1>5. Rotated' = Rotated
  BY <1>1 DEF Rotated
<1>6. \A f \in Request : Over(f)' <=> Over(f)
  BY <1>1 DEF Over
<1> QED
  BY <1>1, <1>2, <1>3, <1>4, <1>5, <1>6 DEF Fade, Lasts

LEMMA ElapsesWork ==
    ASSUME TypeOK, TypeOK', Inv, Inv', AnswersComeLast, WorkIsOnCurrent, FamilyIsHeld, Elapses
    PROVE  WorkIsOnCurrent' /\ FamilyIsHeld'
<1>1. /\ Fade /\ rows' = rows /\ family' = family /\ spent' = spent
      /\ \A s \in Request : Dead(s) => Dead(s)'
  BY ElapsesFades
<1>2. ASSUME NEW q \in Request
      PROVE  /\ op'[q] = op[q] /\ token'[q] = token[q] /\ found'[q] = found[q]
             /\ pc'[q] \in {pc[q], "done"}
  BY ElapsesFades
<1>3. FamilyIsHeld'
  <2> SUFFICES ASSUME NEW s \in rows, op[s] = "refresh" PROVE Held(RefreshToken(family[s]))'
    BY <1>1, <1>2 DEF FamilyIsHeld, TypeOK
  <2>1. PICK f \in Request : f = family[s]
    BY DEF Inv, RowIsFromItsRequest
  <2>2. HeldRow(f)'
    BY <1>1, <2>1 DEF FamilyIsHeld, HeldRow, Fade, Lasts
  <2> QED
    BY <1>1, <2>1, <2>2 DEF HeldRow, Held, RefreshToken
<1>4. ASSUME NEW q \in Request, op'[q] = "refresh",
             pc'[q] \in {"create", "store", "replace", "revoke"}
      PROVE  OnlyUsable(found[q])' /\ ~Over(family[found[q]])' /\ found'[q] \notin Rotated'
  <2>1. op[q] = "refresh" /\ pc[q] \in {"create", "store", "replace", "revoke"}
    BY <1>2, <1>4
  <2>2. found[q] \in rows /\ token[q] = RefreshToken(found[q])
    BY <2>1 DEF Inv, FoundIsRowOfToken
  <2>3. PICK s \in Request : s = found[q] /\ HeldRow(s)
    BY <2>1, <2>2 DEF Inv, PresentedTokenIsHeld, HeldRow, TypeOK
  <2>4. OnlyUsable(s) /\ ~Over(family[s]) /\ s \notin Rotated
    BY <2>1, <2>3 DEF WorkIsOnCurrent
  <2>5. OnlyUsable(s)' /\ ~Over(family[s])' /\ Rotated' = Rotated
    BY <1>1, <2>3, <2>4, OnlyStays DEF Fade
  <2> QED
    BY <1>2, <2>3, <2>4, <2>5 DEF OnlyUsable, Over
<1>5. ASSUME NEW q \in Request, op'[q] = "logout", InFlight(q)', token'[q].kind = "refresh"
      PROVE  IF q \in spent' THEN Dead(token[q].row)' ELSE OnlyUsable(token[q].row)'
  <2>1. op[q] = "logout" /\ InFlight(q) /\ token[q].kind = "refresh" /\ token[q] # NONE
    BY <1>2, <1>5, TokenFacts DEF InFlight, TypeOK
  <2>2. PICK s \in Request : s = token[q].row /\ HeldRow(s)
    BY <2>1, TokensAreHeld
  <2>3. IF q \in spent THEN Dead(s) ELSE OnlyUsable(s)
    BY <2>1, <2>2 DEF WorkIsOnCurrent
  <2>4. IF q \in spent THEN Dead(s)' ELSE OnlyUsable(s)'
    BY <1>1, <2>2, <2>3, OnlyStays
  <2> QED
    BY <1>1, <1>2, <2>2, <2>4 DEF OnlyUsable, Dead
<1> QED
  BY <1>3, <1>4, <1>5 DEF WorkIsOnCurrent

\* Every step of SerialNext keeps the invariant and is a step of rotation.
LEMMA SerialStep ==
    ASSUME TypeOK, Inv, SerialInv, SerialNext
    PROVE  TypeOK' /\ Inv' /\ SerialInv' /\ Rotation!Next
<1>1. TypeOK' /\ Inv'
  BY SerialNextIsAStep, NextTypeOK, NextInv
<1> USE <1>1 DEF SerialInv
<1>2. ASSUME NEW r \in Request, Acts(r) PROVE SerialInv' /\ Rotation!Next
  <2>1. AnswersComeLast' /\ OneInFlight' /\ RefusalIsExplained' /\ FamilyIsHeld'
    BY <1>2, AnswersKeep, OneKeeps, RefusalKeeps, FamilyKeeps
  <2>2. /\ Fade \/ \E f \in Request : Ending(f) \/ \E t \in Request : Handing(f, t)
        /\ Rotation!Next
    BY <1>2, ActsRotate
  <2>3. CurrentIsAlone' /\ WorkIsOnCurrent'
    BY <1>2, <2>1, <2>2, AloneKeeps, WorkKeeps
  <2> QED
    BY <2>1, <2>2, <2>3
<1>3. ASSUME Elapses PROVE SerialInv' /\ Rotation!Next
  <2>1. AnswersComeLast' /\ OneInFlight' /\ RefusalIsExplained'
    BY <1>3, ElapsesKeeps, ElapsesExplains
  <2>2. Fade /\ WorkIsOnCurrent' /\ FamilyIsHeld'
    BY <1>3, ElapsesFades, ElapsesWork
  <2>3. CurrentIsAlone'
    BY <2>2, AloneKeeps
  <2> QED
    BY <2>1, <2>2, <2>3, FadeIsLoss DEF Rotation!Next
<1> QED
  BY <1>1, <1>2, <1>3, SerialNextIsAStep

LEMMA SerialStutter ==
    ASSUME TypeOK, Inv, SerialInv, UNCHANGED vars
    PROVE  TypeOK' /\ Inv' /\ SerialInv' /\ UNCHANGED Rotation!vars
<1>1. TypeOK' /\ Inv'
  BY NextTypeOK, NextInv
<1> USE DEF vars, locals, SerialInv
<1>2. (\A r \in Request : HeldRow(r)' <=> HeldRow(r)) /\ (\A s \in Request : Dead(s)' <=> Dead(s))
  BY DEF HeldRow, Held, RefreshToken, Dead
<1>3. \A s \in Request : Usable(s)' <=> Usable(s)
  BY <1>2 DEF Usable, HeldRow
<1>4. (\A f \in Request : Over(f)' <=> Over(f)) /\ Rotated' = Rotated
  BY DEF Over, Rotated
<1>5. Fade /\ (\A s : s \in rows => s \in Request)
  BY <1>2, <1>3, <1>4 DEF Fade, Lasts, TypeOK
<1>6. AnswersComeLast' /\ OneInFlight' /\ RefusalIsExplained'
  BY DEF AnswersComeLast, PendingHasCause, OneInFlight, InFlight, RefusalIsExplained
<1>7. FamilyIsHeld'
  BY DEF FamilyIsHeld, Held, RefreshToken
<1>8. CurrentIsAlone'
  BY <1>1, <1>5, AloneKeeps
<1>9. WorkIsOnCurrent'
  BY <1>3, <1>4, <1>5 DEF WorkIsOnCurrent, OnlyUsable, Over, Dead, InFlight
<1>10. UNCHANGED Rotation!vars
  BY <1>2, <1>3, <1>4, <1>5 DEF Rotation!vars, HeldRow
<1> QED
  BY <1>1, <1>6, <1>7, <1>8, <1>9, <1>10

LEMMA SerialStart == Init => TypeOK /\ Inv /\ SerialInv /\ Rotation!Init
<1> SUFFICES ASSUME Init PROVE SerialInv /\ Rotation!Init
  BY InitTypeOK, InitInv
<1> USE TokenFacts DEF Init
<1>1. \A r \in Request : ~HeldRow(r) /\ ~Usable(r) /\ ~InFlight(r)
  BY DEF HeldRow, Held, RefreshToken, Usable, InFlight
<1>2. Rotated = {} /\ \A f : ~Over(f)
  BY DEF Rotated, Over
<1>3. SerialInv
  BY <1>1 DEF SerialInv, AnswersComeLast, PendingHasCause, OneInFlight, FamilyIsHeld,
     CurrentIsAlone, WorkIsOnCurrent, RefusalIsExplained, InFlight
<1>4. Rotation!Init
  BY <1>1, <1>2 DEF Rotation!Init, HeldRow
<1> QED
  BY <1>3, <1>4

\* The invariant of the handlers when one request runs at a time.
THEOREM SerialInvariance == SerialSpec => [](TypeOK /\ Inv /\ SerialInv)
<1>1. TypeOK /\ Inv /\ SerialInv /\ [SerialNext]_vars => (TypeOK /\ Inv /\ SerialInv)'
  BY SerialStep, SerialStutter
<1>2. Init => TypeOK /\ Inv /\ SerialInv
  BY SerialStart
<1> QED
  BY <1>1, <1>2, PTL DEF SerialSpec

\* auth.service.ts, refreshTokens and logout: with one request at a time a valid
\* token, or a login, is refused only if the request failed, or if one before it
\* failed between its insert and the digest that takes the place of 'PENDING'.
THEOREM RefusalsAreExplained == SerialSpec => []RefusalIsExplained
<1>1. SerialInv => RefusalIsExplained
  BY DEF SerialInv
<1> QED
  BY <1>1, SerialInvariance, PTL

\* auth.service.ts, login and refreshTokens: one request at a time, whatever fails, at
\* most one token of a family works, and none after a logout or a reuse.
THEOREM OneTokenWorks == SerialSpec => []CurrentIsAlone
<1>1. SerialInv => CurrentIsAlone
  BY DEF SerialInv
<1> QED
  BY <1>1, SerialInvariance, PTL

\* README "Every refresh invalidates the previous token": through failures and crashes,
\* one request at a time, the handlers implement AuthRotation: each statement
\* is one of its steps, or changes nothing it speaks of.
THEOREM RotationIsImplemented == SerialSpec => ImplementsRotation
<1>1. TypeOK /\ Inv /\ SerialInv /\ [SerialNext]_vars => [Rotation!Next]_(Rotation!vars)
  BY SerialStep, SerialStutter
<1>2. Init => Rotation!Init
  BY SerialStart
<1>3. SerialSpec => Init /\ [][SerialNext]_vars
  BY PTL DEF SerialSpec
<1> QED
  BY <1>1, <1>2, <1>3, SerialInvariance, PTL DEF ImplementsRotation, Rotation!Spec
===============================================================================
