------------------------------ MODULE AuthSessions ------------------------------
(***************************************************************************)
(* Login, refresh-token rotation and logout of AuthService, at the grain   *)
(* of the database statements: every await on Prisma is a step of its own, *)
(* so the handlers of several requests interleave, fail and crash between  *)
(* any two statements.  The rows are those of the table auth_sessions.     *)
(*                                                                         *)
(* A request is one invocation of a handler.  It runs once, creates at     *)
(* most one row, and the row, the token pair signed for it and - when the  *)
(* request is a login - the token family are named after it.               *)
(***************************************************************************)
EXTENDS Naturals

CONSTANTS
    Request,     \* handler invocations
    User,        \* users, found or created before AuthService.login is called
    PENDING,     \* the literal 'PENDING' of createSession
    NONE,        \* SQL NULL, JavaScript undefined, a local not yet assigned
    MaxFaults,   \* bound: database failures and crashes in a behaviour
    Aging,       \* bound: requests whose row may expire and whose tokens lapse
    TokenKinds   \* kinds of token the clients send as a refresh token

Token == [kind : {"refresh", "access"}, row : Request]
RefreshToken(r) == [kind |-> "refresh", row |-> r]
AccessToken(r) == [kind |-> "access", row |-> r]

\* hashToken: SHA-256 is taken to be injective, and no digest is 'PENDING'.
hashToken(t) == [sha256 |-> t]
Digest == {hashToken(t) : t \in Token}

ASSUME ConstantsAssumption ==
    /\ NONE \notin Request \cup User \cup Token \cup Digest
    /\ NONE \notin {"login", "refresh", "logout", "ok", "invalid", "reused", "error"}
    /\ PENDING \notin Digest \cup {NONE}
    /\ MaxFaults \in Nat
    /\ Aging \subseteq Request
    /\ TokenKinds \subseteq {"refresh", "access"}

VARIABLES
    \* the table auth_sessions: its rows and their columns
    rows,        \* ids of the rows that exist
    owner,       \* userId
    family,      \* refreshTokenFamilyId
    hash,        \* refreshTokenHash, @unique
    replacedBy,  \* replacedByTokenHash
    revoked,     \* revokedAt is set
    expired,     \* rows whose expiresAt lies in the past
    \* what jwtService.verifyAsync would say
    lapsed,      \* tokens past their exp claim
    \* the handlers
    pc,          \* the statement a request executes next
    op,          \* which handler
    token,       \* the token it was called with
    found,       \* session.id of the row it found
    user,        \* the user of the row it creates
    fam,         \* the family of the row it creates, or the one it revokes
    answer,      \* what the client received
    \* the environment, and histories for the properties
    faults,      \* failures so far
    faulted,     \* requests that a failure or a crash hit
    spent        \* requests whose token was already revoked or expired on arrival

table == <<rows, owner, family, hash, replacedBy, revoked>>
clock == <<expired, lapsed>>
locals == <<op, token, found, user, fam>>
history == <<faults, faulted, spent>>
vars == <<table, clock, pc, locals, answer, history>>

Location == {"idle", "find", "create", "store", "replace", "revoke",
             "revokeFamily", "done"}
Verdict == {NONE, "ok", "invalid", "reused", "error"}

TypeOK ==
    /\ rows \subseteq Request
    /\ owner \in [Request -> User \cup {NONE}]
    /\ family \in [Request -> Request \cup {NONE}]
    /\ hash \in [Request -> Digest \cup {PENDING, NONE}]
    /\ replacedBy \in [Request -> Digest \cup {NONE}]
    /\ revoked \in [Request -> BOOLEAN]
    /\ expired \subseteq Request
    /\ lapsed \subseteq Token
    /\ pc \in [Request -> Location]
    /\ op \in [Request -> {"login", "refresh", "logout", NONE}]
    /\ token \in [Request -> Token \cup {NONE}]
    /\ \A r \in Request : op[r] \in {"refresh", "logout"} => token[r] \in Token
    /\ found \in [Request -> Request \cup {NONE}]
    /\ user \in [Request -> User \cup {NONE}]
    /\ fam \in [Request -> Request \cup {NONE}]
    /\ answer \in [Request -> Verdict]
    /\ faults \in 0 .. MaxFaults
    /\ faulted \subseteq Request
    /\ spent \subseteq Request

-----------------------------------------------------------------------------
(* State formulae. *)

InFlight(r) == pc[r] \notin {"idle", "done"}
Quiet == \A r \in Request : ~InFlight(r)

\* session.revokedAt || new Date() > session.expiresAt
Dead(s) == revoked[s] \/ s \in expired

\* The client of a successful login or refresh holds its two tokens.
Held(t) == op[t.row] \in {"login", "refresh"} /\ answer[t.row] = "ok"

\* A refresh token in a client's hands that refreshTokens would rotate.
Usable(r) == Held(RefreshToken(r)) /\ r \in rows /\ ~Dead(r)

\* payload.familyId: generateTokens puts it in the refresh token only.
payloadFamily(t) == IF t.kind = "refresh" THEN family[t.row] ELSE NONE

Goto(r, location) == pc' = [pc EXCEPT ![r] = location] /\ UNCHANGED answer
Return(r, verdict) == /\ pc' = [pc EXCEPT ![r] = "done"]
                      /\ answer' = [answer EXCEPT ![r] = verdict]

\* What a thrown database error becomes: the catch of refreshTokens answers
\* 401 'Invalid refresh token', login and logout let it reach the filter (500).
Thrown(r) == IF op[r] = "refresh" THEN "invalid" ELSE "error"

-----------------------------------------------------------------------------
(* A request arrives. *)

Init ==
    /\ rows = {} /\ expired = {} /\ lapsed = {}
    /\ owner = [r \in Request |-> NONE]
    /\ family = [r \in Request |-> NONE]
    /\ hash = [r \in Request |-> NONE]
    /\ replacedBy = [r \in Request |-> NONE]
    /\ revoked = [r \in Request |-> FALSE]
    /\ pc = [r \in Request |-> "idle"]
    /\ op = [r \in Request |-> NONE]
    /\ token = [r \in Request |-> NONE]
    /\ found = [r \in Request |-> NONE]
    /\ user = [r \in Request |-> NONE]
    /\ fam = [r \in Request |-> NONE]
    /\ answer = [r \in Request |-> NONE]
    /\ faults = 0 /\ faulted = {} /\ spent = {}

\* login: a fresh family; updateLastLogin touches no column modelled here.
BeginLogin(r, u) ==
    /\ pc[r] = "idle"
    /\ op' = [op EXCEPT ![r] = "login"]
    /\ user' = [user EXCEPT ![r] = u]
    /\ fam' = [fam EXCEPT ![r] = r]
    /\ Goto(r, "create")
    /\ UNCHANGED <<table, clock, token, found, history>>

\* The token of a request that arrives, and whether it is already spent.
Present(r, t, handler) ==
    /\ pc[r] = "idle"
    /\ t.kind \in TokenKinds /\ Held(t)
    /\ op' = [op EXCEPT ![r] = handler]
    /\ token' = [token EXCEPT ![r] = t]
    /\ spent' = IF Dead(t.row) THEN spent \cup {r} ELSE spent
    /\ UNCHANGED <<table, clock, found, user, fam, faults, faulted>>

\* refreshTokens up to its first statement: verifyAsync rejects a lapsed token.
BeginRefresh(r, t) ==
    /\ Present(r, t, "refresh")
    /\ IF t \in lapsed THEN Return(r, "invalid") ELSE Goto(r, "find")

\* logout does not verify the token: a lapsed one is looked up all the same.
BeginLogout(r, t) ==
    /\ Present(r, t, "logout")
    /\ Goto(r, "find")

-----------------------------------------------------------------------------
(* The statements of a request in flight. *)

\* Slip: only session.revokedAt is tested, or only session.expiresAt.
FindTesting(r, dead(_)) ==
    /\ pc[r] = "find" /\ op[r] = "refresh"
    /\ \E s \in rows :
       /\ hash[s] = hashToken(token[r])
       /\ found' = [found EXCEPT ![r] = s]
       /\ user' = [user EXCEPT ![r] = owner[s]]
       /\ fam' = [fam EXCEPT ![r] = family[s]]
       /\ Goto(r, IF dead(s) THEN "revokeFamily" ELSE "create")
    /\ UNCHANGED <<table, clock, op, token, history>>
FindIgnoresExpiry(r) == FindTesting(r, LAMBDA s : revoked[s])
FindIgnoresRevocation(r) == FindTesting(r, LAMBDA s : s \in expired)

\* findSessionByTokenHash of refreshTokens and what follows from its result.
\* The row found is a snapshot: its owner and family go to locals.  The
\* revoked and expired columns are never read again.
RefreshFind(r) ==
    /\ pc[r] = "find" /\ op[r] = "refresh"
    /\ \/ /\ \A s \in rows : hash[s] # hashToken(token[r])
          /\ fam' = [fam EXCEPT ![r] = payloadFamily(token[r])]
          /\ Goto(r, "revokeFamily")
          /\ UNCHANGED <<found, user>>
       \/ \E s \in rows :
          /\ hash[s] = hashToken(token[r])
          /\ found' = [found EXCEPT ![r] = s]
          /\ user' = [user EXCEPT ![r] = owner[s]]
          /\ fam' = [fam EXCEPT ![r] = family[s]]
          /\ Goto(r, IF Dead(s) THEN "revokeFamily" ELSE "create")
    /\ UNCHANGED <<table, clock, op, token, history>>

\* Slip: revokeFamily without its where clause.
RevokeEveryRow(r) ==
    /\ pc[r] = "revokeFamily"
    /\ revoked' = [s \in Request |-> revoked[s] \/ s \in rows]
    /\ Return(r, "reused")
    /\ UNCHANGED <<rows, owner, family, hash, replacedBy, clock, locals, history>>

\* Slip: revokeFamily updates one session instead of the family.
RevokeOneRow(r) ==
    /\ pc[r] = "revokeFamily"
    /\ revoked' = [s \in Request |-> revoked[s] \/ s = token[r].row]
    /\ Return(r, "reused")
    /\ UNCHANGED <<rows, owner, family, hash, replacedBy, clock, locals, history>>

\* revokeFamily, then 401 'Invalid or reused refresh token'.  Prisma drops a
\* filter whose value is undefined: without a family every row is updated.
RevokeFamily(r) ==
    /\ pc[r] = "revokeFamily"
    /\ revoked' = [s \in Request |->
                     revoked[s] \/ (s \in rows /\ fam[r] \in {NONE, family[s]})]
    /\ Return(r, "reused")
    /\ UNCHANGED <<rows, owner, family, hash, replacedBy, clock, locals, history>>

\* touchSession (a column not modelled) and createSession: the hash 'PENDING'
\* is the same for every request and the column is unique.
CreateSession(r) ==
    /\ pc[r] = "create"
    /\ \A s \in rows : hash[s] # PENDING
    /\ rows' = rows \cup {r}
    /\ owner' = [owner EXCEPT ![r] = user[r]]
    /\ family' = [family EXCEPT ![r] = fam[r]]
    /\ hash' = [hash EXCEPT ![r] = PENDING]
    /\ Goto(r, "store")
    /\ UNCHANGED <<replacedBy, revoked, clock, locals, history>>

\* createSession while another request's row is still PENDING.
UniqueViolation(r) ==
    /\ pc[r] = "create"
    /\ \E s \in rows : hash[s] = PENDING
    /\ Return(r, Thrown(r))
    /\ UNCHANGED <<table, clock, locals, history>>

\* Slip: refreshTokens forgets to update the new row.
StoreOnLoginOnly(r) ==
    /\ pc[r] = "store"
    /\ hash' = [hash EXCEPT ![r] =
                  IF op[r] = "login" THEN hashToken(RefreshToken(r)) ELSE @]
    /\ IF op[r] = "login" THEN Return(r, "ok") ELSE Goto(r, "replace")
    /\ UNCHANGED <<rows, owner, family, replacedBy, revoked, clock, locals, history>>

\* generateTokens, then the digest of the new refresh token replaces PENDING.
\* A login is over here.
StoreHash(r) ==
    /\ pc[r] = "store"
    /\ hash' = [hash EXCEPT ![r] = hashToken(RefreshToken(r))]
    /\ IF op[r] = "login" THEN Return(r, "ok") ELSE Goto(r, "replace")
    /\ UNCHANGED <<rows, owner, family, replacedBy, revoked, clock, locals, history>>

\* setReplacementTokenHash on the row that was found.
SetReplacement(r) ==
    /\ pc[r] = "replace"
    /\ replacedBy' = [replacedBy EXCEPT ![found[r]] = hashToken(RefreshToken(r))]
    /\ Goto(r, "revoke")
    /\ UNCHANGED <<rows, owner, family, hash, revoked, clock, locals, history>>

\* Slip: refreshTokens revokes the new session instead of the old one.
RevokeNewSession(r) ==
    /\ pc[r] = "revoke"
    /\ revoked' = [revoked EXCEPT ![IF op[r] = "refresh" THEN r ELSE found[r]] = TRUE]
    /\ Return(r, "ok")
    /\ UNCHANGED <<rows, owner, family, hash, replacedBy, clock, locals, history>>

\* revokeSession on the row that was found: the end of refreshTokens and logout.
RevokeSession(r) ==
    /\ pc[r] = "revoke"
    /\ revoked' = [revoked EXCEPT ![found[r]] = TRUE]
    /\ Return(r, "ok")
    /\ UNCHANGED <<rows, owner, family, hash, replacedBy, clock, locals, history>>

\* findSessionByTokenHash of logout: an unknown token is answered like any other.
LogoutFind(r) ==
    /\ pc[r] = "find" /\ op[r] = "logout"
    /\ \/ /\ \A s \in rows : hash[s] # hashToken(token[r])
          /\ Return(r, "ok")
          /\ UNCHANGED found
       \/ \E s \in rows :
          /\ hash[s] = hashToken(token[r])
          /\ found' = [found EXCEPT ![r] = s]
          /\ Goto(r, "revoke")
    /\ UNCHANGED <<table, clock, op, token, user, fam, history>>

-----------------------------------------------------------------------------
(* Failures and the passing of time. *)

\* The statement a request is at fails without effect.
DbFails(r) ==
    /\ InFlight(r) /\ faults < MaxFaults
    /\ faults' = faults + 1
    /\ faulted' = faulted \cup {r}
    /\ Return(r, Thrown(r))
    /\ UNCHANGED <<table, clock, locals, spent>>

\* The process dies and is restarted: the requests in flight are never answered.
Crash ==
    /\ ~Quiet /\ faults < MaxFaults
    /\ faults' = faults + 1
    /\ faulted' = faulted \cup {r \in Request : InFlight(r)}
    /\ pc' = [r \in Request |-> IF InFlight(r) THEN "done" ELSE pc[r]]
    /\ UNCHANGED <<table, clock, locals, answer, spent>>

\* A row passes its expiresAt; a token passes its exp claim.  The two are
\* computed at different moments with different precision: either may be first.
Expire(s) ==
    /\ s \in (rows \cap Aging) \ expired
    /\ expired' = expired \cup {s}
    /\ UNCHANGED <<table, lapsed, pc, locals, answer, history>>

Lapse(t) ==
    /\ t.kind \in TokenKinds /\ t.row \in Aging /\ t \notin lapsed /\ Held(t)
    /\ lapsed' = lapsed \cup {t}
    /\ UNCHANGED <<table, expired, pc, locals, answer, history>>

-----------------------------------------------------------------------------
Begin(r) ==
    \/ \E u \in User : BeginLogin(r, u)
    \/ \E t \in Token : BeginRefresh(r, t) \/ BeginLogout(r, t)

Step(r) ==
    \/ RefreshFind(r)
    \/ RevokeFamily(r)
    \/ CreateSession(r)
    \/ UniqueViolation(r)
    \/ StoreHash(r)
    \/ SetReplacement(r)
    \/ RevokeSession(r)
    \/ LogoutFind(r)

Environment ==
    \/ \E r \in Request : DbFails(r)
    \/ Crash
    \/ \E s \in Request : Expire(s)
    \/ \E t \in Token : Lapse(t)

Next == (\E r \in Request : Begin(r) \/ Step(r)) \/ Environment

Spec == Init /\ [][Next]_vars

\* The same handlers when a request is sent only after the last one was
\* answered: what holds here and fails under Spec is due to interleaving.
SerialNext == \/ Quiet /\ \E r \in Request : Begin(r)
              \/ \E r \in Request : Step(r)
              \/ Environment

\* Node resumes a handler whose statement has been answered, and the database
\* answers every statement; nobody has to send a request.
SerialSpec == Init /\ [][SerialNext]_vars /\ \A r \in Request : WF_vars(Step(r))
-----------------------------------------------------------------------------
(* Safety, under any interleaving, failure and crash. *)

\* A token a client holds can be found: its digest is in the row created for
\* it, under the user that logged in.  (PENDING is always overwritten, and by
\* the right digest, before login and refreshTokens return.)
HeldTokenIsStored ==
    \A r \in Request : Held(RefreshToken(r)) =>
        /\ r \in rows /\ hash[r] = hashToken(RefreshToken(r))
        /\ owner[r] = user[family[r]] /\ op[family[r]] = "login"

\* The rows of a token family belong to one user, so revoking a family never
\* reaches another user's sessions (auth.repository.ts, revokeFamily).
FamilyHasOneOwner ==
    \A s, t \in rows : family[s] = family[t] => owner[s] = owner[t]

\* A refresh token whose row was revoked or expired when the request arrived is
\* never rotated, whatever runs between the arrival and the lookup.
SpentTokenNeverRotates ==
    \A r \in spent : op[r] = "refresh" => answer[r] # "ok"

\* README "Every refresh invalidates the previous token": when a client receives
\* a new pair, the row of the token it sent is revoked and points to the new one
\* or to that of another request that rotated the same token.
RefreshConsumesToken ==
    \A r \in Request : op[r] = "refresh" /\ answer[r] = "ok" =>
        /\ revoked[token[r].row]
        /\ \E q \in rows : /\ replacedBy[token[r].row] = hash[q]
                           /\ token[q] = token[r]
                           /\ family[q] = family[token[r].row]

\* Once every row of a family is revoked and no refresh of it is between its
\* lookup and its insert, the family stays dead: no later refresh revives it.
FamilyDead(f) == \A s \in rows : family[s] = f => revoked[s]
NoneRotating(f) == \A r \in Request :
    pc[r] \in {"create", "store"} => fam[r] # f
Closed(f) == FamilyDead(f) /\ NoneRotating(f)
ClosedStaysClosed == \A f \in rows : Closed(f) => Closed(f)'
DeadFamilyStaysDead == [][ClosedStaysClosed]_vars

\* A revoked session never comes back, no session is moved to another user or
\* family, and a session ends only with the answer to a request that presented a
\* refresh token of its family - so of its user - or, to refreshTokens, an access
\* token, which names no family: nothing a client does with its refresh tokens
\* ends the session of another login, let alone of another user.
EndsSessionOf(r, s) ==
    /\ pc[r] \in {"revoke", "revokeFamily"} /\ pc'[r] = "done"
    /\ IF token[r].kind = "refresh"
       THEN family[token[r].row] = family[s] /\ owner[token[r].row] = owner[s]
       ELSE op[r] = "refresh" /\ pc[r] = "revokeFamily"
RevocationStep ==
    \A s \in rows :
        /\ revoked[s] => revoked'[s]
        /\ owner'[s] = owner[s] /\ family'[s] = family[s]
        /\ revoked'[s] /\ ~revoked[s] => \E r \in Request : EndsSessionOf(r, s)
RevokedOnBehalfOfOwner == [][RevocationStep]_vars

\* README "Reuse triggers family revocation - all sessions for the user are
\* revoked": a request answered as reused ends sessions of the user whose token
\* it presented, and nobody else's.  The code does not keep this: an access token
\* passes verifyAsync, and its revokeFamily has no family to filter by.
ReuseStep ==
    \A r \in Request, s \in rows :
        /\ pc[r] = "revokeFamily" /\ answer'[r] = "reused"
        /\ ~revoked[s] /\ revoked'[s]
        => owner[s] = owner[token[r].row]
ReuseEndsOwnSessions == [][ReuseStep]_vars

\* A login, or a refresh of a token that is good, is refused only by a failure of
\* its own or because another request - of any user - is between its insert and
\* its digest, or broke off there; and one that is refused so has written nothing,
\* so its client may send the token again.  (refreshTokens answers it with 401
\* 'Invalid refresh token' all the same, as if the token were worthless.)
RefusalStep ==
    \A r \in Request : answer[r] = NONE /\ answer'[r] \in {"invalid", "error"} =>
        \/ token'[r] \in lapsed
        \/ r \in faulted'
        \/ /\ op[r] # "logout" /\ r \notin rows /\ UNCHANGED table
           /\ \E s \in rows : hash[s] = PENDING /\ (pc[s] = "store" \/ s \in faulted)
RefusedByCollision == [][RefusalStep]_vars

-----------------------------------------------------------------------------
(* The inductive invariant behind the state properties above. *)

\* What a request has done so far shows in its location.
LocationTellsProgress ==
    \A r \in Request :
        /\ pc[r] = "idle" <=> op[r] = NONE
        /\ answer[r] = "ok" => pc[r] = "done"
        /\ op[r] = "login" => /\ pc[r] \in {"create", "store", "done"}
                              /\ fam[r] = r /\ user[r] \in User
        /\ op[r] = "logout" => pc[r] \in {"find", "revoke", "done"}
        /\ pc[r] \in {"idle", "find", "create", "revokeFamily"} => r \notin rows
        /\ pc[r] \in {"store", "replace"} => r \in rows
        /\ pc[r] \in {"revoke", "done"} /\ op[r] = "logout" => r \notin rows
        /\ pc[r] = "revoke" /\ op[r] = "refresh" => r \in rows

\* A row was written from the locals of its request, and its hash is either
\* PENDING or the digest of the refresh token signed for it.
RowIsFromItsRequest ==
    \A s \in rows :
        /\ op[s] \in {"login", "refresh"}
        /\ owner[s] = user[s] /\ family[s] = fam[s]
        /\ family[s] \in Request /\ op[family[s]] = "login"
        /\ owner[s] = user[family[s]]
        /\ hash[s] \in {PENDING, hashToken(RefreshToken(s))}
        /\ pc[s] \in {"replace", "revoke"} => hash[s] = hashToken(RefreshToken(s))

\* The row a request found is the row of the token it was called with; what a
\* refresh copied from it is still there.
FoundIsRowOfToken ==
    \A r \in Request :
        /\ \/ pc[r] \in {"create", "store", "replace", "revoke"} /\ op[r] # "login"
           \/ r \in rows /\ op[r] = "refresh"
           => found[r] \in rows /\ token[r] = RefreshToken(found[r])
        /\ (pc[r] = "create" \/ r \in rows) /\ op[r] = "refresh" =>
             fam[r] = family[found[r]] /\ user[r] = owner[found[r]]

\* A request works with a token its client was given, and the family it is
\* about to revoke is the one that token names.
PresentedTokenIsHeld ==
    \A r \in Request :
        /\ op[r] \in {"refresh", "logout"} =>
             Held(token[r]) /\ token[r].kind \in TokenKinds
        /\ pc[r] = "revokeFamily" =>
             op[r] = "refresh" /\ fam[r] = payloadFamily(token[r])

\* A spent token stays spent and its request stays off the rotating path.
SpentStaysOut ==
    \A r \in spent :
        /\ pc[r] # "idle"
        /\ op[r] = "refresh" => /\ Dead(token[r].row) /\ answer[r] # "ok"
                               /\ pc[r] \in {"find", "revokeFamily", "done"}

\* replacedByTokenHash is the digest of a token that a refresh of this row got.
ReplacementIsRotation ==
    /\ \A s \in Request : replacedBy[s] # NONE =>
         \E q \in rows : /\ replacedBy[s] = hash[q]
                         /\ hash[q] = hashToken(RefreshToken(q))
                         /\ op[q] = "refresh" /\ found[q] = s
    /\ \A r \in Request : op[r] = "refresh" =>
         /\ pc[r] = "revoke" => replacedBy[found[r]] # NONE
         /\ answer[r] = "ok" => /\ r \in rows /\ revoked[found[r]]
                                /\ replacedBy[found[r]] # NONE

\* A row is PENDING while its request is under way, or for ever if that broke off.
PendingHasCause ==
    \A s \in rows : hash[s] = PENDING => pc[s] = "store" \/ s \in faulted

\* The invariant TLAPS proves inductive; with TypeOK it implies the others.
Inv ==
    /\ HeldTokenIsStored /\ LocationTellsProgress /\ RowIsFromItsRequest
    /\ FoundIsRowOfToken /\ PresentedTokenIsHeld /\ SpentStaysOut
    /\ ReplacementIsRotation

-----------------------------------------------------------------------------
(* Safety, when one request runs at a time (SerialSpec). *)

\* An answer that refuses a valid token, or a login, is explained by a failure
\* of the request itself, or by an earlier request that a failure left PENDING.
RefusalIsExplained ==
    \A r \in Request : answer[r] \in {"invalid", "error"} =>
        \/ token[r] \in lapsed
        \/ r \in faulted
        \/ op[r] # "logout" /\ \E s \in rows \cap faulted : hash[s] = PENDING

-----------------------------------------------------------------------------
(* What rotation promises, as a specification of its own. *)

\* A family that was answered as reused, or logged out with a token that worked.
Over(f) == \E r \in Request :
    /\ token[r] # NONE /\ token[r].kind = "refresh" /\ family[token[r].row] = f
    /\ \/ answer[r] = "reused"
       \/ answer[r] = "ok" /\ op[r] = "logout" /\ r \notin spent

Rotated == {s \in Request : \E r \in Request :
                op[r] = "refresh" /\ answer[r] = "ok" /\ token[r].row = s}

Rotation == INSTANCE AuthRotation WITH
    Family <- Request, Token <- Request,
    current <- [f \in Request |-> {r \in rows : Usable(r) /\ family[r] = f}],
    handed <- {<<family[r], r>> : r \in {q \in Request : Held(RefreshToken(q))}},
    used <- {<<family[r], r>> : r \in Rotated},
    ended <- {f \in Request : Over(f)}

\* The statements of login, refresh and logout, one request at a time, implement
\* rotation: in every state, also between two statements and after any failure or
\* crash, a family has at most one token that works, a token is rotated at most
\* once and gives way to its successor in one step, and after a logout with a
\* token that worked, or a reuse (README "Reuse triggers family revocation"), no
\* token of the family ever works again.
ImplementsRotation == Rotation!Spec

-----------------------------------------------------------------------------
(* The invariant behind the last two, with one request at a time. *)

\* Where the answers, the failures and the rows left PENDING are.
AnswersComeLast ==
    /\ \A r \in Request : /\ pc[r] # "done" => answer[r] = NONE
                          /\ token[r] # NONE => op[r] \in {"refresh", "logout"}
    /\ \A r \in faulted : pc[r] = "done"
    /\ PendingHasCause

OneInFlight == \A q, r \in Request : InFlight(q) /\ InFlight(r) => q = r

\* A family begins with the token of a login: its first token was handed out
\* before any other row joined it.
FamilyIsHeld == \A s \in rows : op[s] = "refresh" => Held(RefreshToken(family[s]))

\* r is the only row of its family whose token would work, if any does.
OnlyUsable(r) == \A s \in rows : Usable(s) /\ family[s] = family[r] => s = r

\* A family has one token that works, and none after it is over.
CurrentIsAlone == \A s \in rows : Usable(s) => OnlyUsable(s) /\ ~Over(family[s])

\* A request that will end the session it looked up found the one that works.
WorkIsOnCurrent ==
    \A r \in Request :
        /\ op[r] = "refresh" /\ pc[r] \in {"create", "store", "replace", "revoke"} =>
             OnlyUsable(found[r]) /\ ~Over(family[found[r]]) /\ found[r] \notin Rotated
        /\ op[r] = "logout" /\ InFlight(r) /\ token[r].kind = "refresh" =>
             IF r \in spent THEN Dead(token[r].row) ELSE OnlyUsable(token[r].row)

SerialInv ==
    /\ AnswersComeLast /\ OneInFlight /\ FamilyIsHeld /\ CurrentIsAlone
    /\ WorkIsOnCurrent /\ RefusalIsExplained
=============================================================================
