------------------------------ MODULE RateLimiter ------------------------------
(***************************************************************************)
(* RedisThrottlerGuard: a sliding window per client, throttler and path,   *)
(* kept in a Redis sorted set whose scores are the times the requests were *)
(* received.  A request reads the clock, then one MULTI adds it, drops the *)
(* members that left its window and counts the rest.  Between the two      *)
(* other requests may run theirs, so the sets are not filled in time order.*)
(***************************************************************************)
EXTENDS Integers, FiniteSets

CONSTANTS
    Request,
    Client,      \* what getTracker returns: user:<sub> or ip:<address>
    Path,        \* request.path
    Limit,       \* limit of the throttler that applies to a path
    Ttl,         \* its ttl, in ticks
    Grace,       \* ticks a key outlives its window: ceil(ttl / 1000) + 1 seconds
    MaxDelay,    \* ticks between Date.now() and the MULTI of a request, at most
    MaxTime      \* bound: the clock

ASSUME ConstantsAssumption ==
    /\ Limit \in [Path -> Nat]
    /\ Ttl \in Nat \ {0} /\ Grace \in Nat /\ MaxTime \in Nat
    /\ MaxDelay \in 0 .. Ttl - 1

VARIABLES
    now,         \* the clock of the process and of Redis
    pc,          \* "idle", "stamped", then what became of the request
    stamp,       \* now of handleRequest
    client, path,
    members,     \* the sorted set of each key
    expireAt     \* when Redis drops the key

vars == <<now, pc, stamp, client, path, members, expireAt>>

Key == Client \X Path

\* The transaction of a request in one of these ran: its reply made the verdict,
\* or was lost on the way.
Ran == {"admitted", "denied", "lost"}

\* key of handleRequest; the throttler is a function of the path.
keyOf(r) == <<client[r], path[r]>>

TypeOK ==
    /\ now \in 0 .. MaxTime
    /\ pc \in [Request -> {"idle", "stamped", "failed"} \cup Ran]
    /\ stamp \in [Request -> 0 .. MaxTime]
    /\ client \in [Request -> Client] /\ path \in [Request -> Path]
    /\ members \in [Key -> SUBSET Request]
    /\ expireAt \in [Key -> Nat]

-----------------------------------------------------------------------------
Init ==
    /\ now = 0
    /\ pc = [r \in Request |-> "idle"]
    /\ stamp = [r \in Request |-> 0]
    /\ client \in [Request -> Client] /\ path \in [Request -> Path]
    /\ members = [k \in Key |-> {}]
    /\ expireAt = [k \in Key |-> 0]

\* handleRequest up to its MULTI: tracker, key and Date.now().
Receive(r) ==
    /\ pc[r] = "idle"
    /\ pc' = [pc EXCEPT ![r] = "stamped"]
    /\ stamp' = [stamp EXCEPT ![r] = now]
    /\ UNCHANGED <<now, client, path, members, expireAt>>

\* The members of k that Redis still holds.
Live(k) == IF now < expireAt[k] THEN members[k] ELSE {}

\* zadd, then zremrangebyscore(0, now - ttl) with the request's own now.
Counted(r) == {q \in Live(keyOf(r)) \cup {r} : stamp[q] > stamp[r] - Ttl}

\* Slip: the request is counted before it is added.
CheckThenAdd(r) ==
    /\ pc[r] = "stamped"
    /\ members' = [members EXCEPT ![keyOf(r)] = Counted(r)]
    /\ expireAt' = [expireAt EXCEPT ![keyOf(r)] = now + Ttl + Grace]
    /\ pc' = [pc EXCEPT ![r] =
                IF Cardinality(Counted(r) \ {r}) > Limit[path[r]] THEN "denied" ELSE "admitted"]
    /\ UNCHANGED <<now, stamp, client, path>>

\* Slip: the members that left the window are not removed.
CheckNeverRemoves(r) ==
    /\ pc[r] = "stamped"
    /\ members' = [members EXCEPT ![keyOf(r)] = Live(keyOf(r)) \cup {r}]
    /\ expireAt' = [expireAt EXCEPT ![keyOf(r)] = now + Ttl + Grace]
    /\ pc' = [pc EXCEPT ![r] =
                IF Cardinality(Live(keyOf(r)) \cup {r}) > Limit[path[r]]
                THEN "denied" ELSE "admitted"]
    /\ UNCHANGED <<now, stamp, client, path>>

\* The MULTI: zadd, zremrangebyscore, zcard and expire of one request.
Transact(r) ==
    /\ pc[r] = "stamped"
    /\ members' = [members EXCEPT ![keyOf(r)] = Counted(r)]
    /\ expireAt' = [expireAt EXCEPT ![keyOf(r)] = now + Ttl + Grace]

\* The MULTI and the verdict.  A denied request stays a member of the set.
Check(r) ==
    /\ Transact(r)
    /\ pc' = [pc EXCEPT ![r] =
                IF Cardinality(Counted(r)) > Limit[path[r]] THEN "denied" ELSE "admitted"]
    /\ UNCHANGED <<now, stamp, client, path>>

\* The MULTI runs, but exec is rejected or returns too little (the connection
\* broke before the reply was read): 500, and the request stays a member.
ReplyLost(r) ==
    /\ Transact(r)
    /\ pc' = [pc EXCEPT ![r] = "lost"]
    /\ UNCHANGED <<now, stamp, client, path>>

\* exec is rejected and nothing ran: 500, and the set is as before.
CheckFails(r) ==
    /\ pc[r] = "stamped"
    /\ pc' = [pc EXCEPT ![r] = "failed"]
    /\ UNCHANGED <<now, stamp, client, path, members, expireAt>>

\* No stamped request waits longer than MaxDelay for its MULTI.
Tick ==
    /\ now < MaxTime
    /\ \A r \in Request : pc[r] = "stamped" => now < stamp[r] + MaxDelay
    /\ now' = now + 1
    /\ UNCHANGED <<pc, stamp, client, path, members, expireAt>>

Next ==
    \/ \E r \in Request : Receive(r) \/ Check(r) \/ ReplyLost(r) \/ CheckFails(r)
    \/ Tick

Spec == Init /\ [][Next]_vars

-----------------------------------------------------------------------------
(* Safety. *)

Admitted(k, from, to) ==
    {r \in Request : pc[r] = "admitted" /\ keyOf(r) = k /\ stamp[r] \in from .. to - 1}

\* The promise of the sliding window, with the delay between the clock and the
\* MULTI accounted for: of the requests of one client to one path received in
\* any Ttl - MaxDelay ticks, at most Limit are admitted, in whatever order
\* their transactions ran and although Redis drops the key of an idle client.
AdmittedAtMostLimit ==
    \A k \in Key, t \in 0 .. MaxTime :
        Cardinality(Admitted(k, t, t + Ttl - MaxDelay)) <= Limit[k[2]]

\* The requests of r's key that were received in its window or after it and whose
\* transaction ran: admitted, denied, or answered 500 because its reply was lost.
Rivals(r) == {q \in Request : /\ pc[q] \in Ran
                              /\ keyOf(q) = keyOf(r)
                              /\ stamp[q] > stamp[r] - Ttl}

\* A request is denied only when more than Limit requests of its key, itself and
\* all that were denied or lost included, were received in its window or after it.
\* A request whose transaction did not run never counts against another.
DeniedIsExplained ==
    \A r \in Request : pc[r] = "denied" => Cardinality(Rivals(r)) > Limit[path[r]]

-----------------------------------------------------------------------------
(* The inductive invariant behind AdmittedAtMostLimit. *)

\* A request that ran is a member of its key's set until no request that is yet
\* to be checked can have it in its window.
GoneIsOld ==
    \A r \in Request : pc[r] \in Ran =>
        \/ r \in members[keyOf(r)] /\ stamp[r] + Ttl + Grace <= expireAt[keyOf(r)]
        \/ /\ stamp[r] + Ttl - MaxDelay <= now
           /\ \A q \in Request : pc[q] = "stamped" => stamp[r] + Ttl - MaxDelay <= stamp[q]

\* Stamps lie in the past, and no further than the delay allows.
StampsAreRecent ==
    \A r \in Request : /\ pc[r] # "idle" => stamp[r] <= now
                       /\ pc[r] = "stamped" => now <= stamp[r] + MaxDelay

MembersAreChecked ==
    \A k \in Key : /\ IsFiniteSet(members[k])
                   /\ \A r \in members[k] : pc[r] \in Ran /\ keyOf(r) = k

Inv == GoneIsOld /\ StampsAreRecent /\ MembersAreChecked /\ AdmittedAtMostLimit
=============================================================================
