----------------------------- MODULE ProfileCache -----------------------------
(***************************************************************************)
(* ProfilesService over its two stores: the table profiles and the Redis   *)
(* query cache in front of it (cache-aside).  Listing, creating, deleting  *)
(* and importing run as separate statements on the two stores, so a list   *)
(* may fill the cache from a table that has changed since it read it, and  *)
(* a writer may change the table and never reach its invalidation.         *)
(*                                                                         *)
(* A request is one invocation of a handler.  A row is identified by its   *)
(* name and by the request that inserted it (its uuid).                    *)
(***************************************************************************)
EXTENDS Naturals, Sequences

CONSTANTS
    Request,     \* handler invocations
    Name,        \* normalised (lower-case) profile names
    Query,       \* cache keys: normalised filters
    Match,       \* the names each query selects
    File,        \* uploaded files: sequences of chunks, a chunk a set of names
    MaxFaults,   \* bound: failed statements and crashes in a behaviour
    Failing,     \* bound: the locations whose statement may fail
    MayCrash,    \* bound: whether the process may die
    SEED,        \* who inserted the rows that were there at the start (seed.ts)
    NONE,        \* a local not yet assigned
    MISS         \* redis.get found nothing

Row == [name : Name, by : Request \cup {SEED}]
Page == [total : SUBSET Row, data : SUBSET Row]

ASSUME ConstantsAssumption ==
    /\ Match \in [Query -> SUBSET Name]
    /\ File \subseteq Seq(SUBSET Name)
    /\ MaxFaults \in Nat /\ MayCrash \in BOOLEAN
    /\ MISS \notin Page
    /\ NONE \notin Query \cup Row /\ SEED \notin Request

VARIABLES
    db,          \* the rows of the table profiles
    cache,       \* the Redis keys profiles:*
    pc, op,      \* the statement a request executes next, and its handler
    query,       \* the cache key of a list
    row,         \* the row a create inserts or a delete removes
    todo,        \* the chunks an import has yet to flush
    counted,     \* what count(where) saw: the rows, of which the page has the number
    listed,      \* what findMany saw
    keys,        \* what redis.keys('profiles:*') returned
    answer,      \* what the client received
    faults,      \* failures so far
    \* histories for the properties
    faulted,     \* requests that a failure or a crash hit
    raced,       \* lists whose reads a write overlapped, or served such a page
    tainted,     \* entries filled by such a list
    orphaned,    \* entries present when a writer ended without invalidating
    wrote,       \* requests that changed the table
    uploaded,    \* the names in the file of an import
    erased       \* names a delete has removed

stores == <<db, cache>>
locals == <<op, query, row, todo, counted, listed, keys>>
history == <<faulted, raced, tainted, orphaned, wrote, uploaded, erased>>
vars == <<stores, pc, locals, answer, faults, history>>

Location == {"idle", "get", "read", "counted", "listed", "fill", "find", "enrich",
             "insert", "delete", "flush", "scan", "del", "done"}

TypeOK ==
    /\ db \subseteq Row
    /\ cache \in [Query -> Page \cup {MISS}]
    /\ pc \in [Request -> Location]
    /\ op \in [Request -> {"none", "list", "create", "delete", "import"}]
    /\ query \in [Request -> Query \cup {NONE}]
    /\ row \in [Request -> Row \cup {NONE}]
    /\ todo \in [Request -> Seq(SUBSET Name)]
    /\ counted \in [Request -> SUBSET Row]
    /\ listed \in [Request -> SUBSET Row]
    /\ keys \in [Request -> SUBSET Query]
    /\ answer \in [Request -> {"none", "ok", "existing", "notFound", "badGateway", "error"}]
    /\ faults \in 0 .. MaxFaults
    /\ faulted \subseteq Request /\ raced \subseteq Request /\ wrote \subseteq Request
    /\ tainted \subseteq Query /\ orphaned \subseteq Query
    /\ uploaded \in [Request -> SUBSET Name] /\ erased \subseteq Name

-----------------------------------------------------------------------------
(* State formulae. *)

InFlight(r) == pc[r] \notin {"idle", "done"}
Quiet == \A r \in Request : ~InFlight(r)

Selected(table, q) == {x \in table : x.name \in Match[q]}
Fresh(page, q) == page = [total |-> Selected(db, q), data |-> Selected(db, q)]
Coherent(q) == cache[q] # MISS => Fresh(cache[q], q)
Cached == {q \in Query : cache[q] # MISS}

Goto(r, location) == pc' = [pc EXCEPT ![r] = location] /\ UNCHANGED answer
Return(r, verdict) == /\ pc' = [pc EXCEPT ![r] = "done"]
                      /\ answer' = [answer EXCEPT ![r] = verdict]

\* Writer r has changed the table and has yet to delete entry q.
Owes(r, q) ==
    \/ pc[r] = "scan"
    \/ pc[r] = "del" /\ q \in keys[r]
    \/ pc[r] = "flush" /\ r \in wrote

HasRead(r) == pc[r] \in {"counted", "listed", "fill"}

\* The table becomes t on behalf of r; lists that have read are overtaken.
Write(r, t) ==
    /\ db' = t
    /\ wrote' = IF t = db THEN wrote ELSE wrote \cup {r}
    /\ raced' = IF t = db THEN raced ELSE raced \cup {x \in Request : HasRead(x)}

-----------------------------------------------------------------------------
Init ==
    /\ \E seeded \in SUBSET Name : db = {[name |-> n, by |-> SEED] : n \in seeded}
    /\ cache = [q \in Query |-> MISS]
    /\ pc = [r \in Request |-> "idle"]
    /\ op = [r \in Request |-> "none"]
    /\ query = [r \in Request |-> NONE] /\ row = [r \in Request |-> NONE]
    /\ todo = [r \in Request |-> <<>>]
    /\ counted = [r \in Request |-> {}] /\ listed = [r \in Request |-> {}]
    /\ keys = [r \in Request |-> {}]
    /\ answer = [r \in Request |-> "none"] /\ faults = 0
    /\ faulted = {} /\ raced = {} /\ tainted = {} /\ orphaned = {}
    /\ wrote = {} /\ uploaded = [r \in Request |-> {}] /\ erased = {}

Arrive(r, handler, location) ==
    /\ pc[r] = "idle"
    /\ op' = [op EXCEPT ![r] = handler]
    /\ Goto(r, location)
    /\ UNCHANGED <<stores, counted, listed, keys, faults, faulted, raced, tainted,
                   orphaned, wrote, erased>>

BeginList(r, q) ==
    /\ Arrive(r, "list", "get")
    /\ query' = [query EXCEPT ![r] = q]
    /\ UNCHANGED <<row, todo, uploaded>>

BeginCreate(r, n) ==
    /\ Arrive(r, "create", "find")
    /\ row' = [row EXCEPT ![r] = [name |-> n, by |-> r]]
    /\ UNCHANGED <<query, todo, uploaded>>

\* A client deletes a row whose id it has seen.
BeginDelete(r, x) ==
    /\ Arrive(r, "delete", "delete")
    /\ row' = [row EXCEPT ![r] = x]
    /\ UNCHANGED <<query, todo, uploaded>>

BeginImport(r, f) ==
    /\ Arrive(r, "import", IF f = <<>> THEN "scan" ELSE "flush")
    /\ todo' = [todo EXCEPT ![r] = f]
    /\ uploaded' = [uploaded EXCEPT ![r] = UNION {f[i] : i \in DOMAIN f}]
    /\ UNCHANGED <<query, row>>

-----------------------------------------------------------------------------
(* findAllProfiles. *)

\* redis.get: a hit is the answer, a miss goes to the table.
GetCached(r) ==
    /\ pc[r] = "get"
    /\ IF cache[query[r]] # MISS
         THEN /\ raced' = IF query[r] \in tainted THEN raced \cup {r} ELSE raced
              /\ counted' = [counted EXCEPT ![r] = cache[query[r]].total]
              /\ listed' = [listed EXCEPT ![r] = cache[query[r]].data]
              /\ Return(r, "ok")
         ELSE /\ Goto(r, "read")
              /\ UNCHANGED <<counted, listed, raced>>
    /\ UNCHANGED <<stores, op, query, row, todo, keys, faults, faulted, tainted,
                   orphaned, wrote, uploaded, erased>>

\* The two reads of Promise.all, in either order.
Count(r) ==
    /\ pc[r] \in {"read", "listed"}
    /\ counted' = [counted EXCEPT ![r] = Selected(db, query[r])]
    /\ Goto(r, IF pc[r] = "read" THEN "counted" ELSE "fill")
    /\ UNCHANGED <<stores, op, query, row, todo, listed, keys, faults, history>>

\* Slip: findMany without its where clause.
FindManyUnfiltered(r) ==
    /\ pc[r] \in {"read", "counted"}
    /\ listed' = [listed EXCEPT ![r] = db]
    /\ Goto(r, IF pc[r] = "read" THEN "listed" ELSE "fill")
    /\ UNCHANGED <<stores, op, query, row, todo, counted, keys, faults, history>>

FindMany(r) ==
    /\ pc[r] \in {"read", "counted"}
    /\ listed' = [listed EXCEPT ![r] = Selected(db, query[r])]
    /\ Goto(r, IF pc[r] = "read" THEN "listed" ELSE "fill")
    /\ UNCHANGED <<stores, op, query, row, todo, counted, keys, faults, history>>

\* redis.setex with what was read, whatever has happened to the table since.
Fill(r) ==
    /\ pc[r] = "fill"
    /\ cache' = [cache EXCEPT ![query[r]] = [total |-> counted[r], data |-> listed[r]]]
    /\ Return(r, "ok")
    /\ tainted' = IF r \in raced THEN tainted \cup {query[r]} ELSE tainted \ {query[r]}
    /\ orphaned' = orphaned \ {query[r]}
    /\ UNCHANGED <<db, locals, faults, faulted, raced, wrote, uploaded, erased>>

-----------------------------------------------------------------------------
(* createProfile. *)

\* Slip: the look-up uses the name as it was sent and never finds it.
FindNothing(r) ==
    /\ pc[r] = "find"
    /\ Goto(r, "enrich")
    /\ UNCHANGED <<stores, locals, faults, history>>

FindByName(r) ==
    /\ pc[r] = "find"
    /\ IF \E x \in db : x.name = row[r].name
         THEN Return(r, "existing") ELSE Goto(r, "enrich")
    /\ UNCHANGED <<stores, locals, faults, history>>

\* Three external calls; any that fails or returns no data is a 502.
Enrich(r) ==
    /\ pc[r] = "enrich"
    /\ Goto(r, "insert") \/ Return(r, "badGateway")
    /\ UNCHANGED <<stores, locals, faults, history>>

\* Slip: createProfile returns without invalidating.
InsertAndReturn(r) ==
    /\ pc[r] = "insert"
    /\ \A x \in db : x.name # row[r].name
    /\ Write(r, db \cup {row[r]})
    /\ Return(r, "ok")
    /\ UNCHANGED <<cache, locals, faults, faulted, tainted, orphaned, uploaded, erased>>

\* profilesRepository.create; name is unique in the table.
Insert(r) ==
    /\ pc[r] = "insert"
    /\ \A x \in db : x.name # row[r].name
    /\ Write(r, db \cup {row[r]})
    /\ Goto(r, "scan")
    /\ UNCHANGED <<cache, locals, faults, faulted, tainted, orphaned, uploaded, erased>>

\* P2002 is no HttpException: the filter answers 500.
InsertCollides(r) ==
    /\ pc[r] = "insert"
    /\ \E x \in db : x.name = row[r].name
    /\ Return(r, "error")
    /\ UNCHANGED <<stores, locals, faults, history>>

-----------------------------------------------------------------------------
(* deleteProfile. *)

Delete(r) ==
    /\ pc[r] = "delete" /\ row[r] \in db
    /\ Write(r, db \ {row[r]})
    /\ erased' = erased \cup {row[r].name}
    /\ Goto(r, "scan")
    /\ UNCHANGED <<cache, locals, faults, faulted, tainted, orphaned, uploaded>>

\* P2025 becomes 404.
DeleteMisses(r) ==
    /\ pc[r] = "delete" /\ row[r] \notin db
    /\ Return(r, "notFound")
    /\ UNCHANGED <<stores, locals, faults, history>>

-----------------------------------------------------------------------------
(* importFromCsv, from the rows that passed validation. *)

NewRows(r, chunk) ==
    {[name |-> n, by |-> r] : n \in {m \in chunk : \A x \in db : x.name # m}}

\* Slip: the last, partial chunk is never flushed.
FlushFullChunks(r) ==
    /\ pc[r] = "flush"
    /\ Write(r, IF Len(todo[r]) > 1 THEN db \cup NewRows(r, Head(todo[r])) ELSE db)
    /\ todo' = [todo EXCEPT ![r] = Tail(@)]
    /\ Goto(r, IF Len(todo[r]) = 1 THEN "scan" ELSE "flush")
    /\ UNCHANGED <<cache, op, query, row, counted, listed, keys, faults, faulted,
                   tainted, orphaned, uploaded, erased>>

\* createMany with skipDuplicates: one statement, names already there are left.
FlushChunk(r) ==
    /\ pc[r] = "flush"
    /\ Write(r, db \cup NewRows(r, Head(todo[r])))
    /\ todo' = [todo EXCEPT ![r] = Tail(@)]
    /\ Goto(r, IF Len(todo[r]) = 1 THEN "scan" ELSE "flush")
    /\ UNCHANGED <<cache, op, query, row, counted, listed, keys, faults, faulted,
                   tainted, orphaned, uploaded, erased>>

-----------------------------------------------------------------------------
(* invalidateQueryCache: KEYS, then DEL of those keys and no others. *)

ScanKeys(r) ==
    /\ pc[r] = "scan"
    /\ keys' = [keys EXCEPT ![r] = Cached]
    /\ IF Cached = {} THEN Return(r, "ok") ELSE Goto(r, "del")
    /\ UNCHANGED <<stores, op, query, row, todo, counted, listed, faults, history>>

DelKeys(r) ==
    /\ pc[r] = "del"
    /\ cache' = [q \in Query |-> IF q \in keys[r] THEN MISS ELSE cache[q]]
    /\ tainted' = tainted \ keys[r] /\ orphaned' = orphaned \ keys[r]
    /\ Return(r, "ok")
    /\ UNCHANGED <<db, locals, faults, faulted, raced, wrote, uploaded, erased>>

-----------------------------------------------------------------------------
(* Failures and the passing of time. *)

\* The statement a request is at fails without effect.  The controller maps
\* whatever deleteProfile throws to 404; everything else reaches the filter.
\* An import that fails in a later chunk skips its invalidation.
Fails(r) ==
    /\ InFlight(r) /\ pc[r] \in Failing \ {"enrich"} /\ faults < MaxFaults
    /\ faults' = faults + 1 /\ faulted' = faulted \cup {r}
    /\ orphaned' = orphaned \cup {q \in Cached : Owes(r, q)}
    /\ Return(r, IF op[r] = "delete" THEN "notFound" ELSE "error")
    /\ UNCHANGED <<stores, locals, raced, tainted, wrote, uploaded, erased>>

\* The process restarts; the table and Redis survive it.
Crash ==
    /\ MayCrash /\ ~Quiet /\ faults < MaxFaults
    /\ faults' = faults + 1 /\ faulted' = faulted \cup {r \in Request : InFlight(r)}
    /\ orphaned' = orphaned \cup {q \in Cached : \E r \in Request : Owes(r, q)}
    /\ pc' = [r \in Request |-> IF InFlight(r) THEN "done" ELSE pc[r]]
    /\ UNCHANGED <<stores, locals, answer, raced, tainted, wrote, uploaded, erased>>

\* The 300 seconds of an entry are over.
Evict(q) ==
    /\ cache[q] # MISS
    /\ cache' = [cache EXCEPT ![q] = MISS]
    /\ tainted' = tainted \ {q} /\ orphaned' = orphaned \ {q}
    /\ UNCHANGED <<db, pc, locals, answer, faults, faulted, raced, wrote, uploaded, erased>>

-----------------------------------------------------------------------------
Begin(r) ==
    \/ \E q \in Query : BeginList(r, q)
    \/ \E n \in Name : BeginCreate(r, n)
    \/ \E x \in db : BeginDelete(r, x)
    \/ \E f \in File : BeginImport(r, f)

Step(r) ==
    \/ GetCached(r) \/ Count(r) \/ FindMany(r) \/ Fill(r)
    \/ FindByName(r) \/ Enrich(r) \/ Insert(r) \/ InsertCollides(r)
    \/ Delete(r) \/ DeleteMisses(r)
    \/ FlushChunk(r)
    \/ ScanKeys(r) \/ DelKeys(r)

Environment ==
    \/ \E r \in Request : Fails(r)
    \/ Crash
    \/ \E q \in Query : Evict(q)

Next == (\E r \in Request : Begin(r) \/ Step(r)) \/ Environment

Spec == Init /\ [][Next]_vars

-----------------------------------------------------------------------------
(* Safety. *)

\* Whatever creates and imports run at once, a name has one row.
NamesUnique == \A x, y \in db : x.name = y.name => x = y

\* README "Cache is invalidated on any write": a cached page that differs from
\* the table is one that a writer still in flight is going to delete, or was
\* filled by a list that a write overtook, or its writer failed before its
\* invalidation.  Nothing else makes a page stale, in particular not the window
\* between KEYS and DEL.
StaleIsExplained ==
    \A q \in Query : Coherent(q) \/ q \in tainted \cup orphaned
                     \/ \E r \in Request : Owes(r, q)

\* total and data of an answered page agree unless a write overtook the list,
\* or the list that filled the page.
PageAddsUp ==
    \A r \in Request : op[r] = "list" /\ answer[r] = "ok" =>
        counted[r] = listed[r] \/ r \in raced

\* SOLUTION.md "the upload can be safely re-run and only the missing rows will
\* be inserted": after a successful import every name of the file has a row,
\* unless somebody deleted it, whatever ran or failed before it or beside it.
ImportedRowsAllPresent ==
    \A r \in Request : op[r] = "import" /\ answer[r] = "ok" =>
        \A n \in uploaded[r] : n \in erased \/ \E x \in db : x.name = n

-----------------------------------------------------------------------------
(* The inductive invariant behind the five properties above. *)

LocalsAreSet ==
    \A r \in Request :
        /\ op[r] = "none" <=> pc[r] = "idle"
        /\ op[r] = "list" =>
             /\ pc[r] \in {"get", "read", "counted", "listed", "fill", "done"}
             /\ query[r] \in Query
        /\ op[r] = "create" =>
             pc[r] \in {"find", "enrich", "insert", "scan", "del", "done"} /\ row[r] \in Row
        /\ op[r] = "delete" =>
             pc[r] \in {"delete", "scan", "del", "done"} /\ row[r] \in Row
        /\ op[r] = "import" => pc[r] \in {"flush", "scan", "del", "done"}
        /\ pc[r] = "flush" => todo[r] # <<>>
        /\ answer[r] = "ok" => pc[r] = "done"

\* What a list has read is what the table shows, unless a write overtook it.
UnracedIsCurrent ==
    \A r \in Request \ raced :
        /\ pc[r] \in {"counted", "fill"} => counted[r] = Selected(db, query[r])
        /\ pc[r] \in {"listed", "fill"} => listed[r] = Selected(db, query[r])

\* Only an overtaken list stores a total that is not the number of its data.
UntaintedPageAddsUp ==
    \A q \in Query \ tainted : cache[q] # MISS => cache[q].total = cache[q].data

\* A name of an import is yet to be flushed, in the table, or deleted since.
ImportProgress ==
    \A r \in Request : op[r] = "import" /\ (InFlight(r) \/ answer[r] = "ok") =>
        \A n \in uploaded[r] :
            \/ pc[r] = "flush" /\ \E i \in DOMAIN todo[r] : n \in todo[r][i]
            \/ n \in erased
            \/ \E x \in db : x.name = n

Inv ==
    /\ NamesUnique /\ StaleIsExplained /\ PageAddsUp
    /\ LocalsAreSet /\ UnracedIsCurrent /\ UntaintedPageAddsUp /\ ImportProgress

-----------------------------------------------------------------------------
(* What creates and deletes tell their clients. *)

\* profiles.controller.ts "If the profile already exists, returns the existing
\* one": a create answers 500 only when one of its own statements failed, or
\* another request inserted the name - it is still there or deleted since.  A
\* name that was there before any request never makes a create fail.
CreateErrorIsExplained ==
    \A r \in Request : op[r] = "create" /\ answer[r] = "error" =>
        \/ r \in faulted
        \/ row[r].name \in erased
        \/ \E x \in db : x.name = row[r].name /\ x.by # SEED

\* 404 'Profile not found': a delete that says so has deleted nothing, unless
\* its invalidation failed after the row was gone.
NotFoundDeletedNothing ==
    \A r \in Request : answer[r] = "notFound" /\ r \in wrote => r \in faulted

\* With the invariants above, what makes these two inductive: a create that has
\* looked saw none of the rows the table began with, a delete writes last.
CreateLooked ==
    \A r \in Request :
        /\ op[r] = "create" => row[r].by = r
        /\ pc[r] \in {"enrich", "insert"} =>
             \A x \in db : x.name = row[r].name => x.by # SEED
        /\ pc[r] \in {"idle", "delete"} => r \notin wrote
        /\ pc[r] # "done" => answer[r] = "none"

ClaimsInv == CreateErrorIsExplained /\ NotFoundDeletedNothing /\ CreateLooked
=============================================================================
