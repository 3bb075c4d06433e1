-------------------------- MODULE ProfileCacheProofs --------------------------
(* Proofs of the state properties of ProfileCache, for any sets of requests,  *)
(* names, queries and files, and any number of failures and crashes.          *)
EXTENDS ProfileCache, TLAPS

USE DEF stores, locals, history

\* What Head and Tail do to the chunks that are left.
LEMMA TailFacts ==
    ASSUME NEW S, NEW s \in Seq(S), s # <<>>
    PROVE  /\ Tail(s) \in Seq(S)
           /\ Len(s) # 1 => Tail(s) # <<>>
           /\ 1 \in DOMAIN s /\ s[1] = Head(s)
           /\ \A i \in DOMAIN s : i # 1 =>
                i - 1 \in DOMAIN Tail(s) /\ Tail(s)[i - 1] = s[i] /\ Len(s) # 1
<1>1. /\ Len(s) \in Nat \ {0} /\ DOMAIN s = 1 .. Len(s)
      /\ Len(Tail(s)) = Len(s) - 1 /\ Tail(s) \in Seq(S)
  OBVIOUS
<1>2. DOMAIN Tail(s) = 1 .. (Len(s) - 1)
  BY <1>1
<1>3. \A i \in DOMAIN s : i # 1 => i - 1 \in DOMAIN Tail(s) /\ Tail(s)[i - 1] = s[i]
  BY <1>1, <1>2
<1>4. Len(s) # 1 => Tail(s) # <<>>
  <2>1. Len(<<>>) = 0
    OBVIOUS
  <2>2. Tail(s) = <<>> => Len(Tail(s)) = 0
    BY <2>1, Zenon
  <2> QED
    BY <1>1, <2>2
<1>5. s[1] = Head(s)
  OBVIOUS
<1> QED
  BY <1>1, <1>3, <1>4, <1>5

-----------------------------------------------------------------------------
(* Types. *)

LEMMA SelectedIsRows == TypeOK => \A q \in Query : Selected(db, q) \in SUBSET Row
BY DEF TypeOK, Selected

LEMMA InitTypeOK == Init => TypeOK
BY ConstantsAssumption DEF Init, TypeOK, Location, Row

\* No step of any request, failure or clock takes the state out of its types.
LEMMA NextTypeOK == TypeOK /\ Inv /\ [Next]_vars => TypeOK'
<1> SUFFICES ASSUME TypeOK, Inv, [Next]_vars PROVE TypeOK'
  OBVIOUS
<1> USE DEF TypeOK, Goto, Return, Location
<1>1. CASE UNCHANGED vars
  BY <1>1 DEF vars
<1>2. ASSUME NEW r \in Request, NEW q \in Query, BeginList(r, q) PROVE TypeOK'
  BY <1>2 DEF BeginList, Arrive
<1>3. ASSUME NEW r \in Request, NEW n \in Name, BeginCreate(r, n) PROVE TypeOK'
  BY <1>3 DEF BeginCreate, Arrive, Row
<1>4. ASSUME NEW r \in Request, NEW x \in db, BeginDelete(r, x) PROVE TypeOK'
  BY <1>4 DEF BeginDelete, Arrive
<1>5. ASSUME NEW r \in Request, NEW f \in File, BeginImport(r, f) PROVE TypeOK'
  <2>1. f \in Seq(SUBSET Name) /\ UNION {f[i] : i \in DOMAIN f} \subseteq Name
    BY ConstantsAssumption
  <2> QED
    BY <1>5, <2>1 DEF BeginImport, Arrive
<1>6. ASSUME NEW r \in Request, GetCached(r) PROVE TypeOK'
  <2>1. query[r] \in Query
    BY <1>6 DEF GetCached, Inv, LocalsAreSet
  <2>2. CASE cache[query[r]] # MISS
    <3>1. cache[query[r]] \in Page
      BY <2>1, <2>2
    <3>2. cache[query[r]].total \subseteq Row /\ cache[query[r]].data \subseteq Row
      BY <3>1 DEF Page
    <3>3. counted' \in [Request -> SUBSET Row]
      BY <1>6, <2>2, <3>2 DEF GetCached
    <3>4. listed' \in [Request -> SUBSET Row]
      BY <1>6, <2>2, <3>2 DEF GetCached
    <3>5. raced' \subseteq Request
      BY <1>6, <2>2 DEF GetCached
    <3>6. pc' = [pc EXCEPT ![r] = "done"] /\ answer' = [answer EXCEPT ![r] = "ok"]
      BY <1>6, <2>2 DEF GetCached
    <3> QED
      BY <1>6, <3>3, <3>4, <3>5, <3>6 DEF GetCached
  <2>3. CASE cache[query[r]] = MISS
    BY <1>6, <2>3 DEF GetCached
  <2> QED
    BY <2>2, <2>3
<1>7. ASSUME NEW r \in Request, Count(r) PROVE TypeOK'
  BY <1>7, SelectedIsRows DEF Count, Inv, LocalsAreSet
<1>8. ASSUME NEW r \in Request, FindMany(r) PROVE TypeOK'
  BY <1>8, SelectedIsRows DEF FindMany, Inv, LocalsAreSet
<1>9. ASSUME NEW r \in Request, Fill(r) PROVE TypeOK'
  BY <1>9 DEF Fill, Page, Inv, LocalsAreSet
<1>10. ASSUME NEW r \in Request, FindByName(r) PROVE TypeOK'
  BY <1>10 DEF FindByName
<1>11. ASSUME NEW r \in Request, Enrich(r) PROVE TypeOK'
  BY <1>11 DEF Enrich
<1>12. ASSUME NEW r \in Request, Insert(r) PROVE TypeOK'
  BY <1>12 DEF Insert, Write, Inv, LocalsAreSet
<1>13. ASSUME NEW r \in Request, InsertCollides(r) PROVE TypeOK'
  BY <1>13 DEF InsertCollides
<1>14. ASSUME NEW r \in Request, Delete(r) PROVE TypeOK'
  BY <1>14 DEF Delete, Write, Row
<1>15. ASSUME NEW r \in Request, DeleteMisses(r) PROVE TypeOK'
  BY <1>15 DEF DeleteMisses
<1>16. ASSUME NEW r \in Request, FlushChunk(r) PROVE TypeOK'
  <2>1. todo[r] \in Seq(SUBSET Name) /\ todo[r] # <<>>
    BY <1>16 DEF FlushChunk, Inv, LocalsAreSet
  <2>2. Head(todo[r]) \subseteq Name /\ Tail(todo[r]) \in Seq(SUBSET Name)
    BY <2>1
  <2>3. NewRows(r, Head(todo[r])) \subseteq Row
    BY <2>2 DEF NewRows, Row
  <2> QED
    BY <1>16, <2>2, <2>3 DEF FlushChunk, Write
<1>17. ASSUME NEW r \in Request, ScanKeys(r) PROVE TypeOK'
  BY <1>17 DEF ScanKeys, Cached
<1>18. ASSUME NEW r \in Request, DelKeys(r) PROVE TypeOK'
  BY <1>18 DEF DelKeys
<1>19. ASSUME NEW r \in Request, Fails(r) PROVE TypeOK'
  BY <1>19, ConstantsAssumption DEF Fails, Cached
<1>20. ASSUME Crash PROVE TypeOK'
  BY <1>20, ConstantsAssumption DEF Crash, Cached
<1>21. ASSUME NEW q \in Query, Evict(q) PROVE TypeOK'
  BY <1>21 DEF Evict
<1> QED
  BY <1>1, <1>2, <1>3, <1>4, <1>5, <1>6, <1>7, <1>8, <1>9, <1>10, <1>11,
     <1>12, <1>13, <1>14, <1>15, <1>16, <1>17, <1>18, <1>19, <1>20, <1>21
     DEF Next, Begin, Step, Environment

-----------------------------------------------------------------------------
(* The invariant, action by action. *)

LEMMA InitInv == Init => Inv
BY DEF Init, Inv, NamesUnique, StaleIsExplained, PageAddsUp, LocalsAreSet,
   UnracedIsCurrent, UntaintedPageAddsUp, ImportProgress, Coherent, InFlight

(* A step of one request leaves to the others what the invariant says of them. *)

LEMMA StaleFrame ==
    ASSUME StaleIsExplained, NEW r \in Request,
           UNCHANGED <<db, cache, tainted, orphaned, keys, wrote>>,
           \A y \in Request \ {r} : pc'[y] = pc[y],
           pc[r] \notin {"scan", "del", "flush"}
    PROVE  StaleIsExplained'
BY DEF StaleIsExplained, Coherent, Fresh, Selected, Owes

LEMMA LocalsFrame ==
    ASSUME LocalsAreSet, NEW r \in Request,
           UNCHANGED <<op, query, row, todo>>,
           \A y \in Request \ {r} : pc'[y] = pc[y] /\ answer'[y] = answer[y],
           answer'[r] = "ok" => pc'[r] = "done",
           \/ op[r] = "list" /\ pc'[r] \in {"read", "counted", "listed", "fill", "done"}
           \/ op[r] = "create" /\ pc'[r] \in {"enrich", "insert", "scan", "del", "done"}
           \/ op[r] = "delete" /\ pc'[r] \in {"scan", "del", "done"}
           \/ op[r] = "import" /\ pc'[r] \in {"scan", "del", "done"}
    PROVE  LocalsAreSet'
BY DEF LocalsAreSet

LEMMA UnracedFrame ==
    ASSUME UnracedIsCurrent, NEW r \in Request,
           UNCHANGED <<db, query, counted, listed, raced>>,
           \A y \in Request \ {r} : pc'[y] = pc[y],
           pc'[r] \notin {"counted", "listed", "fill"}
    PROVE  UnracedIsCurrent'
BY DEF UnracedIsCurrent, Selected

LEMMA ImportFrame ==
    ASSUME ImportProgress, NEW r \in Request,
           UNCHANGED <<op, todo, uploaded, erased, db>>,
           \A y \in Request \ {r} : pc'[y] = pc[y] /\ answer'[y] = answer[y],
           op[r] # "import" \/ pc[r] \in {"scan", "del"}
    PROVE  ImportProgress'
BY DEF ImportProgress, InFlight

LEMMA BeginListKeeps ==
    ASSUME TypeOK, Inv, NEW r \in Request, NEW q \in Query, BeginList(r, q)
    PROVE  Inv'
<1> USE ConstantsAssumption DEF TypeOK, Location, Goto, Return, Inv, InFlight
<1>1. NamesUnique'
  BY DEF BeginList, Arrive, NamesUnique
<1>2. StaleIsExplained'
  BY DEF BeginList, Arrive, StaleIsExplained, Owes, Coherent, Fresh, Selected
<1>3. PageAddsUp'
  BY DEF BeginList, Arrive, PageAddsUp, LocalsAreSet
<1>4. LocalsAreSet'
  BY DEF BeginList, Arrive, LocalsAreSet
<1>5. UnracedIsCurrent'
  BY DEF BeginList, Arrive, UnracedIsCurrent, Selected
<1>6. UntaintedPageAddsUp'
  BY DEF BeginList, Arrive, UntaintedPageAddsUp
<1>7. ImportProgress'
  BY DEF BeginList, Arrive, ImportProgress
<1> QED
  BY <1>1, <1>2, <1>3, <1>4, <1>5, <1>6, <1>7

LEMMA BeginCreateKeeps ==
    ASSUME TypeOK, Inv, NEW r \in Request, NEW n \in Name, BeginCreate(r, n)
    PROVE  Inv'
<1> USE ConstantsAssumption DEF TypeOK, Location, Goto, Return, Inv, InFlight
<1>1. NamesUnique'
  BY DEF BeginCreate, Arrive, NamesUnique
<1>2. StaleIsExplained'
  BY DEF BeginCreate, Arrive, StaleIsExplained, Owes, Coherent, Fresh, Selected
<1>3. PageAddsUp'
  BY DEF BeginCreate, Arrive, PageAddsUp
<1>4. LocalsAreSet'
  <2>1. [name |-> n, by |-> r] \in Row
    BY DEF Row
  <2> QED
    BY <2>1 DEF BeginCreate, Arrive, LocalsAreSet
<1>5. UnracedIsCurrent'
  BY DEF BeginCreate, Arrive, UnracedIsCurrent, Selected
<1>6. UntaintedPageAddsUp'
  BY DEF BeginCreate, Arrive, UntaintedPageAddsUp
<1>7. ImportProgress'
  BY DEF BeginCreate, Arrive, ImportProgress
<1> QED
  BY <1>1, <1>2, <1>3, <1>4, <1>5, <1>6, <1>7

LEMMA BeginDeleteKeeps ==
    ASSUME TypeOK, Inv, NEW r \in Request, NEW x \in db, BeginDelete(r, x)
    PROVE  Inv'
<1> USE ConstantsAssumption DEF TypeOK, Location, Goto, Return, Inv, InFlight
<1>1. NamesUnique'
  BY DEF BeginDelete, Arrive, NamesUnique
<1>2. StaleIsExplained'
  BY DEF BeginDelete, Arrive, StaleIsExplained, Owes, Coherent, Fresh, Selected
<1>3. PageAddsUp'
  BY DEF BeginDelete, Arrive, PageAddsUp
<1>4. LocalsAreSet'
  BY DEF BeginDelete, Arrive, LocalsAreSet
<1>5. UnracedIsCurrent'
  BY DEF BeginDelete, Arrive, UnracedIsCurrent, Selected
<1>6. UntaintedPageAddsUp'
  BY DEF BeginDelete, Arrive, UntaintedPageAddsUp
<1>7. ImportProgress'
  BY DEF BeginDelete, Arrive, ImportProgress
<1> QED
  BY <1>1, <1>2, <1>3, <1>4, <1>5, <1>6, <1>7

LEMMA BeginImportKeeps ==
    ASSUME TypeOK, Inv, NEW r \in Request, NEW f \in File, BeginImport(r, f)
    PROVE  Inv'
<1> USE ConstantsAssumption DEF TypeOK, Location, Goto, Return, Inv, InFlight
<1>1. NamesUnique'
  BY DEF BeginImport, Arrive, NamesUnique
<1>2. StaleIsExplained'
  BY DEF BeginImport, Arrive, StaleIsExplained, Owes, Coherent, Fresh, Selected
<1>3. PageAddsUp'
  BY DEF BeginImport, Arrive, PageAddsUp
<1>4. LocalsAreSet'
  BY DEF BeginImport, Arrive, LocalsAreSet
<1>5. UnracedIsCurrent'
  BY DEF BeginImport, Arrive, UnracedIsCurrent, Selected
<1>6. UntaintedPageAddsUp'
  BY DEF BeginImport, Arrive, UntaintedPageAddsUp
<1>7. ImportProgress'
  BY DEF BeginImport, Arrive, ImportProgress
<1> QED
  BY <1>1, <1>2, <1>3, <1>4, <1>5, <1>6, <1>7

LEMMA GetCachedKeeps ==
    ASSUME TypeOK, Inv, NEW r \in Request, GetCached(r)
    PROVE  Inv'
<1> USE ConstantsAssumption DEF TypeOK, Location, Goto, Return, Inv, InFlight
<1>1. NamesUnique'
  BY DEF GetCached, NamesUnique
<1>2. StaleIsExplained'
  <2>1. /\ UNCHANGED <<db, cache, tainted, orphaned, keys, wrote>>
        /\ \A y \in Request \ {r} : pc'[y] = pc[y]
        /\ pc[r] \notin {"scan", "del", "flush"}
    BY DEF GetCached
  <2> QED
    BY <2>1 DEF StaleIsExplained, Coherent, Fresh, Selected, Owes
<1>3. PageAddsUp'
  <2>1. op[r] = "list" /\ query[r] \in Query
    BY DEF GetCached, LocalsAreSet
  <2>2. answer'[r] = "ok" => counted'[r] = listed'[r] \/ r \in raced'
    <3>1. CASE cache[query[r]] # MISS
      BY <2>1, <3>1 DEF GetCached, UntaintedPageAddsUp
    <3>2. CASE cache[query[r]] = MISS
      BY <3>2 DEF GetCached, LocalsAreSet
    <3> QED
      BY <3>1, <3>2
  <2>3. /\ UNCHANGED op /\ raced \subseteq raced'
        /\ \A y \in Request \ {r} : /\ answer'[y] = answer[y]
                                   /\ counted'[y] = counted[y] /\ listed'[y] = listed[y]
    BY DEF GetCached
  <2> QED
    BY <2>2, <2>3 DEF PageAddsUp
<1>4. LocalsAreSet'
  <2>1. op[r] = "list" /\ query[r] \in Query
    BY DEF GetCached, LocalsAreSet
  <2>2. /\ UNCHANGED <<op, query, row, todo>>
        /\ pc'[r] \in {"read", "done"} /\ (answer'[r] = "ok" => pc'[r] = "done")
    BY DEF GetCached, LocalsAreSet
  <2>3. \A y \in Request \ {r} : pc'[y] = pc[y] /\ answer'[y] = answer[y]
    BY DEF GetCached
  <2> QED
    BY <2>1, <2>2, <2>3, LocalsFrame
<1>5. UnracedIsCurrent'
  <2>1. /\ UNCHANGED <<db, query>> /\ raced \subseteq raced'
        /\ \A y \in Request \ {r} : /\ pc'[y] = pc[y]
                                   /\ counted'[y] = counted[y] /\ listed'[y] = listed[y]
        /\ pc'[r] \in {"read", "done"}
    BY DEF GetCached
  <2> QED
    BY <2>1 DEF UnracedIsCurrent, Selected
<1>6. UntaintedPageAddsUp'
  BY DEF GetCached, UntaintedPageAddsUp
<1>7. ImportProgress'
  <2>1. UNCHANGED <<op, todo, uploaded, erased, db>> /\ op[r] = "list"
    BY DEF GetCached, LocalsAreSet
  <2>2. \A y \in Request \ {r} : pc'[y] = pc[y] /\ answer'[y] = answer[y]
    BY DEF GetCached
  <2> QED
    BY <2>1, <2>2, ImportFrame
<1> QED
  BY <1>1, <1>2, <1>3, <1>4, <1>5, <1>6, <1>7

LEMMA CountKeeps ==
    ASSUME TypeOK, Inv, NEW r \in Request, Count(r)
    PROVE  Inv'
<1> USE ConstantsAssumption DEF TypeOK, Location, Goto, Return, Inv, InFlight
<1>1. NamesUnique'
  BY DEF Count, NamesUnique
<1>2. StaleIsExplained'
  BY DEF Count, StaleIsExplained, Owes, Coherent, Fresh, Selected
<1>3. PageAddsUp'
  BY DEF Count, PageAddsUp, LocalsAreSet
<1>4. LocalsAreSet'
  BY DEF Count, LocalsAreSet
<1>5. UnracedIsCurrent'
  BY DEF Count, UnracedIsCurrent, Selected
<1>6. UntaintedPageAddsUp'
  BY DEF Count, UntaintedPageAddsUp
<1>7. ImportProgress'
  BY DEF Count, ImportProgress
<1> QED
  BY <1>1, <1>2, <1>3, <1>4, <1>5, <1>6, <1>7

LEMMA FindManyKeeps ==
    ASSUME TypeOK, Inv, NEW r \in Request, FindMany(r)
    PROVE  Inv'
<1> USE ConstantsAssumption DEF TypeOK, Location, Goto, Return, Inv, InFlight
<1>1. NamesUnique'
  BY DEF FindMany, NamesUnique
<1>2. StaleIsExplained'
  BY DEF FindMany, StaleIsExplained, Owes, Coherent, Fresh, Selected
<1>3. PageAddsUp'
  BY DEF FindMany, PageAddsUp, LocalsAreSet
<1>4. LocalsAreSet'
  BY DEF FindMany, LocalsAreSet
<1>5. UnracedIsCurrent'
  BY DEF FindMany, UnracedIsCurrent, Selected
<1>6. UntaintedPageAddsUp'
  BY DEF FindMany, UntaintedPageAddsUp
<1>7. ImportProgress'
  BY DEF FindMany, ImportProgress
<1> QED
  BY <1>1, <1>2, <1>3, <1>4, <1>5, <1>6, <1>7

LEMMA FillKeeps ==
    ASSUME TypeOK, Inv, NEW r \in Request, Fill(r)
    PROVE  Inv'
<1> USE ConstantsAssumption DEF TypeOK, Location, Goto, Return, Inv, InFlight
<1>1. NamesUnique'
  BY DEF Fill, NamesUnique
<1>2. StaleIsExplained'
  BY DEF Fill, StaleIsExplained, LocalsAreSet, UnracedIsCurrent, Owes,
         Coherent, Fresh, Selected
<1>3. PageAddsUp'
  BY DEF Fill, PageAddsUp, LocalsAreSet, UnracedIsCurrent
<1>4. LocalsAreSet'
  BY DEF Fill, LocalsAreSet
<1>5. UnracedIsCurrent'
  BY DEF Fill, UnracedIsCurrent, Selected
<1>6. UntaintedPageAddsUp'
  BY DEF Fill, LocalsAreSet, UnracedIsCurrent, UntaintedPageAddsUp
<1>7. ImportProgress'
  BY DEF Fill, ImportProgress
<1> QED
  BY <1>1, <1>2, <1>3, <1>4, <1>5, <1>6, <1>7

LEMMA FindByNameKeeps ==
    ASSUME TypeOK, Inv, NEW r \in Request, FindByName(r)
    PROVE  Inv'
<1> USE ConstantsAssumption DEF TypeOK, Location, Goto, Return, Inv, InFlight
<1>1. NamesUnique'
  BY DEF FindByName, NamesUnique
<1>2. StaleIsExplained'
  <2>1. /\ UNCHANGED <<db, cache, tainted, orphaned, keys, wrote>>
        /\ \A y \in Request \ {r} : pc'[y] = pc[y]
        /\ pc[r] \notin {"scan", "del", "flush"}
    BY DEF FindByName
  <2> QED
    BY <2>1, StaleFrame
<1>3. PageAddsUp'
  BY DEF FindByName, PageAddsUp
<1>4. LocalsAreSet'
  <2>1. op[r] = "create" /\ row[r] \in Row
    BY DEF FindByName, LocalsAreSet
  <2>2. /\ UNCHANGED <<op, query, row, todo>>
        /\ pc'[r] \in {"enrich", "done"} /\ (answer'[r] = "ok" => pc'[r] = "done")
    BY DEF FindByName, LocalsAreSet
  <2>3. \A y \in Request \ {r} : pc'[y] = pc[y] /\ answer'[y] = answer[y]
    BY DEF FindByName
  <2> QED
    BY <2>1, <2>2, <2>3, LocalsFrame
<1>5. UnracedIsCurrent'
  <2>1. /\ UNCHANGED <<db, query, counted, listed, raced>>
        /\ \A y \in Request \ {r} : pc'[y] = pc[y]
        /\ pc'[r] \in {"enrich", "done"}
    BY DEF FindByName
  <2> QED
    BY <2>1, UnracedFrame
<1>6. UntaintedPageAddsUp'
  BY DEF FindByName, UntaintedPageAddsUp
<1>7. ImportProgress'
  BY DEF FindByName, ImportProgress
<1> QED
  BY <1>1, <1>2, <1>3, <1>4, <1>5, <1>6, <1>7

LEMMA EnrichKeeps ==
    ASSUME TypeOK, Inv, NEW r \in Request, Enrich(r)
    PROVE  Inv'
<1> USE ConstantsAssumption DEF TypeOK, Location, Goto, Return, Inv, InFlight
<1>1. NamesUnique'
  BY DEF Enrich, NamesUnique
<1>2. StaleIsExplained'
  <2>1. /\ UNCHANGED <<db, cache, tainted, orphaned, keys, wrote>>
        /\ \A y \in Request \ {r} : pc'[y] = pc[y]
        /\ pc[r] \notin {"scan", "del", "flush"}
    BY DEF Enrich
  <2> QED
    BY <2>1, StaleFrame
<1>3. PageAddsUp'
  BY DEF Enrich, PageAddsUp
<1>4. LocalsAreSet'
  <2>1. op[r] = "create" /\ UNCHANGED <<op, query, row, todo>>
    BY DEF Enrich, LocalsAreSet
  <2>2. pc'[r] \in {"insert", "done"} /\ (answer'[r] = "ok" => pc'[r] = "done")
    BY DEF Enrich, LocalsAreSet
  <2>3. \A y \in Request \ {r} : pc'[y] = pc[y] /\ answer'[y] = answer[y]
    BY DEF Enrich
  <2> QED
    BY <2>1, <2>2, <2>3, LocalsFrame
<1>5. UnracedIsCurrent'
  <2>1. /\ UNCHANGED <<db, query, counted, listed, raced>>
        /\ \A y \in Request \ {r} : pc'[y] = pc[y]
        /\ pc'[r] \in {"insert", "done"}
    BY DEF Enrich
  <2> QED
    BY <2>1, UnracedFrame
<1>6. UntaintedPageAddsUp'
  BY DEF Enrich, UntaintedPageAddsUp
<1>7. ImportProgress'
  <2>1. UNCHANGED <<op, todo, uploaded, erased, db>> /\ op[r] = "create"
    BY DEF Enrich, LocalsAreSet
  <2>2. \A y \in Request \ {r} : pc'[y] = pc[y] /\ answer'[y] = answer[y]
    BY DEF Enrich
  <2> QED
    BY <2>1, <2>2, ImportFrame
<1> QED
  BY <1>1, <1>2, <1>3, <1>4, <1>5, <1>6, <1>7

LEMMA InsertKeeps ==
    ASSUME TypeOK, Inv, NEW r \in Request, Insert(r)
    PROVE  Inv'
<1> USE ConstantsAssumption DEF TypeOK, Location, Goto, Return, Inv, InFlight
<1>1. NamesUnique'
  BY DEF Insert, Write, HasRead, NamesUnique
<1>2. StaleIsExplained'
  BY DEF Insert, Write, HasRead, StaleIsExplained, Owes, Coherent, Fresh,
         Selected
<1>3. PageAddsUp'
  BY DEF Insert, Write, HasRead, PageAddsUp
<1>4. LocalsAreSet'
  BY DEF Insert, Write, HasRead, LocalsAreSet
<1>5. UnracedIsCurrent'
  BY DEF Insert, Write, HasRead, UnracedIsCurrent, Selected
<1>6. UntaintedPageAddsUp'
  BY DEF Insert, Write, HasRead, UntaintedPageAddsUp
<1>7. ImportProgress'
  BY DEF Insert, Write, HasRead, ImportProgress
<1> QED
  BY <1>1, <1>2, <1>3, <1>4, <1>5, <1>6, <1>7

LEMMA InsertCollidesKeeps ==
    ASSUME TypeOK, Inv, NEW r \in Request, InsertCollides(r)
    PROVE  Inv'
<1> USE ConstantsAssumption DEF TypeOK, Location, Goto, Return, Inv, InFlight
<1>1. NamesUnique'
  BY DEF InsertCollides, NamesUnique
<1>2. StaleIsExplained'
  BY DEF InsertCollides, StaleIsExplained, Owes, Coherent, Fresh, Selected
<1>3. PageAddsUp'
  BY DEF InsertCollides, PageAddsUp
<1>4. LocalsAreSet'
  BY DEF InsertCollides, LocalsAreSet
<1>5. UnracedIsCurrent'
  BY DEF InsertCollides, UnracedIsCurrent, Selected
<1>6. UntaintedPageAddsUp'
  BY DEF InsertCollides, UntaintedPageAddsUp
<1>7. ImportProgress'
  BY DEF InsertCollides, ImportProgress
<1> QED
  BY <1>1, <1>2, <1>3, <1>4, <1>5, <1>6, <1>7

LEMMA DeleteKeeps ==
    ASSUME TypeOK, Inv, NEW r \in Request, Delete(r)
    PROVE  Inv'
<1> USE ConstantsAssumption DEF TypeOK, Location, Goto, Return, Inv, InFlight
<1>1. NamesUnique'
  BY DEF Delete, Write, HasRead, NamesUnique
<1>2. StaleIsExplained'
  BY DEF Delete, Write, HasRead, StaleIsExplained, Owes, Coherent, Fresh,
         Selected
<1>3. PageAddsUp'
  BY DEF Delete, Write, HasRead, PageAddsUp
<1>4. LocalsAreSet'
  BY DEF Delete, Write, HasRead, LocalsAreSet
<1>5. UnracedIsCurrent'
  BY DEF Delete, Write, HasRead, UnracedIsCurrent, Selected
<1>6. UntaintedPageAddsUp'
  BY DEF Delete, Write, HasRead, UntaintedPageAddsUp
<1>7. ImportProgress'
  BY DEF Delete, Write, HasRead, ImportProgress
<1> QED
  BY <1>1, <1>2, <1>3, <1>4, <1>5, <1>6, <1>7

LEMMA DeleteMissesKeeps ==
    ASSUME TypeOK, Inv, NEW r \in Request, DeleteMisses(r)
    PROVE  Inv'
<1> USE ConstantsAssumption DEF TypeOK, Location, Goto, Return, Inv, InFlight
<1>1. NamesUnique'
  BY DEF DeleteMisses, NamesUnique
<1>2. StaleIsExplained'
  BY DEF DeleteMisses, StaleIsExplained, Owes, Coherent, Fresh, Selected
<1>3. PageAddsUp'
  BY DEF DeleteMisses, PageAddsUp
<1>4. LocalsAreSet'
  BY DEF DeleteMisses, LocalsAreSet
<1>5. UnracedIsCurrent'
  BY DEF DeleteMisses, UnracedIsCurrent, Selected
<1>6. UntaintedPageAddsUp'
  BY DEF DeleteMisses, UntaintedPageAddsUp
<1>7. ImportProgress'
  BY DEF DeleteMisses, ImportProgress
<1> QED
  BY <1>1, <1>2, <1>3, <1>4, <1>5, <1>6, <1>7

LEMMA FlushChunkKeeps ==
    ASSUME TypeOK, Inv, NEW r \in Request, FlushChunk(r)
    PROVE  Inv'
<1> USE ConstantsAssumption DEF TypeOK, Location, Goto, Return, Inv, InFlight
<1>1. NamesUnique'
  BY DEF FlushChunk, Write, HasRead, NewRows, NamesUnique
<1>2. StaleIsExplained'
  BY DEF FlushChunk, Write, HasRead, NewRows, StaleIsExplained, Owes,
         Coherent, Fresh, Selected
<1>3. PageAddsUp'
  BY DEF FlushChunk, Write, HasRead, NewRows, PageAddsUp
<1>4. LocalsAreSet'
  <2>1. /\ todo'[r] = Tail(todo[r])
        /\ pc'[r] = IF Len(todo[r]) = 1 THEN "scan" ELSE "flush"
    BY DEF FlushChunk
  <2>2. todo[r] \in Seq(SUBSET Name) /\ todo[r] # <<>>
    BY DEF FlushChunk, LocalsAreSet
  <2>3. pc'[r] = "flush" => todo'[r] # <<>>
    BY <2>1, <2>2, TailFacts
  <2>4. op[r] = "import" /\ answer[r] # "ok"
    BY DEF FlushChunk, LocalsAreSet
  <2>5. /\ UNCHANGED <<op, query, row, answer>> /\ pc'[r] \in {"scan", "flush"}
        /\ \A y \in Request \ {r} : pc'[y] = pc[y] /\ todo'[y] = todo[y]
    BY DEF FlushChunk
  <2> QED
    BY <2>3, <2>4, <2>5 DEF LocalsAreSet
<1>5. UnracedIsCurrent'
  BY DEF FlushChunk, Write, HasRead, NewRows, UnracedIsCurrent, Selected
<1>6. UntaintedPageAddsUp'
  BY DEF FlushChunk, Write, HasRead, NewRows, UntaintedPageAddsUp
<1>7. ImportProgress'
  <2>1. /\ UNCHANGED <<op, uploaded, erased, answer>> /\ pc[r] = "flush"
        /\ todo[r] \in Seq(SUBSET Name) /\ todo[r] # <<>>
        /\ todo'[r] = Tail(todo[r])
        /\ pc'[r] = IF Len(todo[r]) = 1 THEN "scan" ELSE "flush"
        /\ db' = db \cup NewRows(r, Head(todo[r]))
    BY DEF FlushChunk, Write, LocalsAreSet
  <2>2. \A y \in Request \ {r} : pc'[y] = pc[y] /\ todo'[y] = todo[y]
    BY DEF FlushChunk
  <2>3. ASSUME NEW n \in Head(todo[r]) PROVE \E x \in db' : x.name = n
    <3>1. CASE \E x \in db : x.name = n
      BY <2>1, <3>1
    <3>2. CASE \A x \in db : x.name # n
      <4>1. [name |-> n, by |-> r] \in NewRows(r, Head(todo[r]))
        BY <3>2 DEF NewRows
      <4> QED
        BY <2>1, <4>1
    <3> QED
      BY <3>1, <3>2
  <2>4. ASSUME NEW i \in DOMAIN todo[r], NEW n \in todo[r][i]
        PROVE  \/ n \in Head(todo[r])
               \/ pc'[r] = "flush" /\ \E j \in DOMAIN todo'[r] : n \in todo'[r][j]
    <3>1. CASE i = 1
      BY <3>1, <2>1, TailFacts
    <3>2. CASE i # 1
      <4>1. i - 1 \in DOMAIN todo'[r] /\ todo'[r][i - 1] = todo[r][i] /\ Len(todo[r]) # 1
        BY <3>2, <2>1, TailFacts
      <4> QED
        BY <4>1, <2>1
    <3> QED
      BY <3>1, <3>2
  <2>5. ASSUME NEW n \in uploaded[r], op[r] = "import"
        PROVE  \/ pc'[r] = "flush" /\ \E j \in DOMAIN todo'[r] : n \in todo'[r][j]
               \/ n \in erased
               \/ \E x \in db' : x.name = n
    <3>1. \/ \E i \in DOMAIN todo[r] : n \in todo[r][i]
          \/ n \in erased
          \/ \E x \in db : x.name = n
      BY <2>1, <2>5 DEF ImportProgress
    <3> QED
      BY <2>1, <2>3, <2>4, <3>1
  <2>6. ASSUME NEW y \in Request \ {r}, op[y] = "import",
               InFlight(y) \/ answer[y] = "ok", NEW n \in uploaded[y]
        PROVE  \/ pc'[y] = "flush" /\ \E j \in DOMAIN todo'[y] : n \in todo'[y][j]
               \/ n \in erased
               \/ \E x \in db' : x.name = n
    <3>1. \/ pc[y] = "flush" /\ \E j \in DOMAIN todo[y] : n \in todo[y][j]
          \/ n \in erased
          \/ \E x \in db : x.name = n
      BY <2>6 DEF ImportProgress
    <3>2. pc'[y] = pc[y] /\ todo'[y] = todo[y] /\ db \subseteq db'
      BY <2>1, <2>2
    <3> QED
      BY <3>1, <3>2
  <2>7. ASSUME NEW y \in Request, op'[y] = "import", InFlight(y)' \/ answer'[y] = "ok",
               NEW n \in uploaded'[y]
        PROVE  \/ pc'[y] = "flush" /\ \E j \in DOMAIN todo'[y] : n \in todo'[y][j]
               \/ n \in erased'
               \/ \E x \in db' : x.name = n
    <3>1. /\ op[y] = "import" /\ n \in uploaded[y] /\ erased' = erased
          /\ y # r => InFlight(y) \/ answer[y] = "ok"
      BY <2>1, <2>2, <2>7
    <3>2. CASE y = r
      BY <2>5, <3>1, <3>2
    <3>3. CASE y # r
      BY <2>6, <3>1, <3>3
    <3> QED
      BY <3>2, <3>3
  <2> HIDE DEF TypeOK, Inv, InFlight
  <2> QED
    BY <2>7 DEF ImportProgress
<1> QED
  BY <1>1, <1>2, <1>3, <1>4, <1>5, <1>6, <1>7

LEMMA ScanKeysKeeps ==
    ASSUME TypeOK, Inv, NEW r \in Request, ScanKeys(r)
    PROVE  Inv'
<1> USE ConstantsAssumption DEF TypeOK, Location, Goto, Return, Inv, InFlight
<1>1. NamesUnique'
  BY DEF ScanKeys, Cached, NamesUnique
<1>2. StaleIsExplained'
  BY DEF ScanKeys, Cached, StaleIsExplained, Owes, Coherent, Fresh, Selected
<1>3. PageAddsUp'
  BY DEF ScanKeys, Cached, PageAddsUp, LocalsAreSet
<1>4. LocalsAreSet'
  <2>1. /\ op[r] \in {"create", "delete", "import"}
        /\ UNCHANGED <<op, query, row, todo>>
    BY DEF ScanKeys, LocalsAreSet
  <2>2. pc'[r] \in {"del", "done"} /\ (answer'[r] = "ok" => pc'[r] = "done")
    BY DEF ScanKeys, LocalsAreSet
  <2>3. \A y \in Request \ {r} : pc'[y] = pc[y] /\ answer'[y] = answer[y]
    BY DEF ScanKeys
  <2> QED
    BY <2>1, <2>2, <2>3, LocalsFrame
<1>5. UnracedIsCurrent'
  <2>1. /\ UNCHANGED <<db, query, counted, listed, raced>>
        /\ \A y \in Request \ {r} : pc'[y] = pc[y]
        /\ pc'[r] \in {"del", "done"}
    BY DEF ScanKeys
  <2> QED
    BY <2>1, UnracedFrame
<1>6. UntaintedPageAddsUp'
  BY DEF ScanKeys, Cached, UntaintedPageAddsUp
<1>7. ImportProgress'
  <2>1. /\ UNCHANGED <<op, todo, uploaded, erased, db>>
        /\ pc[r] = "scan" /\ pc'[r] # "flush"
    BY DEF ScanKeys
  <2>2. \A y \in Request \ {r} : pc'[y] = pc[y] /\ answer'[y] = answer[y]
    BY DEF ScanKeys
  <2> QED
    BY <2>1, <2>2, ImportFrame
<1> QED
  BY <1>1, <1>2, <1>3, <1>4, <1>5, <1>6, <1>7

LEMMA DelKeysKeeps ==
    ASSUME TypeOK, Inv, NEW r \in Request, DelKeys(r)
    PROVE  Inv'
<1> USE ConstantsAssumption DEF TypeOK, Location, Goto, Return, Inv, InFlight
<1>1. NamesUnique'
  BY DEF DelKeys, NamesUnique
<1>2. StaleIsExplained'
  BY DEF DelKeys, StaleIsExplained, Owes, Coherent, Fresh, Selected
<1>3. PageAddsUp'
  BY DEF DelKeys, PageAddsUp, LocalsAreSet
<1>4. LocalsAreSet'
  BY DEF DelKeys, LocalsAreSet
<1>5. UnracedIsCurrent'
  BY DEF DelKeys, UnracedIsCurrent, Selected
<1>6. UntaintedPageAddsUp'
  BY DEF DelKeys, UntaintedPageAddsUp
<1>7. ImportProgress'
  BY DEF DelKeys, ImportProgress
<1> QED
  BY <1>1, <1>2, <1>3, <1>4, <1>5, <1>6, <1>7

LEMMA FailsKeeps ==
    ASSUME TypeOK, Inv, NEW r \in Request, Fails(r)
    PROVE  Inv'
<1> USE ConstantsAssumption DEF TypeOK, Location, Goto, Return, Inv, InFlight
<1>1. NamesUnique'
  BY DEF Fails, Cached, NamesUnique
<1>2. StaleIsExplained'
  <2>1. /\ UNCHANGED <<db, cache, tainted, keys, wrote>>
        /\ \A y \in Request \ {r} : pc'[y] = pc[y]
    BY DEF Fails
  <2>2. ASSUME NEW q \in Query, cache[q] # MISS, Owes(r, q) PROVE q \in orphaned'
    BY <2>2 DEF Fails, Cached
  <2>3. orphaned \subseteq orphaned'
    BY DEF Fails
  <2>4. ASSUME NEW q \in Query, NEW y \in Request, y # r, Owes(y, q) PROVE Owes(y, q)'
    BY <2>1, <2>4 DEF Owes
  <2>5. \A q \in Query : Coherent(q) => Coherent(q)'
    BY <2>1 DEF Coherent, Fresh, Selected
  <2>6. \A q \in Query : ~Coherent(q) => cache[q] # MISS
    BY DEF Coherent
  <2> QED
    BY <2>1, <2>2, <2>3, <2>4, <2>5, <2>6 DEF StaleIsExplained
<1>3. PageAddsUp'
  BY DEF Fails, Cached, PageAddsUp
<1>4. LocalsAreSet'
  BY DEF Fails, Cached, LocalsAreSet
<1>5. UnracedIsCurrent'
  BY DEF Fails, Cached, UnracedIsCurrent, Selected
<1>6. UntaintedPageAddsUp'
  BY DEF Fails, Cached, UntaintedPageAddsUp
<1>7. ImportProgress'
  BY DEF Fails, Cached, ImportProgress
<1> QED
  BY <1>1, <1>2, <1>3, <1>4, <1>5, <1>6, <1>7

LEMMA CrashKeeps ==
    ASSUME TypeOK, Inv, Crash
    PROVE  Inv'
<1> USE ConstantsAssumption DEF TypeOK, Location, Goto, Return, Inv, InFlight
<1>1. NamesUnique'
  BY DEF Crash, Cached, NamesUnique
<1>2. StaleIsExplained'
  BY DEF Crash, Cached, StaleIsExplained, Owes, Coherent, Fresh, Selected
<1>3. PageAddsUp'
  BY DEF Crash, Cached, PageAddsUp
<1>4. LocalsAreSet'
  BY DEF Crash, Cached, LocalsAreSet
<1>5. UnracedIsCurrent'
  BY DEF Crash, Cached, UnracedIsCurrent, Selected
<1>6. UntaintedPageAddsUp'
  BY DEF Crash, Cached, UntaintedPageAddsUp
<1>7. ImportProgress'
  BY DEF Crash, Cached, LocalsAreSet, ImportProgress
<1> QED
  BY <1>1, <1>2, <1>3, <1>4, <1>5, <1>6, <1>7

LEMMA EvictKeeps ==
    ASSUME TypeOK, Inv, NEW q \in Query, Evict(q)
    PROVE  Inv'
<1> USE ConstantsAssumption DEF TypeOK, Location, Goto, Return, Inv, InFlight
<1>1. NamesUnique'
  BY DEF Evict, NamesUnique
<1>2. StaleIsExplained'
  BY DEF Evict, StaleIsExplained, Owes, Coherent, Fresh, Selected
<1>3. PageAddsUp'
  BY DEF Evict, PageAddsUp
<1>4. LocalsAreSet'
  BY DEF Evict, LocalsAreSet
<1>5. UnracedIsCurrent'
  BY DEF Evict, UnracedIsCurrent, Selected
<1>6. UntaintedPageAddsUp'
  BY DEF Evict, UntaintedPageAddsUp
<1>7. ImportProgress'
  BY DEF Evict, ImportProgress
<1> QED
  BY <1>1, <1>2, <1>3, <1>4, <1>5, <1>6, <1>7

LEMMA StutterKeeps == TypeOK /\ Inv /\ UNCHANGED vars => Inv'
BY DEF vars, Inv, NamesUnique, StaleIsExplained, PageAddsUp, LocalsAreSet,
   UnracedIsCurrent, UntaintedPageAddsUp, ImportProgress, Coherent, Fresh,
   Selected, Owes, InFlight

\* Inv is inductive.
LEMMA NextInv == TypeOK /\ Inv /\ [Next]_vars => Inv'
<1> SUFFICES ASSUME TypeOK, Inv, [Next]_vars PROVE Inv'
  OBVIOUS
<1>1. ASSUME NEW r \in Request, Begin(r) PROVE Inv'
  BY <1>1, BeginListKeeps, BeginCreateKeeps, BeginDeleteKeeps, BeginImportKeeps
     DEF Begin
<1>2. ASSUME NEW r \in Request, Step(r) PROVE Inv'
  BY <1>2, GetCachedKeeps, CountKeeps, FindManyKeeps, FillKeeps, FindByNameKeeps,
     EnrichKeeps, InsertKeeps, InsertCollidesKeeps, DeleteKeeps, DeleteMissesKeeps,
     FlushChunkKeeps, ScanKeysKeeps, DelKeysKeeps DEF Step
<1>3. ASSUME Environment PROVE Inv'
  BY <1>3, FailsKeeps, CrashKeeps, EvictKeeps DEF Environment
<1> QED
  BY <1>1, <1>2, <1>3, StutterKeeps DEF Next

\* The types and the inductive invariant hold in every reachable state.
THEOREM Invariance == Spec => [](TypeOK /\ Inv)
<1>1. Init => TypeOK /\ Inv
  BY InitTypeOK, InitInv
<1>2. TypeOK /\ Inv /\ [Next]_vars => (TypeOK /\ Inv)'
  BY NextTypeOK, NextInv
<1> QED
  BY <1>1, <1>2, PTL DEF Spec

-----------------------------------------------------------------------------
(* The properties. *)

\* The two stores and the locals of ProfilesService keep their types.
THEOREM TypeCorrect == Spec => []TypeOK
BY Invariance, PTL

\* A name has at most one row, whatever creates and imports run at once.
THEOREM OneRowPerName == Spec => []NamesUnique
<1>1. Inv => NamesUnique
  BY DEF Inv
<1> QED
  BY <1>1, Invariance, PTL

\* A cached page that differs from the table is owed a deletion by a writer in
\* flight, or was filled by an overtaken list, or its writer failed.
THEOREM StalenessExplained == Spec => []StaleIsExplained
<1>1. Inv => StaleIsExplained
  BY DEF Inv
<1> QED
  BY <1>1, Invariance, PTL

\* The total and the data of an answered page agree unless a write overtook it.
THEOREM PagesAddUp == Spec => []PageAddsUp
<1>1. Inv => PageAddsUp
  BY DEF Inv
<1> QED
  BY <1>1, Invariance, PTL

\* After a successful import every name of its file is in the table or has been
\* deleted by somebody since.
THEOREM ImportsAreComplete == Spec => []ImportedRowsAllPresent
<1>1. TypeOK /\ Inv => ImportedRowsAllPresent
  BY DEF TypeOK, Inv, ImportProgress, LocalsAreSet, ImportedRowsAllPresent
<1> QED
  BY <1>1, Invariance, PTL
-----------------------------------------------------------------------------
(* What creates and deletes tell their clients. *)

\* A step inserts rows of requests only, and a row that goes was deleted.
LEMMA RowsComeAndGo ==
    ASSUME TypeOK, Inv, ClaimsInv, [Next]_vars
    PROVE  /\ \A x \in db' : x \in db \/ x.by # SEED
           /\ \A x \in db : x \in db' \/ x.name \in erased'
           /\ erased \subseteq erased'
           /\ faulted \subseteq faulted'
<1> USE ConstantsAssumption DEF TypeOK
<1>1. CASE UNCHANGED vars
  BY <1>1 DEF vars
<1>2. ASSUME NEW r \in Request, Begin(r)
      PROVE  db' = db /\ erased' = erased /\ faulted' = faulted
  BY <1>2 DEF Begin, BeginList, BeginCreate, BeginDelete, BeginImport, Arrive
<1>3. ASSUME NEW r \in Request,
             \/ GetCached(r) \/ Count(r) \/ FindMany(r) \/ Fill(r) \/ FindByName(r)
             \/ Enrich(r) \/ InsertCollides(r) \/ DeleteMisses(r) \/ ScanKeys(r)
             \/ DelKeys(r)
      PROVE  db' = db /\ erased' = erased /\ faulted' = faulted
  BY <1>3 DEF GetCached, Count, FindMany, Fill, FindByName, Enrich, InsertCollides,
              DeleteMisses, ScanKeys, DelKeys
<1>4. ASSUME Environment PROVE db' = db /\ erased' = erased /\ faulted \subseteq faulted'
  BY <1>4 DEF Environment, Fails, Crash, Evict
<1>5. ASSUME NEW r \in Request, Insert(r)
      PROVE  /\ db' = db \cup {row[r]} /\ row[r].by # SEED
             /\ erased' = erased /\ faulted' = faulted
  <2>1. pc[r] = "insert"
    BY <1>5 DEF Insert
  <2>2. op[r] = "create"
    BY <2>1 DEF Inv, LocalsAreSet
  <2>3. row[r].by = r
    BY <2>2 DEF ClaimsInv, CreateLooked
  <2> QED
    BY <1>5, <2>3 DEF Insert, Write
<1>6. ASSUME NEW r \in Request, Delete(r)
      PROVE  /\ db' = db \ {row[r]} /\ erased' = erased \cup {row[r].name}
             /\ faulted' = faulted
  BY <1>6 DEF Delete, Write
<1>7. ASSUME NEW r \in Request, FlushChunk(r)
      PROVE  /\ db' = db \cup NewRows(r, Head(todo[r]))
             /\ erased' = erased /\ faulted' = faulted
             /\ \A x \in NewRows(r, Head(todo[r])) : x.by = r
  BY <1>7 DEF FlushChunk, Write, NewRows
<1>8. CASE \E r \in Request : Begin(r)
  BY <1>2, <1>8
<1>9. CASE \E r \in Request : Step(r)
  BY <1>3, <1>5, <1>6, <1>7, <1>9 DEF Step
<1> QED
  BY <1>1, <1>4, <1>8, <1>9 DEF Next

\* A step of r, or of nobody, keeps what is claimed of the others.
LEMMA ClaimsFrame ==
    ASSUME TypeOK, Inv, ClaimsInv, [Next]_vars, NEW r \in Request,
           \A y \in Request \ {r} :
              /\ pc'[y] = pc[y] /\ op'[y] = op[y] /\ row'[y] = row[y]
              /\ answer'[y] = answer[y] /\ (y \in wrote' => y \in wrote),
           op'[r] = "create" => row'[r].by = r,
           pc'[r] \in {"enrich", "insert"} =>
              \A x \in db : x.name = row'[r].name => x.by # SEED,
           pc'[r] \in {"idle", "delete"} => r \notin wrote',
           pc'[r] # "done" => answer'[r] = "none",
           answer'[r] = "notFound" /\ r \in wrote' => r \in faulted',
           op'[r] = "create" /\ answer'[r] = "error" =>
              \/ r \in faulted' \/ row'[r].name \in erased
              \/ \E x \in db : x.name = row'[r].name /\ x.by # SEED
    PROVE  ClaimsInv'
<1> USE RowsComeAndGo
<1>1. CreateErrorIsExplained'
  BY DEF ClaimsInv, CreateErrorIsExplained
<1>2. NotFoundDeletedNothing'
  BY DEF ClaimsInv, NotFoundDeletedNothing
<1>3. CreateLooked'
  BY DEF ClaimsInv, CreateLooked
<1> QED
  BY <1>1, <1>2, <1>3 DEF ClaimsInv

LEMMA ClaimsOfBegin ==
    ASSUME TypeOK, Inv, ClaimsInv, NEW r \in Request, Begin(r), [Next]_vars
    PROVE  ClaimsInv'
<1> USE DEF TypeOK, Goto, Arrive
<1>1. pc[r] = "idle" /\ r \notin wrote /\ answer[r] = "none"
  BY DEF Begin, BeginList, BeginCreate, BeginDelete, BeginImport, ClaimsInv, CreateLooked
<1>2. ASSUME NEW q \in Query, BeginList(r, q) PROVE ClaimsInv'
  BY <1>1, <1>2, ClaimsFrame DEF BeginList
<1>3. ASSUME NEW n \in Name, BeginCreate(r, n) PROVE ClaimsInv'
  BY <1>1, <1>3, ClaimsFrame DEF BeginCreate
<1>4. ASSUME NEW x \in db, BeginDelete(r, x) PROVE ClaimsInv'
  BY <1>1, <1>4, ClaimsFrame DEF BeginDelete
<1>5. ASSUME NEW f \in File, BeginImport(r, f) PROVE ClaimsInv'
  BY <1>1, <1>5, ClaimsFrame DEF BeginImport
<1> QED
  BY <1>2, <1>3, <1>4, <1>5 DEF Begin

LEMMA ClaimsOfStep ==
    ASSUME TypeOK, Inv, ClaimsInv, NEW r \in Request, Step(r), [Next]_vars
    PROVE  ClaimsInv'
<1> USE DEF TypeOK, Goto, Return, Write
<1>a. /\ op[r] = "create" => row[r].by = r
      /\ pc[r] \in {"enrich", "insert"} =>
            \A x \in db : x.name = row[r].name => x.by # SEED
      /\ pc[r] = "delete" => r \notin wrote
      /\ pc[r] # "done" => answer[r] = "none"
  BY DEF ClaimsInv, CreateLooked
<1>b. /\ pc[r] \in {"find", "enrich", "insert"} => op[r] = "create"
      /\ pc[r] = "delete" => op[r] = "delete"
  BY DEF Inv, LocalsAreSet, Location
<1>1. CASE GetCached(r)
  BY <1>a, <1>b, <1>1, ClaimsFrame DEF GetCached
<1>2. CASE Count(r)
  BY <1>a, <1>b, <1>2, ClaimsFrame DEF Count
<1>3. CASE FindMany(r)
  BY <1>a, <1>b, <1>3, ClaimsFrame DEF FindMany
<1>4. CASE Fill(r)
  BY <1>a, <1>b, <1>4, ClaimsFrame DEF Fill
<1>5. CASE FindByName(r)
  BY <1>a, <1>b, <1>5, ClaimsFrame DEF FindByName
<1>6. CASE Enrich(r)
  <2>1. CASE Goto(r, "insert")
    BY <1>a, <1>b, <1>6, <2>1, ClaimsFrame DEF Enrich
  <2>2. CASE Return(r, "badGateway")
    BY <1>a, <1>b, <1>6, <2>2, ClaimsFrame DEF Enrich
  <2> QED
    BY <1>6, <2>1, <2>2 DEF Enrich
<1>7. CASE Insert(r)
  BY <1>a, <1>b, <1>7, ClaimsFrame DEF Insert
<1>8. CASE InsertCollides(r)
  BY <1>a, <1>b, <1>8, ClaimsFrame DEF InsertCollides
<1>9. CASE Delete(r)
  BY <1>a, <1>b, <1>9, ClaimsFrame DEF Delete
<1>10. CASE DeleteMisses(r)
  BY <1>a, <1>b, <1>10, ClaimsFrame DEF DeleteMisses
<1>11. CASE FlushChunk(r)
  BY <1>a, <1>b, <1>11, ClaimsFrame DEF FlushChunk
<1>12. CASE ScanKeys(r)
  BY <1>a, <1>b, <1>12, ClaimsFrame DEF ScanKeys
<1>13. CASE DelKeys(r)
  BY <1>a, <1>b, <1>13, ClaimsFrame DEF DelKeys
<1> QED
  BY <1>1, <1>2, <1>3, <1>4, <1>5, <1>6, <1>7, <1>8, <1>9, <1>10, <1>11, <1>12, <1>13 DEF Step

LEMMA ClaimsOfEnvironment ==
    ASSUME TypeOK, Inv, ClaimsInv, Environment, [Next]_vars
    PROVE  ClaimsInv'
<1> USE RowsComeAndGo DEF TypeOK, Return
<1>1. ASSUME NEW r \in Request, Fails(r) PROVE ClaimsInv'
  <2>1. op[r] = "create" => row[r].by = r
    BY DEF ClaimsInv, CreateLooked
  <2> QED
    BY <1>1, <2>1, ClaimsFrame DEF Fails
<1>2. CASE Crash
  <2>1. CreateErrorIsExplained'
    BY <1>2 DEF Crash, ClaimsInv, CreateErrorIsExplained
  <2>2. NotFoundDeletedNothing'
    BY <1>2 DEF Crash, ClaimsInv, NotFoundDeletedNothing
  <2>3. CreateLooked'
    BY <1>2 DEF Crash, ClaimsInv, CreateLooked, InFlight
  <2> QED
    BY <2>1, <2>2, <2>3 DEF ClaimsInv
<1>3. ASSUME NEW q \in Query, Evict(q) PROVE ClaimsInv'
  BY <1>3 DEF Evict, ClaimsInv, CreateErrorIsExplained, NotFoundDeletedNothing, CreateLooked
<1> QED
  BY <1>1, <1>2, <1>3 DEF Environment

\* The claims hold in every reachable state, with the invariant they rest on.
LEMMA ClaimsInvariance == Spec => []ClaimsInv
<1>1. Init => ClaimsInv
  BY DEF Init, ClaimsInv, CreateErrorIsExplained, NotFoundDeletedNothing, CreateLooked
<1>2. TypeOK /\ Inv /\ ClaimsInv /\ [Next]_vars => ClaimsInv'
  <2> SUFFICES ASSUME TypeOK, Inv, ClaimsInv, [Next]_vars PROVE ClaimsInv'
    OBVIOUS
  <2>1. CASE UNCHANGED vars
    BY <2>1 DEF vars, ClaimsInv, CreateErrorIsExplained, NotFoundDeletedNothing,
                CreateLooked
  <2> QED
    BY <2>1, ClaimsOfBegin, ClaimsOfStep, ClaimsOfEnvironment DEF Next
<1> QED
  BY <1>1, <1>2, Invariance, PTL DEF Spec

\* A create answers 500 only for a failure of its own or a name another request
\* inserted; a name the table began with never makes a create fail.
THEOREM CreateErrorsExplained == Spec => []CreateErrorIsExplained
<1>1. ClaimsInv => CreateErrorIsExplained
  BY DEF ClaimsInv
<1> QED
  BY <1>1, ClaimsInvariance, PTL

\* A delete that answers 404 deleted nothing, unless its invalidation failed.
THEOREM NotFoundIsTrue == Spec => []NotFoundDeletedNothing
<1>1. ClaimsInv => NotFoundDeletedNothing
  BY DEF ClaimsInv
<1> QED
  BY <1>1, ClaimsInvariance, PTL
===============================================================================
