------------------------- MODULE ProfileQueriesProofs -------------------------
(***************************************************************************)
(* Proofs about ProfileQueries, for any rows, clients, queries, texts and  *)
(* limits.                                                                 *)
(***************************************************************************)
EXTENDS ProfileQueries, TLAPS, FiniteSetTheorems, FunctionTheorems, SequenceTheorems,
        NaturalsInduction, WellFoundedInduction

-----------------------------------------------------------------------------
(* Queries and their normal forms. *)

\* The normal form keeps page, limit, sort_by and order.
LEMMA NormalWith ==
    ASSUME NEW query, NEW f \in DOMAIN Defaults
    PROVE  With(normalizeFilters(query), f) = With(query, f)
<1>1. f \notin Equalities /\ f \notin Ages /\ f \notin Probabilities
  BY DEF Defaults, Equalities, Ages, Probabilities
<1>2. given(query, f) <=> f \in DOMAIN query
  BY <1>1 DEF given
<1>3. f \in DOMAIN normalizeFilters(query) <=> f \in DOMAIN query
  BY <1>2 DEF normalizeFilters, given
<1>4. f \in DOMAIN query => normalizeFilters(query)[f] = query[f]
  BY <1>1, <1>2 DEF normalizeFilters
<1> QED
  BY <1>3, <1>4 DEF With

LEMMA Limits == ExportLimit \in Nat \ {0} /\ MaxChanges \in Nat
BY ConstantsAssumption

LEMMA DefaultNames == DOMAIN Defaults = {"page", "limit", "sort_by", "order"}
BY DEF Defaults

LEMMA NormalFits ==
    ASSUME NEW query, QueryFits(query)
    PROVE  QueryFits(normalizeFilters(query))
BY NormalWith, DefaultNames DEF QueryFits

LEMMA GetFits ==
    ASSUME NEW raw \in ListQuery
    PROVE  /\ QueryFits(GetProfilesQuery(raw))
           /\ \A f \in DOMAIN Defaults : With(GetProfilesQuery(raw), f) = With(raw, f)
<1>1. ASSUME NEW f \in DOMAIN Defaults
      PROVE  With(GetProfilesQuery(raw), f) = With(raw, f)
  <2>1. f \notin Equalities
    BY DefaultNames DEF Equalities
  <2>2. f \in DOMAIN GetProfilesQuery(raw)
    BY DEF GetProfilesQuery
  <2>3. GetProfilesQuery(raw)[f] = IF f \in DOMAIN raw THEN raw[f] ELSE Defaults[f]
    BY <2>1 DEF GetProfilesQuery
  <2> QED
    BY <2>2, <2>3 DEF With
<1>2. QueryFits(raw)
  BY ConstantsAssumption
<1> QED
  BY <1>1, <1>2, DefaultNames DEF QueryFits

\* A query with another page and limit.
LEMMA PagedFits ==
    ASSUME NEW query, QueryFits(query), NEW page \in Nat \ {0}, NEW limit \in Nat \ {0},
           NEW paged, paged = Overridden(query, [page |-> page, limit |-> limit])
    PROVE  /\ QueryFits(paged)
           /\ With(paged, "page") = page /\ With(paged, "limit") = limit
           /\ \A f \in DOMAIN Defaults \ {"page", "limit"} : With(paged, f) = With(query, f)
<1>0. PICK paging : paging = [page |-> page, limit |-> limit]
  OBVIOUS
<1>1. DOMAIN paging = {"page", "limit"} /\ paging["page"] = page /\ paging["limit"] = limit
  BY <1>0
<1>2. paged = Overridden(query, paging)
  BY <1>0
<1>3. DOMAIN paged = DOMAIN query \cup {"page", "limit"}
  BY <1>1, <1>2 DEF Overridden
<1>4. paged["page"] = page /\ paged["limit"] = limit
  BY <1>1, <1>2 DEF Overridden
<1>5. With(paged, "page") = page /\ With(paged, "limit") = limit
  BY <1>3, <1>4 DEF With
<1>6. ASSUME NEW f \in DOMAIN Defaults \ {"page", "limit"} PROVE With(paged, f) = With(query, f)
  <2>1. f \in DOMAIN query => paged[f] = query[f]
    BY <1>1, <1>2 DEF Overridden
  <2> QED
    BY <1>3, <2>1 DEF With
<1> QED
  BY <1>5, <1>6, DefaultNames DEF QueryFits

\* Order and column from a text.
LEMMA SortNames ==
    ASSUME NEW text, NEW sort, sort = extractSort(text)
    PROVE  /\ DOMAIN sort \subseteq {"sort_by", "order"}
           /\ "sort_by" \in DOMAIN sort => sort["sort_by"] \in {"age", "gender_probability", "created_at"}
           /\ "order" \in DOMAIN sort => sort["order"] \in {"asc", "desc"}
<1> DEFINE by == IF Says(text, {"age"}) THEN "age"
                 ELSE IF Says(text, {"gender probability"}) THEN "gender_probability"
                 ELSE IF Says(text, {"created", "newest", "oldest", "date"}) THEN "created_at"
                 ELSE NONE
           desc == Says(text, {"descending", "newest", "highest"})
           asc == Says(text, {"ascending", "oldest", "lowest"})
           column == Only(Says(text, {"sort"}) /\ by # NONE, "sort_by", by)
           direction == Only(desc \/ asc, "order", IF desc THEN "desc" ELSE "asc")
<1>0. PICK b : b = by
  OBVIOUS
<1>1. by \in {"age", "gender_probability", "created_at", NONE}
  OBVIOUS
<1>4. sort = Overridden(column, direction)
  BY DEF extractSort
<1>5. DOMAIN column \subseteq {"sort_by"} /\ ("sort_by" \in DOMAIN column => column["sort_by"] = by /\ by # NONE)
  <2>1. PICK c : c = column /\ c = Only(Says(text, {"sort"}) /\ b # NONE, "sort_by", b)
    BY <1>0
  <2>2. DOMAIN c \subseteq {"sort_by"} /\ ("sort_by" \in DOMAIN c => c["sort_by"] = b /\ b # NONE)
    <3> HIDE DEF by, column
    <3> QED
      BY <2>1 DEF Only
  <2> HIDE DEF by, column
  <2> QED
    BY <1>0, <2>1, <2>2
<1>6. DOMAIN direction \subseteq {"order"} /\ ("order" \in DOMAIN direction => direction["order"] \in {"asc", "desc"})
  BY DEF Only
<1> HIDE DEF by, column, direction
<1>7. DOMAIN sort = DOMAIN column \cup DOMAIN direction
  BY <1>4 DEF Overridden
<1>8. "sort_by" \in DOMAIN column => sort["sort_by"] = column["sort_by"]
  BY <1>4, <1>6 DEF Overridden
<1>9. "order" \in DOMAIN direction => sort["order"] = direction["order"]
  BY <1>4 DEF Overridden
<1> QED
  BY <1>1, <1>5, <1>6, <1>7, <1>8, <1>9

\* The parser gives no page and no limit, and columns and directions there are.
LEMMA ParseFits ==
    ASSUME NEW text
    PROVE  /\ DOMAIN parse(text) \subseteq Filters \cup {"sort_by", "order"}
           /\ "sort_by" \in DOMAIN parse(text) =>
                 parse(text)["sort_by"] \in {"age", "gender_probability", "created_at"}
           /\ "order" \in DOMAIN parse(text) => parse(text)["order"] \in {"asc", "desc"}
           /\ \A f \in DOMAIN parse(text) \cap Filters :
                 parse(text)[f] = Overridden(Overridden(extractGender(text), extractAgeGroup(text)),
                          Overridden(extractAgeRanges(text), extractCountry(text)))[f]
<1> DEFINE filters == Overridden(Overridden(extractGender(text), extractAgeGroup(text)),
                          Overridden(extractAgeRanges(text), extractCountry(text)))
           sort == extractSort(text)
<1>1. /\ DOMAIN sort \subseteq {"sort_by", "order"}
      /\ "sort_by" \in DOMAIN sort => sort["sort_by"] \in {"age", "gender_probability", "created_at"}
      /\ "order" \in DOMAIN sort => sort["order"] \in {"asc", "desc"}
  BY SortNames
<1>4. DOMAIN filters \subseteq Filters
  <2>1. DOMAIN extractGender(text) \subseteq {"gender"}
    BY DEF extractGender, Only
  <2>2. DOMAIN extractAgeGroup(text) \subseteq {"age_group"}
    BY DEF extractAgeGroup, Only
  <2>3. DOMAIN extractCountry(text) \subseteq {"country_id"}
    BY DEF extractCountry, Only
  <2>4. DOMAIN extractAgeRanges(text) \subseteq {"min_age", "max_age"}
    <3>1. PICK young, over, under :
             /\ young \in {[min_age |-> 16, max_age |-> 24], <<>>}
             /\ over = Only(Says(text, {"over"}), "min_age", firstMatch(text, "over"))
             /\ under = Only(Says(text, {"under"}), "max_age", firstMatch(text, "under"))
             /\ extractAgeRanges(text) = Overridden(Overridden(young, over), under)
      BY DEF extractAgeRanges
    <3>2. DOMAIN young \subseteq {"min_age", "max_age"}
      BY <3>1
    <3>3. DOMAIN over \subseteq {"min_age"} /\ DOMAIN under \subseteq {"max_age"}
      BY <3>1 DEF Only
    <3> QED
      BY <3>1, <3>2, <3>3 DEF Overridden
  <2>5. PICK f, g : /\ DOMAIN f \subseteq {"gender", "age_group"}
                    /\ DOMAIN g \subseteq {"min_age", "max_age", "country_id"}
                    /\ filters = Overridden(f, g)
    <3>1. DOMAIN Overridden(extractGender(text), extractAgeGroup(text)) \subseteq {"gender", "age_group"}
      BY <2>1, <2>2 DEF Overridden
    <3>2. DOMAIN Overridden(extractAgeRanges(text), extractCountry(text))
             \subseteq {"min_age", "max_age", "country_id"}
      BY <2>3, <2>4 DEF Overridden
    <3> QED
      BY <3>1, <3>2
  <2> QED
    BY <2>5 DEF Filters, Equalities, Bounded, Overridden
<1>5. parse(text) = Overridden(filters, sort)
  BY DEF parse
<1>6. {"sort_by", "order"} \cap Filters = {}
  BY DEF Filters, Equalities, Bounded
<1> HIDE DEF filters, sort
<1>7. DOMAIN parse(text) = DOMAIN filters \cup DOMAIN sort
  BY <1>5 DEF Overridden
<1>8. \A f \in DOMAIN sort : parse(text)[f] = sort[f]
  BY <1>5 DEF Overridden
<1>9. \A f \in DOMAIN parse(text) \cap Filters : parse(text)[f] = filters[f]
  BY <1>1, <1>5, <1>6, <1>7 DEF Overridden
<1> QED
  BY <1>1, <1>4, <1>6, <1>7, <1>8, <1>9 DEF filters

LEMMA SearchFits ==
    ASSUME NEW text \in SearchText, NEW paging \in SearchPaging
    PROVE  QueryFits(SearchQuery(text, paging))
<1> DEFINE query == SearchQuery(text, paging)
<1>1. DOMAIN paging \subseteq {"page", "limit"} /\ QueryFits(paging)
  BY ConstantsAssumption
<1>2. query = Overridden(parse(text), paging)
  BY DEF SearchQuery
<1>3. PICK p : p = parse(text)
  OBVIOUS
<1>4. /\ "page" \notin DOMAIN p /\ "limit" \notin DOMAIN p
      /\ "sort_by" \in DOMAIN p => p["sort_by"] \in {"age", "gender_probability", "created_at"}
      /\ "order" \in DOMAIN p => p["order"] \in {"asc", "desc"}
  BY <1>3, ParseFits DEF Filters, Equalities, Bounded
<1>5. query = Overridden(p, paging)
  BY <1>2, <1>3
<1> HIDE DEF query
<1>6. DOMAIN query = DOMAIN p \cup DOMAIN paging
  BY <1>5 DEF Overridden
<1>7. ASSUME NEW f \in {"page", "limit"} PROVE With(query, f) = With(paging, f)
  BY <1>4, <1>5, <1>6 DEF With, Overridden
<1>8. "sort_by" \in DOMAIN p => query["sort_by"] = p["sort_by"]
  BY <1>1, <1>5 DEF Overridden
<1>9. "order" \in DOMAIN p => query["order"] = p["order"]
  BY <1>1, <1>5 DEF Overridden
<1>10. With(query, "sort_by") \in {"age", "gender_probability", "created_at"}
  BY <1>1, <1>4, <1>6, <1>8 DEF With, Defaults
<1>11. With(query, "order") \in {"asc", "desc"}
  BY <1>1, <1>4, <1>6, <1>9 DEF With, Defaults
<1> QED
  BY <1>1, <1>7, <1>10, <1>11 DEF QueryFits, query

-----------------------------------------------------------------------------
(* Orders and pages. *)

LEMMA SelectedIs ==
    ASSUME NEW form, profiles \subseteq Id
    PROVE  /\ Selected(form) \subseteq profiles /\ Selected(form) \subseteq Id
           /\ IsFiniteSet(Selected(form)) /\ Cardinality(Selected(form)) \in Nat
<1>1. Selected(form) \subseteq profiles
  BY DEF Selected
<1>2. IsFiniteSet(Id)
  BY ConstantsAssumption
<1> QED
  BY <1>1, <1>2, FS_Subset, FS_CardinalityType

\* An order is a sequence of the rows selected, each once.
LEMMA SortedIs ==
    ASSUME NEW form, QueryFits(form), profiles \subseteq Id, NEW s \in Sorted(form)
    PROVE  /\ s \in Seq(Selected(form)) /\ Len(s) = Cardinality(Selected(form))
           /\ DOMAIN s = 1 .. Len(s) /\ Len(s) \in Nat
           /\ \A i, j \in 1 .. Len(s) : i # j => s[i] # s[j]
<1>1. s \in SetToSeqs(Selected(form))
  BY DEF Sorted, Orders
<1>2. PICK n \in Nat : n = Cardinality(Selected(form))
  BY SelectedIs
<1>3. s \in [1 .. n -> Selected(form)] /\ \A i, j \in 1 .. n : i # j => s[i] # s[j]
  BY <1>1, <1>2 DEF SetToSeqs
<1>4. s \in Seq(Selected(form)) /\ Len(s) = n
  BY <1>2, <1>3
<1> QED
  BY <1>2, <1>3, <1>4

LEMMA SliceIs ==
    ASSUME NEW S, NEW s \in Seq(S), NEW page, NEW limit \in Nat \ {0},
           NEW first \in Nat, first = skip(page, limit),
           NEW d, d = Slice(s, page, limit)
    PROVE  /\ d \in Seq(S) /\ Len(d) \in Nat /\ Len(d) <= limit
           /\ first + limit <= Len(s) => Len(d) = limit
           /\ first + limit > Len(s) /\ first <= Len(s) => Len(d) = Len(s) - first
           /\ first >= Len(s) => Len(d) = 0
           /\ \A k \in 1 .. Len(d) : d[k] = s[first + k]
<1>1. PICK last : last = least(first + limit, Len(s))
  OBVIOUS
<1>2. d = SubSeq(s, first + 1, last)
  BY <1>1 DEF Slice
<1>3. Len(s) \in Nat
  OBVIOUS
<1>4. last \in Nat /\ last <= Len(s)
  BY <1>1, <1>3 DEF least
<1>5. d \in Seq(S)
  BY <1>2, <1>4
<1>6. Len(d) = IF first + 1 <= last THEN last - first ELSE 0
  BY <1>2, <1>4
<1>7. ASSUME NEW k \in 1 .. Len(d) PROVE d[k] = s[first + k]
  <2>1. k \in Nat /\ first + 1 <= last /\ k <= last - first
    BY <1>4, <1>6
  <2>2. PICK m \in Int : m = first + 1
    OBVIOUS
  <2>3. \A i \in m .. last : s[i] \in S
    BY <1>4, <2>2
  <2>4. last \in Int /\ k \in 1 .. last - m + 1
    BY <1>4, <2>1, <2>2
  <2>5. SubSeq(s, m, last)[k] = s[m + k - 1]
    BY <2>3, <2>4, SubSeqProperties
  <2>6. m + k - 1 = first + k
    BY <2>1, <2>2
  <2> QED
    BY <1>2, <2>2, <2>5, <2>6
<1>8. first + limit <= Len(s) => last = first + limit
  BY <1>1, <1>3 DEF least
<1>9. first + limit > Len(s) => last = Len(s)
  BY <1>1, <1>3 DEF least
<1>10. Len(d) \in Nat /\ Len(d) <= limit
  BY <1>3, <1>4, <1>6, <1>8, <1>9
<1>11. /\ first + limit <= Len(s) => Len(d) = limit
       /\ first + limit > Len(s) /\ first <= Len(s) => Len(d) = Len(s) - first
       /\ first >= Len(s) => Len(d) = 0
  BY <1>3, <1>4, <1>6, <1>8, <1>9
<1> QED
  BY <1>5, <1>7, <1>10, <1>11

LEMMA SliceAt ==
    ASSUME NEW S, NEW s \in Seq(S), NEW page, NEW limit \in Nat \ {0},
           NEW first \in Nat, first = skip(page, limit),
           NEW d, d = Slice(s, page, limit), NEW k \in 1 .. Len(d)
    PROVE  d[k] = s[first + k]
BY SliceIs

\* The piece d of s: limit elements after the first ones, or what there is of them.
IsPiece(d, s, first, limit, S) ==
    /\ d \in Seq(S) /\ Len(d) \in Nat
    /\ first + limit <= Len(s) => Len(d) = limit
    /\ first + limit > Len(s) /\ first <= Len(s) => Len(d) = Len(s) - first
    /\ first >= Len(s) => Len(d) = 0
    /\ \A k \in 1 .. Len(d) : d[k] = s[first + k]

LEMMA PieceIs ==
    ASSUME NEW S, NEW s \in Seq(S), NEW page, NEW limit \in Nat \ {0},
           NEW first \in Nat, first = skip(page, limit),
           NEW d, d = Slice(s, page, limit)
    PROVE  IsPiece(d, s, first, limit, S)
<1>1. /\ d \in Seq(S) /\ Len(d) \in Nat
      /\ first + limit <= Len(s) => Len(d) = limit
      /\ first + limit > Len(s) /\ first <= Len(s) => Len(d) = Len(s) - first
      /\ first >= Len(s) => Len(d) = 0
  BY SliceIs
<1>2. \A k \in 1 .. Len(d) : d[k] = s[first + k]
  BY SliceAt
<1> QED
  BY <1>1, <1>2 DEF IsPiece

\* A page is a slice of an order.
LEMMA PageIs ==
    ASSUME NEW form, QueryFits(form), profiles \subseteq Id, NEW result \in Pages(form)
    PROVE  /\ result.page = With(form, "page") /\ result.limit = With(form, "limit")
           /\ result.total = Cardinality(Selected(form))
           /\ \E s \in Sorted(form) : result.data = Slice(s, With(form, "page"), With(form, "limit"))
           /\ result.data \in Seq(Id) /\ Len(result.data) <= result.limit
<1>1. PICK s \in Sorted(form) :
         result = [page |-> With(form, "page"), limit |-> With(form, "limit"),
                   total |-> Cardinality(Selected(form)),
                   data |-> Slice(s, With(form, "page"), With(form, "limit"))]
  BY DEF Pages
<1>2. /\ result.page = With(form, "page") /\ result.limit = With(form, "limit")
      /\ result.total = Cardinality(Selected(form))
      /\ result.data = Slice(s, With(form, "page"), With(form, "limit"))
  BY <1>1
<1>3. s \in Seq(Id)
  BY SortedIs, SelectedIs
<1>4. PICK page \in Nat \ {0}, limit \in Nat \ {0} :
         page = With(form, "page") /\ limit = With(form, "limit")
  BY DEF QueryFits
<1>5. PICK first \in Nat : first = skip(page, limit)
  BY DEF skip
<1>6. PICK d : d = Slice(s, page, limit)
  OBVIOUS
<1>7. d \in Seq(Id) /\ Len(d) <= limit
  BY <1>3, <1>5, <1>6, SliceIs
<1> QED
  BY <1>2, <1>4, <1>6, <1>7

\* What a query returns is a page of its normal form, from the cache too.
LEMMA ResultFits ==
    ASSUME NEW query, QueryFits(query), CacheIsCurrent, NEW result \in Results(query)
    PROVE  result \in Pages(normalizeFilters(query))
BY DEF Results, CacheIsCurrent, buildCacheKey

-----------------------------------------------------------------------------
(* The steps. *)

LEMMA SameRows ==
    ASSUME profiles' = profiles
    PROVE  \A form : /\ Selected(form)' = Selected(form)
                     /\ Sorted(form)' = Sorted(form) /\ Pages(form)' = Pages(form)
BY DEF Selected, Sorted, Pages

LEMMA FindPreserves ==
    ASSUME NEW query, QueryFits(query), CacheIsCurrent, profiles' = profiles,
           NEW result \in Results(query), findAllProfiles(query, result)
    PROVE  CacheIsCurrent'
<1>1. PICK key : key = normalizeFilters(query)
  OBVIOUS
<1>2. QueryFits(key) /\ result \in Pages(key)
  BY <1>1, NormalFits, ResultFits
<1>3. cache' = cache \/ cache' = Overridden(cache, [k \in {key} |-> result])
  BY <1>1 DEF findAllProfiles, buildCacheKey
<1>4. ASSUME NEW k \in DOMAIN cache'
      PROVE  (k \in DOMAIN cache /\ cache'[k] = cache[k]) \/ (k = key /\ cache'[k] = result)
  BY <1>3 DEF Overridden
<1>5. ASSUME NEW k \in DOMAIN cache' PROVE QueryFits(k) /\ cache'[k] \in Pages(k)
  BY <1>2, <1>4 DEF CacheIsCurrent
<1>6. ASSUME NEW k \in DOMAIN cache' PROVE QueryFits(k) /\ cache'[k] \in Pages(k)'
  BY <1>5, SameRows
<1> QED
  BY <1>6 DEF CacheIsCurrent

\* The normal form, name by name.
LEMMA NormalIs ==
    ASSUME NEW query, NEW form, form = normalizeFilters(query), NEW f
    PROVE  /\ f \in DOMAIN form <=> given(query, f)
           /\ f \in DOMAIN form /\ f \in Equalities => form[f] = toLowerCase(query[f])
           /\ f \in DOMAIN form /\ f \in Probabilities => form[f] = Round(query[f])
           /\ f \in DOMAIN form /\ f \notin Equalities \cup Probabilities => form[f] = query[f]
<1>1. f \in DOMAIN form <=> given(query, f)
  BY DEF normalizeFilters, given
<1>2. f \in DOMAIN form => form[f] = CASE f \in Equalities -> toLowerCase(query[f])
                                     [] f \in Probabilities -> Round(query[f])
                                     [] OTHER -> query[f]
  BY DEF normalizeFilters
<1>3. ~(f \in Equalities /\ f \in Probabilities)
  BY DEF Equalities, Probabilities
<1> QED
  BY <1>1, <1>2, <1>3

\* The rows depend on the filters only.
LEMMA SameFilters ==
    ASSUME NEW q, NEW r, \A f \in Filters : /\ f \in DOMAIN q <=> f \in DOMAIN r
                                            /\ f \in DOMAIN q => q[f] = r[f]
    PROVE  /\ where(normalizeFilters(q)) = where(normalizeFilters(r))
           /\ Selected(normalizeFilters(q)) = Selected(normalizeFilters(r))
<1>1. PICK a, b : a = normalizeFilters(q) /\ b = normalizeFilters(r)
  OBVIOUS
<1>2. ASSUME NEW f \in Filters
      PROVE  /\ f \in DOMAIN a <=> f \in DOMAIN b
             /\ f \in DOMAIN a => a[f] = b[f]
  <2>1. given(q, f) <=> given(r, f)
    BY DEF given
  <2>2. f \in DOMAIN a => q[f] = r[f]
    BY <1>1, NormalIs DEF given
  <2> QED
    BY <1>1, <2>1, <2>2, NormalIs
<1>3. DOMAIN a \cap Filters = DOMAIN b \cap Filters
  BY <1>2
<1>4. where(a) = where(b)
  BY <1>2, <1>3 DEF where
<1> QED
  BY <1>1, <1>4 DEF Selected

LEMMA SamePaged ==
    ASSUME NEW query, QueryFits(query), NEW page \in Nat \ {0}, NEW limit \in Nat \ {0},
           NEW paged, paged = Overridden(query, [page |-> page, limit |-> limit])
    PROVE  /\ Selected(normalizeFilters(paged)) = Selected(normalizeFilters(query))
           /\ Sorted(normalizeFilters(paged)) = Sorted(normalizeFilters(query))
           /\ where(normalizeFilters(paged)) = where(normalizeFilters(query))
<1>1. PICK paging : paging = [page |-> page, limit |-> limit]
  OBVIOUS
<1>2. DOMAIN paging = {"page", "limit"}
  BY <1>1
<1>3. paged = Overridden(query, paging)
  BY <1>1
<1>4. ASSUME NEW f \in Filters
      PROVE  /\ f \in DOMAIN paged <=> f \in DOMAIN query
             /\ f \in DOMAIN paged => paged[f] = query[f]
  <2>1. f \notin DOMAIN paging
    BY <1>2 DEF Filters, Equalities, Bounded
  <2> QED
    BY <1>3, <2>1 DEF Overridden
<1>5. /\ Selected(normalizeFilters(paged)) = Selected(normalizeFilters(query))
      /\ where(normalizeFilters(paged)) = where(normalizeFilters(query))
  BY <1>4, SameFilters
<1>6. ASSUME NEW f \in {"sort_by", "order"}
      PROVE  With(normalizeFilters(paged), f) = With(normalizeFilters(query), f)
  BY PagedFits, NormalWith, DefaultNames
<1> QED
  BY <1>5, <1>6 DEF Sorted

\* The first page: c is steady from here on.
LEMMA FirstPreserves ==
    ASSUME Inv, NEW c \in Client, NEW kind, NEW asked, NEW query, QueryFits(query),
           First(c, kind, asked, query),
           kind = "list" => asked \in ListQuery /\ query = GetProfilesQuery(asked),
           kind = "search" => /\ asked \in SearchText
                              /\ \E paging \in SearchPaging : query = SearchQuery(asked, paging),
           kind = "export" =>
              /\ asked \in ListQuery /\ With(query, "page") = 1
              /\ query = Overridden(GetProfilesQuery(asked), [page |-> 1, limit |-> ExportLimit])
    PROVE  Inv'
<1>1. PICK result \in Results(query) :
         /\ findAllProfiles(query, result)
         /\ walk' = [walk EXCEPT ![c] =
               [kind |-> kind, asked |-> asked, query |-> query, last |-> result,
                pages |-> [p \in {result.page} |-> result.data]]]
  BY DEF First
<1>2. steady' = steady \cup {c} /\ profiles' = profiles /\ changes' = changes
  BY DEF First
<1>3. CacheIsCurrent'
  BY <1>1, <1>2, FindPreserves DEF Inv
<1>4. PICK form : form = normalizeFilters(query)
  OBVIOUS
<1>5. QueryFits(form) /\ result \in Pages(form)
  BY <1>1, <1>4, NormalFits, ResultFits DEF Inv
<1>6. PICK page \in Nat \ {0}, limit \in Nat \ {0} :
         /\ page = With(query, "page") /\ limit = With(query, "limit")
         /\ page = With(form, "page") /\ limit = With(form, "limit")
  BY <1>4, NormalWith, DefaultNames DEF QueryFits
<1>7. /\ result.page = page /\ result.limit = limit /\ result.total = Cardinality(Selected(form))
      /\ \E s \in Sorted(form) : result.data = Slice(s, page, limit)
  BY <1>5, <1>6, PageIs DEF Inv
<1>8. PICK w : w = [kind |-> kind, asked |-> asked, query |-> query, last |-> result,
                    pages |-> [p \in {page} |-> result.data]]
  OBVIOUS
<1>9. /\ w.kind = kind /\ w.asked = asked /\ w.query = query /\ w.last = result
      /\ DOMAIN w.pages = {page} /\ w.pages[page] = result.data
      /\ DOMAIN w = {"kind", "asked", "query", "last", "pages"}
  BY <1>8
<1>10. WalkIsOfItsQuery(w)
  BY <1>6, <1>7, <1>9 DEF WalkIsOfItsQuery
<1>11. walk' = [walk EXCEPT ![c] = w]
  BY <1>1, <1>7, <1>8
<1>12. /\ DOMAIN walk' = Client /\ walk'[c] = w
       /\ \A d \in Client \ {c} : walk'[d] = walk[d]
  BY <1>11 DEF Inv
<1>13. PagesAreCurrent(w)
  <2>1. /\ w.last.limit = With(w.query, "limit") /\ w.last.total = Cardinality(Selected(form))
        /\ w.last.page \in DOMAIN w.pages /\ w.last.data = w.pages[w.last.page]
    BY <1>6, <1>7, <1>9
  <2>2. page \in DOMAIN w.pages /\ DOMAIN w.pages = page .. page
    BY <1>9
  <2>3. \A p \in DOMAIN w.pages : \E s \in Sorted(form) : w.pages[p] = Slice(s, p, limit)
    BY <1>7, <1>9
  <2>4. w.kind = "export" => DOMAIN w.pages = {1}
    BY <1>6, <1>9
  <2> QED
    BY <1>4, <1>6, <1>9, <2>1, <2>2, <2>3, <2>4 DEF PagesAreCurrent
<1>14. ASSUME NEW d \in steady' PROVE PagesAreCurrent(walk[d])' /\ d \in Client
  <2>1. PICK v : v = walk'[d]
    OBVIOUS
  <2>2. PagesAreCurrent(v) /\ d \in Client
    BY <1>2, <1>12, <1>13, <2>1 DEF Inv
  <2>3. PagesAreCurrent(v)'
    BY <1>2, <2>2, SameRows DEF PagesAreCurrent
  <2> QED
    BY <2>1, <2>2, <2>3
<1>15. ASSUME NEW d \in Client, walk'[d] # NONE \/ d \in steady' PROVE WalkIsOfItsQuery(walk'[d])
  BY <1>2, <1>10, <1>12, <1>15 DEF Inv
<1> QED
  BY <1>2, <1>3, <1>12, <1>14, <1>15 DEF Inv

\* The pages stay without a gap.
LEMMA FollowPreserves ==
    ASSUME Inv, NEW c \in Client, NEW number, Follow(c, number)
    PROVE  Inv'
<1>1. PICK old : old = walk[c]
  OBVIOUS
<1>2. WalkIsOfItsQuery(old)
  BY <1>1 DEF Follow, Inv
<1>3. PICK page \in Nat \ {0} :
         /\ page = number /\ page \notin DOMAIN old.pages
         /\ page = old.last.page + 1 \/ page = old.last.page - 1
  BY <1>1, <1>2 DEF Follow, WalkIsOfItsQuery, hasPrev
<1>4. PICK limit \in Nat \ {0} : limit = old.last.limit
  BY <1>2 DEF WalkIsOfItsQuery
<1>5. PICK query : query = Overridden(old.query, [page |-> page, limit |-> limit])
  OBVIOUS
<1>6. PICK result \in Results(query) :
         /\ findAllProfiles(query, result)
         /\ walk' = [walk EXCEPT ![c].last = result,
                        ![c].pages = Overridden(@, [p \in {page} |-> result.data])]
  BY <1>1, <1>3, <1>4, <1>5 DEF Follow
<1>7. profiles' = profiles /\ changes' = changes /\ steady' = steady
  BY DEF Follow
<1>8. QueryFits(old.query)
  BY <1>2 DEF WalkIsOfItsQuery
<1>9. QueryFits(query) /\ With(query, "page") = page /\ With(query, "limit") = limit
  BY <1>5, <1>8, PagedFits
<1>10. CacheIsCurrent'
  BY <1>6, <1>7, <1>9, FindPreserves DEF Inv
<1>11. PICK form : form = normalizeFilters(old.query)
  OBVIOUS
<1>12. PICK paged : paged = normalizeFilters(query)
  OBVIOUS
<1>13. Selected(paged) = Selected(form) /\ Sorted(paged) = Sorted(form)
  BY <1>5, <1>8, <1>11, <1>12, SamePaged
<1>14. /\ QueryFits(paged) /\ result \in Pages(paged)
       /\ With(paged, "page") = page /\ With(paged, "limit") = limit
  BY <1>6, <1>9, <1>12, NormalFits, ResultFits, NormalWith, DefaultNames DEF Inv
<1>15. /\ result.page = page /\ result.limit = limit /\ result.total = Cardinality(Selected(form))
       /\ \E s \in Sorted(form) : result.data = Slice(s, page, limit)
  BY <1>13, <1>14, PageIs DEF Inv
<1>16. PICK pages : pages = Overridden(old.pages, [p \in {page} |-> result.data])
  OBVIOUS
<1>17. /\ DOMAIN pages = DOMAIN old.pages \cup {page} /\ pages[page] = result.data
       /\ \A p \in DOMAIN old.pages : pages[p] = old.pages[p]
  BY <1>3, <1>16 DEF Overridden
<1>18. PICK w : w = [old EXCEPT !.last = result, !.pages = pages]
  OBVIOUS
<1>19. /\ w.kind = old.kind /\ w.asked = old.asked /\ w.query = old.query
       /\ w.last = result /\ w.pages = pages
       /\ DOMAIN w = {"kind", "asked", "query", "last", "pages"}
  BY <1>2, <1>18 DEF WalkIsOfItsQuery
<1>20. WalkIsOfItsQuery(w)
  BY <1>2, <1>15, <1>19 DEF WalkIsOfItsQuery
<1>21. walk' = [walk EXCEPT ![c] = w]
  BY <1>1, <1>2, <1>6, <1>16, <1>18 DEF WalkIsOfItsQuery
<1>22. /\ DOMAIN walk' = Client /\ walk'[c] = w
       /\ \A d \in Client \ {c} : walk'[d] = walk[d]
  BY <1>21 DEF Inv
<1>23. ASSUME c \in steady PROVE PagesAreCurrent(w)
  <2>1. PagesAreCurrent(old)
    BY <1>1, <1>23 DEF Inv
  <2>2. limit = With(old.query, "limit")
    BY <1>4, <2>1 DEF PagesAreCurrent
  <2>3. PICK m \in Nat \ {0}, n \in Nat : DOMAIN old.pages = m .. n /\ old.last.page \in m .. n
    BY <2>1 DEF PagesAreCurrent
  <2>4. page = n + 1 \/ page = m - 1
    BY <1>3, <2>3
  <2>5. \E a, b \in DOMAIN pages : a \in Nat \ {0} /\ b \in Nat /\ DOMAIN pages = a .. b
    <3>1. CASE page = n + 1
      <4>1. PICK b \in Nat : b = n + 1
        OBVIOUS
      <4>2. DOMAIN pages = m .. b
        BY <1>17, <2>3, <3>1, <4>1
      <4>3. m \in DOMAIN pages /\ b \in DOMAIN pages
        BY <2>3, <4>1, <4>2
      <4> QED
        BY <4>1, <4>2, <4>3
    <3>2. CASE page = m - 1
      <4>1. PICK a \in Nat \ {0} : a = m - 1
        BY <3>2
      <4>2. DOMAIN pages = a .. n
        BY <1>17, <2>3, <3>2, <4>1
      <4>3. a \in DOMAIN pages /\ n \in DOMAIN pages
        BY <2>3, <4>1, <4>2
      <4> QED
        BY <4>1, <4>2, <4>3
    <3> QED
      BY <2>4, <3>1, <3>2
  <2>6. ASSUME NEW p \in DOMAIN pages PROVE \E s \in Sorted(form) : pages[p] = Slice(s, p, limit)
    BY <1>11, <1>15, <1>17, <2>1, <2>2 DEF PagesAreCurrent
  <2>7. w.kind # "export"
    BY <1>1, <1>19 DEF Follow
  <2>8. /\ w.last.limit = limit /\ w.last.total = Cardinality(Selected(form))
        /\ w.last.page \in DOMAIN w.pages /\ w.last.data = w.pages[w.last.page]
    BY <1>15, <1>17, <1>19
  <2> QED
    BY <1>11, <1>19, <2>2, <2>5, <2>6, <2>7, <2>8 DEF PagesAreCurrent
<1>24. ASSUME NEW d \in steady' PROVE PagesAreCurrent(walk[d])' /\ d \in Client
  <2>1. PICK v : v = walk'[d]
    OBVIOUS
  <2>2. PagesAreCurrent(v) /\ d \in Client
    BY <1>7, <1>22, <1>23, <2>1 DEF Inv
  <2>3. PagesAreCurrent(v)'
    BY <1>7, <2>2, SameRows DEF PagesAreCurrent
  <2> QED
    BY <2>1, <2>2, <2>3
<1>25. ASSUME NEW d \in Client, walk'[d] # NONE \/ d \in steady' PROVE WalkIsOfItsQuery(walk'[d])
  BY <1>7, <1>20, <1>22, <1>25 DEF Inv
<1> QED
  BY <1>7, <1>10, <1>22, <1>24, <1>25 DEF Inv

LEMMA ChangePreserves ==
    ASSUME Inv, Change
    PROVE  Inv'
<1>1. changes' = changes + 1 /\ changes < MaxChanges /\ walk' = walk /\ cache' = <<>> /\ steady' = {}
  BY DEF Change
<1>2. PICK i \in Id : profiles' = SymDiff(profiles, {i})
  BY DEF Change
<1>3. profiles' \subseteq Id
  BY <1>2 DEF SymDiff, Inv
<1>4. changes' \in 0 .. MaxChanges
  BY <1>1, Limits DEF Inv
<1>5. CacheIsCurrent'
  BY <1>1 DEF CacheIsCurrent
<1> QED
  BY <1>1, <1>3, <1>4, <1>5 DEF Inv

LEMMA ExpirePreserves ==
    ASSUME Inv, NEW key \in DOMAIN cache, Expire(key)
    PROVE  Inv'
<1>1. /\ profiles' = profiles /\ changes' = changes /\ steady' = steady /\ walk' = walk
      /\ cache' = [k \in DOMAIN cache \ {key} |-> cache[k]]
  BY DEF Expire
<1>2. ASSUME NEW k \in DOMAIN cache' PROVE QueryFits(k) /\ cache'[k] \in Pages(k)
  BY <1>1 DEF CacheIsCurrent, Inv
<1>3. CacheIsCurrent'
  BY <1>1, <1>2, SameRows DEF CacheIsCurrent
<1>4. ASSUME NEW d \in steady PROVE PagesAreCurrent(walk[d])'
  BY <1>1, SameRows DEF PagesAreCurrent, Inv
<1> QED
  BY <1>1, <1>3, <1>4 DEF Inv

LEMMA StutterPreserves ==
    ASSUME Inv, UNCHANGED vars
    PROVE  Inv'
<1>1. /\ profiles' = profiles /\ changes' = changes /\ steady' = steady /\ walk' = walk
      /\ cache' = cache
  BY DEF vars
<1>2. CacheIsCurrent'
  BY <1>1, SameRows DEF CacheIsCurrent, Inv
<1>3. ASSUME NEW d \in steady PROVE PagesAreCurrent(walk[d])'
  BY <1>1, SameRows DEF PagesAreCurrent, Inv
<1> QED
  BY <1>1, <1>2, <1>3 DEF Inv

LEMMA InitEstablishes ==
    ASSUME Init
    PROVE  Inv
<1>1. CacheIsCurrent
  BY DEF Init, CacheIsCurrent
<1>2. profiles \subseteq Id /\ changes \in 0 .. MaxChanges
  BY Limits DEF Init
<1> QED
  BY <1>1, <1>2 DEF Init, Inv

LEMMA NextPreserves ==
    ASSUME Inv, [Next]_vars
    PROVE  Inv'
<1>1. ASSUME NEW c \in Client, NEW raw \in ListQuery, findAll(c, raw) PROVE Inv'
  <2>1. QueryFits(GetProfilesQuery(raw))
    BY GetFits
  <2>2. PICK query : query = GetProfilesQuery(raw)
    OBVIOUS
  <2>3. PICK kind : kind = "list"
    OBVIOUS
  <2>4. First(c, kind, raw, query)
    BY <1>1, <2>2, <2>3 DEF findAll
  <2> QED
    BY <2>1, <2>2, <2>3, <2>4, FirstPreserves
<1>2. ASSUME NEW c \in Client, NEW raw \in ListQuery, export(c, raw) PROVE Inv'
  <2>1. PICK list : list = GetProfilesQuery(raw) /\ QueryFits(list)
    BY GetFits
  <2>2. PICK page \in Nat \ {0}, limit \in Nat \ {0} : page = 1 /\ limit = ExportLimit
    BY Limits
  <2>3. PICK query : query = Overridden(list, [page |-> page, limit |-> limit])
    OBVIOUS
  <2>4. QueryFits(query) /\ With(query, "page") = 1
    BY <2>1, <2>2, <2>3, PagedFits
  <2>5. PICK kind : kind = "export"
    OBVIOUS
  <2>6. query = Overridden(GetProfilesQuery(raw), [page |-> 1, limit |-> ExportLimit])
    BY <2>1, <2>2, <2>3
  <2>7. First(c, kind, raw, query)
    BY <1>2, <2>5, <2>6 DEF export
  <2> QED
    BY <2>4, <2>5, <2>6, <2>7, FirstPreserves
<1>3. ASSUME NEW c \in Client, NEW text \in SearchText, NEW paging \in SearchPaging,
             search(c, text, paging)
      PROVE  Inv'
  <2>1. PICK query : query = SearchQuery(text, paging) /\ QueryFits(query)
    BY SearchFits
  <2>2. PICK kind : kind = "search"
    OBVIOUS
  <2>3. First(c, kind, text, query)
    BY <1>3, <2>1, <2>2 DEF search
  <2> QED
    BY <2>1, <2>2, <2>3, FirstPreserves
<1> QED
  BY <1>1, <1>2, <1>3, FollowPreserves, ChangePreserves, ExpirePreserves, StutterPreserves DEF Next

\* The cached pages are pages of the rows there are, and what a client has read
\* since the last change is cut from their orders: findAllProfiles never mixes
\* the answer of one query into another, and every change drops the cache.
THEOREM Invariance == Spec => []Inv
<1>1. Init => Inv
  BY InitEstablishes
<1>2. Inv /\ [Next]_vars => Inv'
  BY NextPreserves
<1> QED
  BY <1>1, <1>2, PTL DEF Spec

LEMMA InvTypes ==
    ASSUME Inv
    PROVE  TypeOK
<1>1. ASSUME NEW key \in DOMAIN cache
      PROVE  /\ cache[key].page = With(key, "page") /\ cache[key].limit = With(key, "limit")
             /\ Len(cache[key].data) <= cache[key].limit
             /\ ToSet(cache[key].data) \subseteq Id
  <2>1. QueryFits(key) /\ cache[key] \in Pages(key) /\ profiles \subseteq Id
    BY DEF Inv, CacheIsCurrent
  <2>2. PICK result : result = cache[key]
    OBVIOUS
  <2>3. /\ result.page = With(key, "page") /\ result.limit = With(key, "limit")
        /\ result.data \in Seq(Id) /\ Len(result.data) <= result.limit
    BY <2>1, <2>2, PageIs
  <2>4. ToSet(result.data) \subseteq Id
    BY <2>3 DEF ToSet
  <2> QED
    BY <2>2, <2>3, <2>4
<1> QED
  BY <1>1 DEF Inv, TypeOK

\* The cached pages are of the size and the number their keys name.
THEOREM TypeCorrect == Spec => []TypeOK
BY Invariance, InvTypes, PTL

-----------------------------------------------------------------------------
(* The filters. *)

LEMMA UpperOneToOne ==
    /\ \A s, t \in DOMAIN Upper : Upper[s] = Upper[t] => s = t
    /\ DOMAIN Upper \cap Capital = {} /\ "" \notin DOMAIN Upper \cup Capital
BY ConstantsAssumption

\* What toLowerCase and toUpperCase do to each other.
LEMMA Lower ==
    ASSUME NEW text, NEW lower, lower = toLowerCase(text)
    PROVE  /\ lower \notin Capital
           /\ text \notin Capital => lower = text
           /\ text \in Capital => lower \in DOMAIN Upper /\ Upper[lower] = text
           /\ lower = "" <=> text = ""
<1>1. text \in Capital <=> \E t \in DOMAIN Upper : Upper[t] = text
  BY DEF Capital
<1>2. ASSUME text \in Capital PROVE lower \in DOMAIN Upper /\ Upper[lower] = text
  BY <1>1, <1>2 DEF toLowerCase
<1>3. text \notin Capital => lower = text
  BY <1>1 DEF toLowerCase
<1> QED
  BY <1>2, <1>3, UpperOneToOne

LEMMA LowerTwice ==
    ASSUME NEW text
    PROVE  toLowerCase(toLowerCase(text)) = toLowerCase(text)
<1>1. PICK lower : lower = toLowerCase(text)
  OBVIOUS
<1>2. lower \notin Capital
  BY <1>1, Lower
<1>3. toLowerCase(lower) = lower
  BY <1>2, Lower
<1> QED
  BY <1>1, <1>3

\* A text not in capitals is found again after upper case.
LEMMA LowerOfUpper ==
    ASSUME NEW text, text \notin Capital, NEW upper, upper = toUpperCase(text)
    PROVE  toLowerCase(upper) = text
<1>1. CASE text \in DOMAIN Upper
  <2>1. upper = Upper[text] /\ upper \in Capital
    BY <1>1 DEF toUpperCase, Capital
  <2>2. PICK lower : lower = toLowerCase(upper)
    OBVIOUS
  <2>3. lower \in DOMAIN Upper /\ Upper[lower] = upper
    BY <2>1, <2>2, Lower
  <2> QED
    BY <1>1, <2>1, <2>2, <2>3, UpperOneToOne
<1>2. CASE text \notin DOMAIN Upper
  BY <1>2, Lower DEF toUpperCase
<1> QED
  BY <1>1, <1>2

\* A text that has no upper case is found again after lower case.
LEMMA UpperOfLower ==
    ASSUME NEW text, text \notin DOMAIN Upper, NEW lower, lower = toLowerCase(text)
    PROVE  toUpperCase(lower) = text
BY Lower DEF toUpperCase

\* Rounding moves a probability by less than 5 thousandths, or 5 up.
LEMMA RoundIsClose ==
    ASSUME NEW p \in Nat
    PROVE  Round(p) \in Nat /\ p - 4 <= Round(p) /\ Round(p) <= p + 5
BY DEF Round

\* The condition on one column in the statement.
LEMMA WhereIs ==
    ASSUME NEW query, NEW cond, cond = where(normalizeFilters(query)), NEW f
    PROVE  /\ f \in DOMAIN cond <=> f \in Filters /\ given(query, f)
           /\ f \in DOMAIN cond /\ f = "country_id" => cond[f] = toUpperCase(toLowerCase(query[f]))
           /\ f \in DOMAIN cond /\ f \in Equalities \ {"country_id"} => cond[f] = toLowerCase(query[f])
           /\ f \in DOMAIN cond /\ f \in Probabilities => cond[f] = Round(query[f])
           /\ f \in DOMAIN cond /\ f \in Ages => cond[f] = query[f]
<1>1. PICK form : form = normalizeFilters(query)
  OBVIOUS
<1>2. DOMAIN cond = DOMAIN form \cap Filters
  BY <1>1 DEF where
<1>3. f \in DOMAIN cond => cond[f] = IF f = "country_id" THEN toUpperCase(form[f]) ELSE form[f]
  BY <1>1 DEF where
<1>4. f \in Probabilities \cup Ages => f \notin Equalities /\ f # "country_id"
  BY DEF Probabilities, Ages, Equalities
<1>5. f \in Ages => f \notin Probabilities
  BY DEF Probabilities, Ages
<1>6. "country_id" \in Equalities
  BY DEF Equalities
<1> QED
  BY <1>1, <1>2, <1>3, <1>4, <1>5, <1>6, NormalIs

LEMMA CountryWhere ==
    ASSUME NEW query, NEW cond, cond = where(normalizeFilters(query)),
           "country_id" \in DOMAIN cond
    PROVE  cond["country_id"] = toUpperCase(toLowerCase(query["country_id"]))
BY WhereIs

LEMMA TextWhere ==
    ASSUME NEW query, NEW cond, cond = where(normalizeFilters(query)),
           NEW f \in Equalities, f # "country_id", f \in DOMAIN cond
    PROVE  cond[f] = toLowerCase(query[f])
<1>1. f \in Equalities \ {"country_id"}
  OBVIOUS
<1> QED
  BY <1>1, WhereIs

LEMMA RowsAreTyped ==
    ASSUME NEW i \in Id
    PROVE  /\ Row[i].age \in Nat /\ Row[i].created_at \in Nat
           /\ Row[i].gender_probability \in Nat /\ Row[i].country_probability \in Nat
           /\ Row[i].gender \notin Capital /\ Row[i].age_group \notin Capital
           /\ Row[i].country_id \notin DOMAIN Upper
BY ConstantsAssumption

LEMMA BoundsAreTyped ==
    ASSUME NEW raw \in ListQuery, NEW f \in DOMAIN raw, f \in DOMAIN Bounded
    PROVE  raw[f] \in Nat
BY ConstantsAssumption

LEMMA FilterNames ==
    /\ Filters = {"gender", "age_group", "country_id", "min_age", "max_age",
                  "min_gender_probability", "min_country_probability"}
    /\ Equalities = {"gender", "age_group", "country_id"} /\ Ages = {"min_age", "max_age"}
    /\ Probabilities = {"min_gender_probability", "min_country_probability"}
    /\ DOMAIN Bounded = Ages \cup Probabilities
    /\ Bounded["min_age"] = "age"
    /\ Bounded["min_gender_probability"] = "gender_probability"
    /\ Bounded["min_country_probability"] = "country_probability"
BY DEF Filters, Equalities, Ages, Probabilities, Bounded

\* The test of one column.
Passes(row, f, value) ==
    CASE f \in Equalities -> row[f] = value
      [] f = "max_age" -> row.age <= value
      [] OTHER -> row[Bounded[f]] >= value
\* What a client means by one filter.
Wants(row, f, value, slack) ==
    CASE f \in Equalities -> value = "" \/ toLowerCase(row[f]) = toLowerCase(value)
      [] f = "max_age" -> row.age <= value
      [] f \in Probabilities -> row[Bounded[f]] >= value - slack
      [] OTHER -> row.age >= value

LEMMA OnText ==
    ASSUME NEW row, NEW f \in Equalities, NEW value, NEW slack
    PROVE  /\ Passes(row, f, value) <=> row[f] = value
           /\ Wants(row, f, value, slack) <=>
                 value = "" \/ toLowerCase(row[f]) = toLowerCase(value)
BY DEF Passes, Wants, Equalities, Probabilities

LEMMA TextPasses ==
    ASSUME NEW row, NEW f \in Equalities, NEW value
    PROVE  Passes(row, f, value) <=> row[f] = value
BY OnText

LEMMA ByColumn ==
    /\ \A form : Selected(form) = {i \in profiles : \A f \in DOMAIN where(form) :
                                      Passes(Row[i], f, where(form)[f])}
    /\ \A raw, slack : Wanted(raw, slack) = {i \in profiles : \A f \in DOMAIN raw \cap Filters :
                                                Wants(Row[i], f, raw[f], slack)}
BY DEF Selected, Satisfies, Wanted, Passes, Wants

\* A query for the filters of raw.
IsFor(query, raw) ==
    \A f \in Filters : /\ f \in DOMAIN query <=> f \in DOMAIN raw
                       /\ f \in DOMAIN query =>
                             query[f] = IF f \in Equalities THEN toLowerCase(raw[f]) ELSE raw[f]

LEMMA OneFilter ==
    ASSUME NEW raw \in ListQuery, NEW query, IsFor(query, raw), NEW i \in Id,
           NEW cond, cond = where(normalizeFilters(query)), NEW f \in Filters \cap DOMAIN raw
    PROVE  /\ f \in DOMAIN cond => (Passes(Row[i], f, cond[f]) => Wants(Row[i], f, raw[f], 5))
           /\ f \notin DOMAIN cond => Wants(Row[i], f, raw[f], 5)
           /\ f \in DOMAIN cond => (Wants(Row[i], f, raw[f], -5) => Passes(Row[i], f, cond[f]))
<1>1. f \in DOMAIN query /\ query[f] = IF f \in Equalities THEN toLowerCase(raw[f]) ELSE raw[f]
  BY DEF IsFor
<1>2. CASE f \in Equalities
  <2>1. PICK lower : lower = toLowerCase(raw[f])
    OBVIOUS
  <2>2. /\ query[f] = lower /\ lower \notin Capital
        /\ lower = "" <=> raw[f] = ""
        /\ toLowerCase(lower) = lower
    BY <1>1, <1>2, <2>1, Lower, LowerTwice
  <2>3. f \in DOMAIN cond <=> raw[f] # ""
    <3>1. given(query, f) <=> raw[f] # ""
      BY <1>1, <1>2, <2>2 DEF given
    <3>2. f \in Filters
      OBVIOUS
    <3>3. f \in DOMAIN cond <=> f \in Filters /\ given(query, f)
      BY WhereIs
    <3> QED
      BY <3>1, <3>2, <3>3
  <2>4. PICK stored : stored = Row[i][f]
    OBVIOUS
  <2>5. f \in DOMAIN cond => (stored = cond[f] <=> toLowerCase(stored) = lower)
    <3>1. CASE f = "country_id"
      <4>1. f \in DOMAIN cond => cond[f] = toUpperCase(lower)
        <5>1. f \in DOMAIN cond => cond[f] = toUpperCase(toLowerCase(query[f]))
          BY <3>1, WhereIs
        <5> QED
          BY <2>2, <5>1
      <4>2. stored \notin DOMAIN Upper
        BY <2>4, <3>1, RowsAreTyped
      <4>3. toUpperCase(toLowerCase(stored)) = stored
        BY <4>2, UpperOfLower
      <4>4. toLowerCase(toUpperCase(lower)) = lower
        BY <2>2, LowerOfUpper
      <4> QED
        BY <4>1, <4>3, <4>4
    <3>2. CASE f # "country_id"
      <4>1. f \in DOMAIN cond => cond[f] = lower
        <5>1. f \in DOMAIN cond => cond[f] = toLowerCase(query[f])
          BY <1>2, <3>2, TextWhere
        <5> QED
          BY <2>2, <5>1
      <4>2. stored \notin Capital
        BY <1>2, <2>4, <3>2, RowsAreTyped DEF Equalities
      <4>3. toLowerCase(stored) = stored
        BY <4>2, Lower
      <4> QED
        BY <4>1, <4>3
    <3> QED
      BY <3>1, <3>2
  <2>6. ASSUME NEW slack
        PROVE  Wants(Row[i], f, raw[f], slack) <=>
                  raw[f] = "" \/ toLowerCase(Row[i][f]) = toLowerCase(raw[f])
    BY <1>2, OnText DEF Wants, Equalities, Probabilities
  <2>7. \A slack : Wants(Row[i], f, raw[f], slack) <=> raw[f] = "" \/ toLowerCase(stored) = lower
    BY <2>1, <2>4, <2>6
  <2>8. Passes(Row[i], f, cond[f]) <=> stored = cond[f]
    BY <1>2, <2>4, OnText
  <2> QED
    BY <2>3, <2>5, <2>7, <2>8
<1>3. CASE f \in Ages
  <2>1. f \notin Equalities /\ f \notin Probabilities
    BY <1>3, FilterNames
  <2>2. f \in DOMAIN cond /\ cond[f] = raw[f]
    <3>1. query[f] = raw[f] /\ given(query, f)
      BY <1>1, <2>1 DEF given
    <3>2. f \in DOMAIN cond
      BY <3>1, WhereIs
    <3>3. cond[f] = query[f]
      BY <1>3, <3>2, WhereIs
    <3> QED
      BY <3>1, <3>2, <3>3
  <2>3. f = "max_age" \/ (f # "max_age" /\ Bounded[f] = "age" /\ Row[i][Bounded[f]] = Row[i].age)
    BY <1>3, FilterNames
  <2> QED
    BY <2>1, <2>2, <2>3 DEF Passes, Wants
<1>4. CASE f \in Probabilities
  <2>1. f \notin Equalities /\ f \notin Ages /\ f # "max_age" /\ f \in DOMAIN Bounded
    BY <1>4, FilterNames
  <2>2. f \in DOMAIN cond /\ cond[f] = Round(raw[f])
    <3>1. query[f] = raw[f] /\ given(query, f)
      BY <1>1, <2>1 DEF given
    <3>2. f \in DOMAIN cond
      BY <3>1, WhereIs
    <3>3. cond[f] = Round(query[f])
      BY <1>4, <3>2, WhereIs
    <3> QED
      BY <3>1, <3>2, <3>3
  <2>3. PICK p \in Nat, r \in Nat : p = raw[f] /\ r = Round(p) /\ p - 4 <= r /\ r <= p + 5
    BY <2>1, BoundsAreTyped, RoundIsClose
  <2>4. PICK n \in Nat : n = Row[i][Bounded[f]]
    BY <1>4, RowsAreTyped, FilterNames
  <2>5. Passes(Row[i], f, cond[f]) <=> n >= r
    BY <2>1, <2>2, <2>3, <2>4 DEF Passes
  <2>6. Wants(Row[i], f, raw[f], 5) <=> n >= p - 5
    BY <1>4, <2>1, <2>3, <2>4 DEF Wants
  <2>7. Wants(Row[i], f, raw[f], -5) <=> n >= p - (-5)
    BY <1>4, <2>1, <2>3, <2>4 DEF Wants
  <2> QED
    BY <2>2, <2>3, <2>5, <2>6, <2>7
<1> QED
  BY <1>2, <1>3, <1>4, FilterNames

\* The rows of a query are those the client means, up to the rounding.
LEMMA SelectedIsWanted ==
    ASSUME profiles \subseteq Id, NEW raw \in ListQuery, NEW query, IsFor(query, raw),
           NEW form, form = normalizeFilters(query)
    PROVE  Selected(form) \subseteq Wanted(raw, 5) /\ Wanted(raw, -5) \subseteq Selected(form)
<1>1. PICK cond : cond = where(form)
  OBVIOUS
<1>2. DOMAIN cond \subseteq Filters \cap DOMAIN raw
  <2>1. ASSUME NEW f \in DOMAIN cond PROVE f \in Filters /\ f \in DOMAIN raw
    BY <1>1, WhereIs DEF given, IsFor
  <2> QED
    BY <2>1
<1>3. ASSUME NEW i \in Selected(form) PROVE i \in Wanted(raw, 5)
  <2>1. i \in Id /\ i \in profiles /\ \A f \in DOMAIN cond : Passes(Row[i], f, cond[f])
    BY <1>1, ByColumn
  <2>2. ASSUME NEW f \in DOMAIN raw \cap Filters PROVE Wants(Row[i], f, raw[f], 5)
    BY <1>1, <2>1, OneFilter
  <2> QED
    BY <2>1, <2>2, ByColumn
<1>4. ASSUME NEW i \in Wanted(raw, -5) PROVE i \in Selected(form)
  <2>1. i \in Id /\ i \in profiles /\ \A f \in DOMAIN raw \cap Filters : Wants(Row[i], f, raw[f], -5)
    BY ByColumn
  <2>2. ASSUME NEW f \in DOMAIN cond PROVE Passes(Row[i], f, cond[f])
    BY <1>1, <1>2, <2>1, OneFilter
  <2> QED
    BY <1>1, <2>1, <2>2, ByColumn
<1> QED
  BY <1>3, <1>4

\* The DTO keeps the filters, in lower case.
LEMMA GetIsFor ==
    ASSUME NEW raw \in ListQuery
    PROVE  IsFor(GetProfilesQuery(raw), raw)
<1>1. PICK query : query = GetProfilesQuery(raw)
  OBVIOUS
<1>2. DOMAIN query = DOMAIN raw \cup DOMAIN Defaults
  BY <1>1 DEF GetProfilesQuery
<1>3. ASSUME NEW f \in Filters
      PROVE  /\ f \in DOMAIN query <=> f \in DOMAIN raw
             /\ f \in DOMAIN query =>
                   query[f] = IF f \in Equalities THEN toLowerCase(raw[f]) ELSE raw[f]
  <2>1. f \notin DOMAIN Defaults
    BY FilterNames, DefaultNames
  <2> QED
    BY <1>1, <1>2, <2>1 DEF GetProfilesQuery
<1> QED
  BY <1>1, <1>3 DEF IsFor

-----------------------------------------------------------------------------
(* Sequences without repetition. *)

\* Without repetition a set has as many images as elements.
LEMMA ImageSize ==
    ASSUME NEW A, IsFiniteSet(A), NEW f, \A a, b \in A : a # b => f[a] # f[b],
           NEW T, T = {f[a] : a \in A}
    PROVE  IsFiniteSet(T) /\ Cardinality(T) = Cardinality(A)
<1>1. PICK g : g = [a \in A |-> f[a]]
  OBVIOUS
<1>2. g \in [A -> T] /\ \A a, b \in A : g[a] = g[b] => a = b
  BY <1>1
<1>3. \A t \in T : \E a \in A : g[a] = t
  BY <1>1
<1>4. g \in Bijection(A, T)
  BY <1>2, <1>3, Fun_IsBij
<1>5. ExistsBijection(A, T)
  BY <1>4, Fun_ExistsBij
<1> QED
  BY <1>5, FS_Bijection

LEMMA DistinctCount ==
    ASSUME NEW S, NEW s \in Seq(S), \A i, j \in 1 .. Len(s) : i # j => s[i] # s[j]
    PROVE  IsFiniteSet(ToSet(s)) /\ Cardinality(ToSet(s)) = Len(s) /\ ToSet(s) \subseteq S
<1>1. PICK n \in Nat : n = Len(s) /\ DOMAIN s = 1 .. n
  OBVIOUS
<1>2. IsFiniteSet(1 .. n) /\ Cardinality(1 .. n) = n
  <2>1. IsFiniteSet(1 .. n) /\ Cardinality(1 .. n) = IF 1 > n THEN 0 ELSE n - 1 + 1
    BY FS_Interval
  <2> QED
    BY <2>1
<1>3. ToSet(s) = {s[i] : i \in 1 .. n}
  BY <1>1 DEF ToSet
<1>4. \A i, j \in 1 .. n : i # j => s[i] # s[j]
  BY <1>1
<1>5. PICK T : T = ToSet(s) /\ T = {s[i] : i \in 1 .. n}
  BY <1>3
<1>6. IsFiniteSet(T) /\ Cardinality(T) = n
  BY <1>2, <1>4, <1>5, ImageSize
<1>7. T \subseteq S
  BY <1>1, <1>5
<1> QED
  BY <1>1, <1>5, <1>6, <1>7

\* As many different elements as there are: all.
LEMMA CoversAll ==
    ASSUME NEW S, IsFiniteSet(S), NEW s \in Seq(S), Len(s) = Cardinality(S),
           \A i, j \in 1 .. Len(s) : i # j => s[i] # s[j]
    PROVE  ToSet(s) = S
<1>1. PICK T : T = ToSet(s) /\ T \subseteq S /\ Cardinality(T) = Len(s)
  BY DistinctCount
<1> QED
  BY <1>1, FS_Subset

LEMMA SliceOnce ==
    ASSUME NEW S, NEW s \in Seq(S), \A i, j \in 1 .. Len(s) : i # j => s[i] # s[j],
           NEW page, NEW limit \in Nat \ {0}, NEW first \in Nat, first = skip(page, limit),
           NEW d, d = Slice(s, page, limit)
    PROVE  \A i, j \in 1 .. Len(d) : i # j => d[i] # d[j]
<1>1. PICK m \in Nat, n \in Nat : m = Len(d) /\ n = Len(s)
  BY SliceIs
<1>2. m = 0 \/ first + m <= n
  BY <1>1, SliceIs
<1>3. ASSUME NEW k \in 1 .. m PROVE d[k] = s[first + k] /\ first + k \in 1 .. n
  <2>1. first + k \in 1 .. n
    BY <1>2
  <2>2. k \in 1 .. Len(d)
    BY <1>1
  <2> QED
    BY <2>1, <2>2, SliceIs
<1>4. ASSUME NEW i \in 1 .. m, NEW j \in 1 .. m, i # j PROVE d[i] # d[j]
  <2>1. first + i # first + j
    BY <1>4
  <2> QED
    BY <1>1, <1>3, <2>1
<1> QED
  BY <1>1, <1>4

-----------------------------------------------------------------------------
(* The export. *)

LEMMA InvExports ==
    ASSUME Inv
    PROVE  ExportIsComplete
<1> SUFFICES ASSUME NEW c \in steady, walk[c].kind = "export",
                    NEW rows, rows = walk[c].last.data
             PROVE  /\ ToSet(rows) \subseteq Wanted(walk[c].asked, 5)
                    /\ Cardinality(ToSet(rows)) = Len(rows)
                    /\ Len(rows) >= least(ExportLimit, Cardinality(Wanted(walk[c].asked, -5)))
  BY DEF ExportIsComplete
<1>1. PICK w : w = walk[c]
  OBVIOUS
<1>2. WalkIsOfItsQuery(w) /\ PagesAreCurrent(w) /\ profiles \subseteq Id
  BY <1>1 DEF Inv
<1>3. PICK raw \in ListQuery :
         /\ raw = w.asked
         /\ w.query = Overridden(GetProfilesQuery(raw), [page |-> 1, limit |-> ExportLimit])
  BY <1>1, <1>2 DEF WalkIsOfItsQuery
<1>4. PICK list : list = GetProfilesQuery(raw) /\ QueryFits(list) /\ IsFor(list, raw)
  BY GetFits, GetIsFor
<1>5. PICK page \in Nat \ {0}, limit \in Nat \ {0} : page = 1 /\ limit = ExportLimit
  BY Limits
<1>6. PICK query : query = w.query /\ query = Overridden(list, [page |-> page, limit |-> limit])
  BY <1>3, <1>4, <1>5
<1>7. With(query, "limit") = limit
  BY <1>4, <1>6, PagedFits
<1>8. PICK form : form = normalizeFilters(list)
  OBVIOUS
<1>9. /\ Selected(normalizeFilters(query)) = Selected(form)
      /\ Sorted(normalizeFilters(query)) = Sorted(form)
  BY <1>4, <1>6, <1>8, SamePaged
<1>10. QueryFits(form)
  BY <1>4, <1>8, NormalFits
<1>11. DOMAIN w.pages = {1} /\ w.last.page = 1 /\ rows = w.pages[1]
  BY <1>1, <1>2 DEF PagesAreCurrent
<1>12. PICK s \in Sorted(form) : rows = Slice(s, page, limit)
  BY <1>2, <1>5, <1>6, <1>7, <1>9, <1>11 DEF PagesAreCurrent
<1>13. PICK first \in Nat : first = 0 /\ first = skip(page, limit)
  BY <1>5 DEF skip
<1>14. PICK S : S = Selected(form)
  OBVIOUS
<1>15. /\ s \in Seq(S) /\ Len(s) = Cardinality(S) /\ Len(s) \in Nat
       /\ \A i, j \in 1 .. Len(s) : i # j => s[i] # s[j]
  BY <1>2, <1>10, <1>14, SortedIs
<1>16. rows \in Seq(S)
  BY <1>12, <1>13, <1>15, SliceIs
<1>17. \A i, j \in 1 .. Len(rows) : i # j => rows[i] # rows[j]
  BY <1>12, <1>13, <1>15, SliceOnce
<1>18. Cardinality(ToSet(rows)) = Len(rows) /\ ToSet(rows) \subseteq S
  BY <1>16, <1>17, DistinctCount
<1>19. S \subseteq Wanted(raw, 5) /\ Wanted(raw, -5) \subseteq S
  BY <1>2, <1>4, <1>8, <1>14, SelectedIsWanted
<1>20. PICK T : T = Wanted(raw, -5)
  OBVIOUS
<1>21. Cardinality(T) <= Cardinality(S) /\ Cardinality(T) \in Nat /\ Cardinality(S) \in Nat
  <2>1. IsFiniteSet(S)
    BY <1>2, <1>14, SelectedIs
  <2> QED
    BY <1>19, <1>20, <2>1, FS_Subset, FS_CardinalityType
<1>22. PICK k \in Nat, m \in Nat : k = Len(rows) /\ m = Len(s)
  BY <1>15, <1>16
<1>23. (limit <= m => k = limit) /\ (limit > m => k = m)
  BY <1>12, <1>13, <1>15, <1>22, SliceIs
<1>24. Len(rows) >= least(ExportLimit, Cardinality(T))
  BY <1>5, <1>15, <1>21, <1>22, <1>23 DEF least
<1> QED
  BY <1>1, <1>3, <1>18, <1>19, <1>20, <1>24

\* The export is complete up to its limit and repeats no row, whatever page and
\* limit the client sent along: exportProfiles overrides both.
THEOREM ExportsAreComplete == Spec => []ExportIsComplete
BY Invariance, InvExports, PTL

-----------------------------------------------------------------------------
(* Numbers. *)

\* A set of numbers that is not empty has a least element.
LEMMA LeastNumber ==
    ASSUME NEW S, S \subseteq Nat, S # {}
    PROVE  \E n \in S : \A m \in S : n <= m
<1> DEFINE Less == {ss \in Nat \X Nat : ss[1] < ss[2]}
<1>1. IsWellFoundedOn(Less, Nat)
  BY NatLessThanWellFounded DEF OpToRel
<1>2. \E x \in S : \A y \in S : ~ (<<y, x>> \in Less)
  <2> HIDE DEF Less
  <2> QED
    BY <1>1, WFMin
<1>3. PICK n \in S : \A m \in S : <<m, n>> \notin Less
  BY <1>2
<1>4. ASSUME NEW m \in S PROVE n <= m
  <2>1. m \in Nat /\ n \in Nat
    OBVIOUS
  <2>2. m < n => <<m, n>> \in Less
    BY <2>1
  <2> QED
    BY <1>3, <2>1, <2>2
<1> QED
  BY <1>4

\* A set of numbers that has 0 and all successors of its elements is all of Nat.
LEMMA AllNumbers ==
    ASSUME NEW S, 0 \in S, \A n \in Nat : n \in S => n + 1 \in S
    PROVE  \A n \in Nat : n \in S
<1> DEFINE Rest == {n \in Nat : n \notin S}
<1> SUFFICES ASSUME Rest # {} PROVE FALSE
  OBVIOUS
<1>1. PICK n \in Rest : \A m \in Rest : n <= m
  <2> HIDE DEF Rest
  <2>1. Rest \subseteq Nat
    BY DEF Rest
  <2> QED
    BY <2>1, LeastNumber
<1>2. n # 0 /\ n - 1 \in Nat
  BY <1>1
<1>3. n - 1 \in S
  BY <1>1, <1>2
<1> QED
  BY <1>1, <1>2, <1>3

-----------------------------------------------------------------------------
(* Orders: two of them agree up to ties. *)

\* Neighbours in order: all in order.
LEMMA Monotone ==
    ASSUME NEW S, NEW K \in [S -> Int], NEW s \in Seq(S),
           \A i \in 1 .. Len(s) - 1 : K[s[i]] <= K[s[i + 1]]
    PROVE  \A i, j \in 1 .. Len(s) : i <= j => K[s[i]] <= K[s[j]]
<1> DEFINE G == {d \in Nat : \A i \in 1 .. Len(s) : i + d <= Len(s) => K[s[i]] <= K[s[i + d]]}
<1>0. Len(s) \in Nat /\ \A i \in 1 .. Len(s) : K[s[i]] \in Int
  OBVIOUS
<1>1. 0 \in G
  BY <1>0
<1>2. ASSUME NEW d \in Nat, d \in G PROVE d + 1 \in G
  <2> SUFFICES ASSUME NEW i \in 1 .. Len(s), i + (d + 1) <= Len(s)
               PROVE  K[s[i]] <= K[s[i + (d + 1)]]
    OBVIOUS
  <2>1. PICK m \in Nat : m = i + d /\ m \in 1 .. Len(s) - 1 /\ i + (d + 1) = m + 1
    BY <1>0
  <2>2. K[s[i]] <= K[s[m]]
    BY <1>0, <1>2, <2>1
  <2>3. K[s[m]] <= K[s[m + 1]]
    BY <2>1
  <2>4. m \in 1 .. Len(s) /\ m + 1 \in 1 .. Len(s)
    BY <1>0, <2>1
  <2>5. K[s[i]] \in Int /\ K[s[m]] \in Int /\ K[s[m + 1]] \in Int
    BY <1>0, <2>4
  <2> QED
    BY <2>1, <2>2, <2>3, <2>5
<1>3. \A d \in Nat : d \in G
  <2> HIDE DEF G
  <2> QED
    BY <1>1, <1>2, AllNumbers
<1>4. ASSUME NEW i \in 1 .. Len(s), NEW j \in 1 .. Len(s), i <= j PROVE K[s[i]] <= K[s[j]]
  <2>1. PICK d \in Nat : d = j - i
    BY <1>4
  <2>2. d \in G
    BY <1>3
  <2>3. i + d = j /\ i + d <= Len(s)
    BY <2>1
  <2>4. K[s[i]] <= K[s[i + d]]
    BY <2>2, <2>3
  <2> QED
    BY <2>3, <2>4
<1> QED
  BY <1>4

\* s has each element of S once, by K.
IsOrder(s, S, K) ==
    /\ s \in Seq(S) /\ Len(s) = Cardinality(S)
    /\ \A i, j \in 1 .. Len(s) : i # j => s[i] # s[j]
    /\ \A i, j \in 1 .. Len(s) : i <= j => K[s[i]] <= K[s[j]]

\* The row at a place of one order comes no later than the row at that place or
\* a later one of another.
LEMMA OrdersAgree ==
    ASSUME NEW S, IsFiniteSet(S), NEW K \in [S -> Int], NEW n \in Nat, n = Cardinality(S),
           NEW s, IsOrder(s, S, K), NEW t, IsOrder(t, S, K), NEW i \in 1 .. n, NEW j \in 1 .. n, i <= j
    PROVE  K[s[i]] <= K[t[j]]
<1>a. /\ s \in Seq(S) /\ t \in Seq(S) /\ Len(s) = n /\ Len(t) = n
      /\ \A a, b \in 1 .. n : a # b => s[a] # s[b]
      /\ \A a, b \in 1 .. n : a # b => t[a] # t[b]
      /\ \A a, b \in 1 .. n : a <= b => K[s[a]] <= K[s[b]]
      /\ \A a, b \in 1 .. n : a <= b => K[t[a]] <= K[t[b]]
  BY DEF IsOrder
<1> SUFFICES ASSUME ~(K[s[i]] <= K[t[j]]) PROVE FALSE
  OBVIOUS
<1>0. \A a \in 1 .. n : s[a] \in S /\ t[a] \in S /\ K[s[a]] \in Int /\ K[t[a]] \in Int
  BY <1>a
<1>b. PICK upTo : upTo = 1 .. j
  OBVIOUS
<1>c. PICK from : from = i .. n
  OBVIOUS
<1>1. PICK A : A = {t[a] : a \in upTo}
  OBVIOUS
<1>2. PICK B : B = {s[a] : a \in from}
  OBVIOUS
<1>3. IsFiniteSet(upTo) /\ Cardinality(upTo) = j
  <2>1. IsFiniteSet(1 .. j) /\ Cardinality(1 .. j) = IF 1 > j THEN 0 ELSE j - 1 + 1
    BY FS_Interval
  <2> QED
    BY <1>b, <2>1
<1>4. IsFiniteSet(from) /\ Cardinality(from) = n - i + 1
  <2>1. IsFiniteSet(i .. n) /\ Cardinality(i .. n) = IF i > n THEN 0 ELSE n - i + 1
    BY FS_Interval
  <2> QED
    BY <1>c, <2>1
<1>5. Cardinality(A) = j
  <2>1. \A a, b \in upTo : a # b => t[a] # t[b]
    BY <1>a, <1>b
  <2> QED
    BY <1>1, <1>3, <2>1, ImageSize
<1>6. Cardinality(B) = n - i + 1
  <2>1. \A a, b \in from : a # b => s[a] # s[b]
    BY <1>a, <1>c
  <2> QED
    BY <1>2, <1>4, <2>1, ImageSize
<1>7. A \subseteq S /\ B \subseteq S
  BY <1>0, <1>1, <1>2, <1>b, <1>c
<1>8. Cardinality(A) + Cardinality(B) > Cardinality(S)
  BY <1>5, <1>6
<1>9. PICK x : x \in A /\ x \in B
  BY <1>7, <1>8, FS_MajoritiesIntersect
<1>10. PICK a \in 1 .. n, b \in 1 .. n : a <= j /\ x = t[a] /\ i <= b /\ x = s[b]
  BY <1>1, <1>2, <1>9, <1>b, <1>c
<1>11. K[x] <= K[t[j]] /\ K[s[i]] <= K[x]
  BY <1>a, <1>10
<1>12. K[x] \in Int /\ K[t[j]] \in Int /\ K[s[i]] \in Int
  BY <1>0, <1>10
<1> QED
  BY <1>11, <1>12

\* Without ties there is one order.
LEMMA OneOrder ==
    ASSUME NEW S, IsFiniteSet(S), NEW K \in [S -> Int], NEW n \in Nat, n = Cardinality(S),
           NEW s, IsOrder(s, S, K), NEW t, IsOrder(t, S, K),
           \A x, y \in S : K[x] = K[y] => x = y
    PROVE  s = t
<1>1. s \in Seq(S) /\ t \in Seq(S) /\ Len(s) = n /\ Len(t) = n
  BY DEF IsOrder
<1>2. ASSUME NEW i \in 1 .. n PROVE s[i] = t[i]
  <2>1. K[s[i]] <= K[t[i]] /\ K[t[i]] <= K[s[i]]
    BY OrdersAgree
  <2>2. s[i] \in S /\ t[i] \in S /\ K[s[i]] \in Int /\ K[t[i]] \in Int
    BY <1>1
  <2> QED
    BY <2>1, <2>2
<1> QED
  BY <1>1, <1>2, SeqEqual

-----------------------------------------------------------------------------
(* The pages one after the other. *)

\* FlattenSeq puts one sequence after the other.
LEMMA FlattenSteps ==
    ASSUME NEW S, NEW s, s \in Seq(Seq(S)), Len(s) > 0
    PROVE  \E d : /\ d = [i \in 1 .. Len(s) |-> IF i = 1 THEN s[i] ELSE d[i - 1] \o s[i]]
                  /\ FlattenSeq(s) = d[Len(s)]
<1> DEFINE G(f, n) == f = [i \in 1 .. n |-> IF i = 1 THEN s[i] ELSE f[i - 1] \o s[i]]
           Solved == {n \in Nat : n <= Len(s) => \E f : G(f, n)}
<1>1. 0 \in Solved
  <2>1. G([i \in 1 .. 0 |-> 0], 0)
    OBVIOUS
  <2> QED
    BY <2>1
<1>2. ASSUME NEW n \in Nat, n \in Solved PROVE n + 1 \in Solved
  <2>1. ASSUME n + 1 <= Len(s), NEW f, G(f, n) PROVE \E g : G(g, n + 1)
    <3> DEFINE g == [i \in 1 .. n + 1 |-> IF i <= n THEN f[i]
                                          ELSE IF i = 1 THEN s[i] ELSE f[i - 1] \o s[i]]
    <3>1. \A i \in 1 .. n : f[i] = IF i = 1 THEN s[i] ELSE f[i - 1] \o s[i]
      BY <2>1
    <3>2. \A i \in 1 .. n + 1 : g[i] = IF i = 1 THEN s[i] ELSE g[i - 1] \o s[i]
      BY <3>1
    <3>3. G(g, n + 1)
      BY <3>2
    <3> QED
      BY <3>3
  <2> HIDE DEF G
  <2>2. n + 1 <= Len(s) => \E f : G(f, n)
    BY <1>2
  <2> QED
    BY <2>1, <2>2
<1>3. Len(s) \in Solved
  <2>0. Len(s) \in Nat
    OBVIOUS
  <2> HIDE DEF Solved
  <2> QED
    BY <1>1, <1>2, <2>0, AllNumbers
<1>4. \E f : G(f, Len(s))
  <2> HIDE DEF G
  <2> QED
    BY <1>3
<1>5. G(CHOOSE f : G(f, Len(s)), Len(s))
  BY <1>4, Zenon
<1>6. FlattenSeq(s) = (CHOOSE f : G(f, Len(s)))[Len(s)]
  BY DEF FlattenSeq
<1> QED
  BY <1>5, <1>6

LEMMA ConcatIs ==
    ASSUME NEW S, NEW a \in Seq(S), NEW b \in Seq(S), NEW c, c = a \o b
    PROVE  /\ c \in Seq(S) /\ Len(a) \in Nat /\ Len(b) \in Nat /\ Len(c) = Len(a) + Len(b)
           /\ \A j \in 1 .. Len(a) : c[j] = a[j]
           /\ \A j \in 1 .. Len(b) : c[Len(a) + j] = b[j]
OBVIOUS

\* What the first k pages hold: the first rows, the one at each place from some
\* order at that place.
FirstRows(a, k, S, limit, total, O, hi) ==
    /\ a \in Seq(S)
    /\ k * limit <= total => Len(a) = k * limit
    /\ k * limit >= total => Len(a) = total
    /\ \A i \in 1 .. Len(a) : \E p \in 1 .. hi : a[i] = O[p][i]

\* One page more.
LEMMA PageAppended ==
    ASSUME NEW S, NEW limit \in Nat \ {0}, NEW total \in Nat, NEW hi \in Nat, NEW k \in Nat, k < hi,
           NEW O, O[k + 1] \in Seq(S), Len(O[k + 1]) = total,
           NEW a, FirstRows(a, k, S, limit, total, O, hi),
           NEW d, d = Slice(O[k + 1], k + 1, limit), NEW c, c = a \o d
    PROVE  FirstRows(c, k + 1, S, limit, total, O, hi)
<1>1. PICK first \in Nat : first = k * limit
  OBVIOUS
<1>2. (k + 1) * limit = first + limit
  BY <1>1
<1>3. first = skip(k + 1, limit)
  BY <1>1 DEF skip
<1>4. PICK s \in Seq(S) : s = O[k + 1] /\ Len(s) = total
  OBVIOUS
<1>5. /\ d \in Seq(S) /\ Len(d) \in Nat
      /\ first + limit <= total => Len(d) = limit
      /\ first + limit > total /\ first <= total => Len(d) = total - first
      /\ first >= total => Len(d) = 0
      /\ \A i \in 1 .. Len(d) : d[i] = s[first + i]
  <2>1. PICK page : page = k + 1
    OBVIOUS
  <2>2. d = Slice(s, page, limit) /\ first = skip(page, limit)
    BY <1>3, <1>4, <2>1
  <2>3. /\ d \in Seq(S) /\ Len(d) \in Nat
        /\ first + limit <= Len(s) => Len(d) = limit
        /\ first + limit > Len(s) /\ first <= Len(s) => Len(d) = Len(s) - first
        /\ first >= Len(s) => Len(d) = 0
        /\ \A i \in 1 .. Len(d) : d[i] = s[first + i]
    <3>1. IsPiece(d, s, first, limit, S)
      BY <2>2, PieceIs
    <3> QED
      BY <3>1 DEF IsPiece
  <2> QED
    BY <1>4, <2>3
<1>6. /\ a \in Seq(S) /\ Len(a) \in Nat
      /\ first <= total => Len(a) = first
      /\ first >= total => Len(a) = total
      /\ \A i \in 1 .. Len(a) : \E p \in 1 .. hi : a[i] = O[p][i]
  BY <1>1 DEF FirstRows
<1>7. /\ c \in Seq(S) /\ Len(c) = Len(a) + Len(d)
      /\ \A i \in 1 .. Len(a) : c[i] = a[i]
      /\ \A i \in 1 .. Len(d) : c[Len(a) + i] = d[i]
  BY <1>5, <1>6, ConcatIs
<1>8. /\ first + limit <= total => Len(c) = first + limit
      /\ first + limit >= total => Len(c) = total
  <2>1. PICK m \in Nat, n \in Nat : m = Len(a) /\ n = Len(d)
    BY <1>5, <1>6
  <2>2. Len(c) = m + n
    BY <1>7, <2>1
  <2>3. /\ first <= total => m = first
        /\ first >= total => m = total
    BY <1>6, <2>1
  <2>4. /\ first + limit <= total => n = limit
        /\ first + limit > total /\ first <= total => n = total - first
        /\ first >= total => n = 0
    BY <1>5, <2>1
  <2>5. /\ first + limit <= total => m + n = first + limit
        /\ first + limit >= total => m + n = total
    BY <2>3, <2>4
  <2> QED
    BY <2>2, <2>5
<1>9. ASSUME NEW i \in 1 .. Len(c) PROVE \E p \in 1 .. hi : c[i] = O[p][i]
  <2>1. CASE i <= Len(a)
    BY <1>5, <1>6, <1>7, <2>1
  <2>2. CASE i > Len(a)
    <3>1. PICK j \in 1 .. Len(d) : i = Len(a) + j
      <4>1. i - Len(a) \in 1 .. Len(d) /\ i = Len(a) + (i - Len(a))
        BY <1>5, <1>6, <1>7, <2>2
      <4> QED
        BY <4>1
    <3>2. Len(a) = first
      BY <1>5, <1>6, <3>1
    <3>3. c[i] = s[i]
      BY <1>5, <1>7, <3>1, <3>2
    <3>4. k + 1 \in 1 .. hi
      OBVIOUS
    <3> QED
      BY <1>4, <3>3, <3>4
  <2> QED
    BY <1>5, <1>6, <1>7, <2>1, <2>2
<1> QED
  BY <1>2, <1>7, <1>8, <1>9 DEF FirstRows

\* The pages P up to hi, cut from the orders O.
AllPages(P, O, hi, S, limit, total) ==
    /\ limit \in Nat \ {0} /\ total \in Nat /\ hi \in Nat \ {0} /\ hi * limit >= total
    /\ \A p \in 1 .. hi : O[p] \in Seq(S) /\ Len(O[p]) = total
    /\ P = [p \in 1 .. hi |-> Slice(O[p], p, limit)]

\* As many rows as the total, the one at each place from some order at that place.
FromOrders(rows, O, hi, S, total) ==
    /\ rows \in Seq(S) /\ Len(rows) = total
    /\ \A i \in 1 .. total : \E p \in 1 .. hi : rows[i] = O[p][i]

\* All pages one after the other.
LEMMA PagesRead ==
    ASSUME NEW P, NEW O, NEW hi, NEW S, NEW limit, NEW total,
           AllPages(P, O, hi, S, limit, total), NEW rows, rows = FlattenSeq(P)
    PROVE  FromOrders(rows, O, hi, S, total)
<1>0. /\ limit \in Nat \ {0} /\ total \in Nat /\ hi \in Nat \ {0} /\ hi * limit >= total
      /\ \A p \in 1 .. hi : O[p] \in Seq(S) /\ Len(O[p]) = total
      /\ P = [p \in 1 .. hi |-> Slice(O[p], p, limit)]
  BY DEF AllPages
<1>1. ASSUME NEW p \in 1 .. hi PROVE P[p] \in Seq(S) /\ P[p] = Slice(O[p], p, limit)
  <2>1. PICK first \in Nat : first = skip(p, limit)
    BY <1>0 DEF skip
  <2>2. PICK s, d : s \in Seq(S) /\ s = O[p] /\ d = Slice(s, p, limit) /\ d = P[p]
    BY <1>0
  <2>3. d \in Seq(S)
    BY <1>0, <2>1, <2>2, SliceIs
  <2> QED
    BY <2>2, <2>3
<1>2. P \in Seq(Seq(S)) /\ Len(P) = hi
  BY <1>0, <1>1
<1>3. PICK d : /\ d = [i \in 1 .. hi |-> IF i = 1 THEN P[i] ELSE d[i - 1] \o P[i]]
               /\ rows = d[hi]
  <2>1. Len(P) > 0
    BY <1>0, <1>2
  <2>2. PICK d : /\ d = [i \in 1 .. Len(P) |-> IF i = 1 THEN P[i] ELSE d[i - 1] \o P[i]]
                 /\ FlattenSeq(P) = d[Len(P)]
    BY <1>2, <2>1, FlattenSteps
  <2> QED
    BY <1>2, <2>2
<1>4. d[1] = P[1] /\ \A i \in 1 .. hi : i # 1 => d[i] = d[i - 1] \o P[i]
  <2>1. \A i \in 1 .. hi : d[i] = IF i = 1 THEN P[i] ELSE d[i - 1] \o P[i]
    BY <1>3
  <2>2. 1 \in 1 .. hi
    BY <1>0
  <2>3. d[1] = P[1]
    BY <2>1, <2>2
  <2>4. ASSUME NEW i \in 1 .. hi, i # 1 PROVE d[i] = d[i - 1] \o P[i]
    BY <2>1, <2>4
  <2> QED
    BY <2>3, <2>4
<1> DEFINE G == {n \in Nat : n \in 1 .. hi => FirstRows(d[n], n, S, limit, total, O, hi)}
<1>5. 0 \in G
  OBVIOUS
<1>6. ASSUME NEW n \in Nat, n \in G PROVE n + 1 \in G
  <2> SUFFICES ASSUME n + 1 \in 1 .. hi PROVE FirstRows(d[n + 1], n + 1, S, limit, total, O, hi)
    OBVIOUS
  <2>1. PICK a : a = IF n = 0 THEN <<>> ELSE d[n]
    OBVIOUS
  <2>2. FirstRows(a, n, S, limit, total, O, hi)
    <3>1. CASE n = 0
      <4>1. a = <<>> /\ a \in Seq(S) /\ Len(a) = 0 /\ n * limit = 0
        BY <1>0, <2>1, <3>1
      <4> QED
        BY <1>0, <4>1 DEF FirstRows
    <3>2. CASE n # 0
      <4>1. n \in 1 .. hi
        BY <1>0, <3>2
      <4> QED
        BY <1>6, <2>1, <3>2, <4>1
    <3> QED
      BY <3>1, <3>2
  <2>3. d[n + 1] = a \o P[n + 1]
    <3>1. CASE n = 0
      <4>1. P[1] \in Seq(S) /\ <<>> \o P[1] = P[1]
        BY <1>0, <1>1, ConcatEmptySeq
      <4> QED
        BY <1>4, <2>1, <3>1, <4>1
    <3>2. CASE n # 0
      <4>1. n + 1 \in 1 .. hi /\ n + 1 # 1 /\ (n + 1) - 1 = n
        BY <3>2
      <4>2. d[n + 1] = d[(n + 1) - 1] \o P[n + 1]
        BY <1>4, <4>1
      <4> QED
        BY <2>1, <3>2, <4>1, <4>2
    <3> QED
      BY <3>1, <3>2
  <2>4. /\ O[n + 1] \in Seq(S) /\ Len(O[n + 1]) = total /\ P[n + 1] = Slice(O[n + 1], n + 1, limit)
        /\ n < hi
    BY <1>0, <1>1
  <2>5. PICK e : e = P[n + 1]
    OBVIOUS
  <2>6. PICK c : c = d[n + 1]
    OBVIOUS
  <2> QED
    BY <1>0, <2>2, <2>3, <2>4, <2>5, <2>6, PageAppended
<1>7. hi \in G
  <2> HIDE DEF G
  <2> QED
    BY <1>0, <1>5, <1>6, AllNumbers
<1>8. FirstRows(rows, hi, S, limit, total, O, hi)
  <2>1. hi \in Nat /\ hi \in 1 .. hi
    BY <1>0
  <2>2. FirstRows(d[hi], hi, S, limit, total, O, hi)
    BY <1>7, <2>1
  <2> QED
    BY <1>3, <2>2
<1>9. PICK all \in Nat : all = hi * limit /\ all >= total
  BY <1>0
<1> QED
  BY <1>0, <1>8, <1>9 DEF FirstRows, FromOrders

-----------------------------------------------------------------------------
(* The walks. *)

\* The rows selected, by the column of the order; from the largest when descending.
Rank(form) ==
    [i \in Selected(form) |-> IF With(form, "order") = "asc" THEN Row[i][With(form, "sort_by")]
                              ELSE 0 - Row[i][With(form, "sort_by")]]

LEMMA ColumnIsNumber ==
    ASSUME NEW by \in {"age", "gender_probability", "created_at"}, NEW i \in Id
    PROVE  Row[i][by] \in Nat
BY RowsAreTyped

LEMMA RankIs ==
    ASSUME NEW form, QueryFits(form), profiles \subseteq Id, NEW K, K = Rank(form)
    PROVE  /\ K \in [Selected(form) -> Int]
           /\ \A s \in Sorted(form) : IsOrder(s, Selected(form), K)
<1>1. PICK by, order, S :
         /\ by \in {"age", "gender_probability", "created_at"} /\ order \in {"asc", "desc"}
         /\ by = With(form, "sort_by") /\ order = With(form, "order") /\ S = Selected(form)
  BY DEF QueryFits
<1>2. \A i \in S : i \in Id /\ Row[i][by] \in Nat
  BY <1>1, SelectedIs, ColumnIsNumber
<1>3. K = [i \in S |-> IF order = "asc" THEN Row[i][by] ELSE 0 - Row[i][by]]
  BY <1>1 DEF Rank
<1>4. K \in [S -> Int]
  BY <1>2, <1>3
<1>5. ASSUME NEW s \in Sorted(form) PROVE IsOrder(s, S, K)
  <2>1. /\ s \in Seq(S) /\ Len(s) = Cardinality(S) /\ Len(s) \in Nat
        /\ \A i, j \in 1 .. Len(s) : i # j => s[i] # s[j]
    BY <1>1, SortedIs
  <2>2. \A i \in 1 .. Len(s) - 1 : IF order = "asc" THEN Row[s[i]][by] <= Row[s[i + 1]][by]
                                   ELSE Row[s[i]][by] >= Row[s[i + 1]][by]
    BY <1>1 DEF Sorted, Orders
  <2>3. ASSUME NEW i \in 1 .. Len(s) - 1 PROVE K[s[i]] <= K[s[i + 1]]
    <3>1. s[i] \in S /\ s[i + 1] \in S
      BY <2>1
    <3>2. PICK m \in Nat, n \in Nat : m = Row[s[i]][by] /\ n = Row[s[i + 1]][by]
      BY <1>2, <3>1
    <3>3. IF order = "asc" THEN m <= n ELSE m >= n
      BY <2>2, <3>2
    <3>4. /\ K[s[i]] = IF order = "asc" THEN m ELSE 0 - m
          /\ K[s[i + 1]] = IF order = "asc" THEN n ELSE 0 - n
      BY <1>3, <3>1, <3>2
    <3> QED
      BY <3>3, <3>4
  <2>4. \A i, j \in 1 .. Len(s) : i <= j => K[s[i]] <= K[s[j]]
    BY <1>4, <2>1, <2>3, Monotone
  <2> QED
    BY <2>1, <2>4 DEF IsOrder
<1> QED
  BY <1>1, <1>4, <1>5

LEMMA EnoughPages ==
    ASSUME NEW total \in Nat, NEW limit \in Nat \ {0}, NEW hi \in Nat,
           (total + limit - 1) \div limit <= hi
    PROVE  hi * limit >= total
<1>1. PICK q \in Nat : q = (total + limit - 1) \div limit
  OBVIOUS
<1>2. q * limit >= total
  BY <1>1
<1>3. hi * limit >= q * limit
  BY <1>1
<1> QED
  BY <1>2, <1>3

\* A whole walk reads the first rows of some order at each place, as many as there
\* are.
LEMMA WholeRead ==
    ASSUME Inv, NEW c \in steady, WholeWalk(c), NEW form, form = normalizeFilters(walk[c].query),
           NEW S, S = Selected(form), NEW K, K = Rank(form), NEW rows, rows = Read(c)
    PROVE  /\ rows \in Seq(S) /\ Len(rows) = Cardinality(S) /\ Len(rows) \in Nat
           /\ Len(rows) = walk[c].last.total
           /\ \A i \in 1 .. Len(rows) : \E s : IsOrder(s, S, K) /\ rows[i] = s[i]
<1>1. PICK w : w = walk[c]
  OBVIOUS
<1>2. WalkIsOfItsQuery(w) /\ PagesAreCurrent(w) /\ profiles \subseteq Id
  BY <1>1 DEF Inv
<1>3. QueryFits(w.query) /\ QueryFits(form)
  BY <1>1, <1>2, NormalFits DEF WalkIsOfItsQuery
<1>4. PICK limit \in Nat \ {0} : limit = With(w.query, "limit")
  BY <1>3 DEF QueryFits
<1>5. PICK total \in Nat : total = Cardinality(S) /\ w.last.total = total
  BY <1>1, <1>2, SelectedIs DEF PagesAreCurrent
<1>6. PICK hi \in Nat \ {0} : DOMAIN w.pages = 1 .. hi
  <2>1. PICK m \in Nat \ {0}, n \in Nat : DOMAIN w.pages = m .. n
    BY <1>2 DEF PagesAreCurrent
  <2>2. 1 \in DOMAIN w.pages
    BY <1>1 DEF WholeWalk
  <2>3. m = 1 /\ n # 0
    BY <2>1, <2>2
  <2> QED
    BY <2>1, <2>3
<1>7. hi * limit >= total
  <2>1. w.last.limit = limit /\ w.last.page \in 1 .. hi
    BY <1>2, <1>4, <1>6 DEF PagesAreCurrent
  <2>2. PICK q \in Nat : q = (total + limit - 1) \div limit
    OBVIOUS
  <2>3. totalPages(w.last) = q
    BY <1>5, <2>1, <2>2 DEF totalPages
  <2>4. ~(w.last.page < q) \/ q \in 1 .. hi
    BY <1>1, <1>6, <2>3 DEF WholeWalk, hasNext
  <2>5. q <= hi
    BY <2>1, <2>4
  <2> QED
    BY <2>2, <2>5, EnoughPages
<1>8. PICK O : O = [p \in 1 .. hi |-> CHOOSE s \in Sorted(form) : w.pages[p] = Slice(s, p, limit)]
  OBVIOUS
<1>9. ASSUME NEW p \in 1 .. hi
      PROVE  O[p] \in Sorted(form) /\ w.pages[p] = Slice(O[p], p, limit)
  <2>1. \E s \in Sorted(form) : w.pages[p] = Slice(s, p, limit)
    BY <1>1, <1>2, <1>4, <1>6 DEF PagesAreCurrent
  <2>2. O[p] = CHOOSE s \in Sorted(form) : w.pages[p] = Slice(s, p, limit)
    BY <1>8
  <2> QED
    BY <2>1, <2>2
<1>10. ASSUME NEW p \in 1 .. hi
       PROVE  O[p] \in Seq(S) /\ Len(O[p]) = total /\ IsOrder(O[p], S, K)
  BY <1>2, <1>3, <1>5, <1>9, SortedIs, RankIs
<1>11. PICK P : P = [p \in 1 .. hi |-> w.pages[p]]
  OBVIOUS
<1>12. P = [p \in 1 .. hi |-> Slice(O[p], p, limit)]
  BY <1>9, <1>11
<1>13. rows = FlattenSeq(P)
  <2>1. Cardinality(1 .. hi) = hi
    <3>1. Cardinality(1 .. hi) = IF 1 > hi THEN 0 ELSE hi - 1 + 1
      BY FS_Interval
    <3> QED
      BY <3>1
  <2> QED
    BY <1>1, <1>6, <1>11, <2>1 DEF Read
<1>14. /\ rows \in Seq(S) /\ Len(rows) = total
       /\ \A i \in 1 .. total : \E p \in 1 .. hi : rows[i] = O[p][i]
  <2>1. \A p \in 1 .. hi : O[p] \in Seq(S) /\ Len(O[p]) = total
    BY <1>10
  <2>2. AllPages(P, O, hi, S, limit, total)
    BY <1>7, <1>12, <2>1 DEF AllPages
  <2>3. FromOrders(rows, O, hi, S, total)
    BY <1>13, <2>2, PagesRead
  <2> QED
    BY <2>3 DEF FromOrders
<1>15. \A i \in 1 .. total : \E s : IsOrder(s, S, K) /\ rows[i] = s[i]
  BY <1>10, <1>14
<1> QED
  BY <1>1, <1>5, <1>14, <1>15

\* Without ties a whole walk reads each row once.
LEMMA UntiedRead ==
    ASSUME Inv, NEW c \in steady, WholeWalk(c), Untied(c),
           NEW S, S = Selected(normalizeFilters(walk[c].query)), NEW rows, rows = Read(c)
    PROVE  ToSet(rows) = S /\ Cardinality(ToSet(rows)) = Len(rows)
<1>1. PICK form : form = normalizeFilters(walk[c].query)
  OBVIOUS
<1>2. PICK K : K = Rank(form)
  OBVIOUS
<1>3. /\ rows \in Seq(S) /\ Len(rows) = Cardinality(S) /\ Len(rows) \in Nat
      /\ \A i \in 1 .. Len(rows) : \E s : IsOrder(s, S, K) /\ rows[i] = s[i]
  BY <1>1, <1>2, WholeRead
<1>4. WalkIsOfItsQuery(walk[c]) /\ profiles \subseteq Id
  BY DEF Inv
<1>5. QueryFits(walk[c].query) /\ QueryFits(form)
  BY <1>1, <1>4, NormalFits DEF WalkIsOfItsQuery
<1>6. K \in [S -> Int] /\ IsFiniteSet(S)
  BY <1>1, <1>2, <1>4, <1>5, RankIs, SelectedIs
<1>7. \A x, y \in S : K[x] = K[y] => x = y
  <2> SUFFICES ASSUME NEW x \in S, NEW y \in S, K[x] = K[y] PROVE x = y
    OBVIOUS
  <2>1. PICK by \in {"age", "gender_probability", "created_at"} :
           by = With(form, "sort_by") /\ by = With(walk[c].query, "sort_by")
    BY <1>1, <1>5, NormalWith, DefaultNames DEF QueryFits
  <2>2. PICK m \in Nat, n \in Nat : m = Row[x][by] /\ n = Row[y][by]
    BY <1>1, <1>4, SelectedIs, ColumnIsNumber
  <2>3. K[x] = (IF With(form, "order") = "asc" THEN m ELSE 0 - m)
    BY <1>1, <1>2, <2>1, <2>2 DEF Rank
  <2>4. K[y] = (IF With(form, "order") = "asc" THEN n ELSE 0 - n)
    BY <1>1, <1>2, <2>1, <2>2 DEF Rank
  <2>5. m = n
    <3>1. CASE With(form, "order") = "asc"
      BY <2>3, <2>4, <3>1
    <3>2. CASE With(form, "order") # "asc"
      <4>1. 0 - m = 0 - n
        BY <2>3, <2>4, <3>2
      <4> QED
        BY <4>1
    <3> QED
      BY <3>1, <3>2
  <2>6. Key(c, x) = Key(c, y)
    BY <2>1, <2>2, <2>5 DEF Key
  <2> QED
    BY <2>6 DEF Untied
<1>8. ASSUME NEW i \in 1 .. Len(rows), NEW j \in 1 .. Len(rows), i # j PROVE rows[i] # rows[j]
  <2>1. PICK s : IsOrder(s, S, K) /\ rows[i] = s[i]
    BY <1>3
  <2>2. PICK t : IsOrder(t, S, K) /\ rows[j] = t[j]
    BY <1>3
  <2>3. PICK n \in Nat : n = Cardinality(S)
    BY <1>3
  <2>4. s = t
    BY <1>6, <1>7, <2>1, <2>2, <2>3, OneOrder
  <2>5. s[i] # s[j]
    BY <1>3, <1>8, <2>1 DEF IsOrder
  <2> QED
    BY <2>1, <2>2, <2>4, <2>5
<1>9. rows \in Seq(S) /\ Len(rows) = Cardinality(S) /\ IsFiniteSet(S)
  BY <1>3, <1>6
<1>10. \A i, j \in 1 .. Len(rows) : i # j => rows[i] # rows[j]
  BY <1>8
<1>11. ToSet(rows) = S
  BY <1>9, <1>10, CoversAll
<1> QED
  BY <1>9, <1>11

LEMMA InvWalks ==
    ASSUME Inv
    PROVE  WalkIsExact
<1> SUFFICES ASSUME NEW c \in Client, WholeWalk(c), NEW rows, rows = Read(c)
             PROVE  /\ Len(rows) = walk[c].last.total
                    /\ \A i, j \in DOMAIN rows : i < j =>
                          IF With(walk[c].query, "order") = "asc"
                            THEN Key(c, rows[i]) <= Key(c, rows[j])
                            ELSE Key(c, rows[i]) >= Key(c, rows[j])
                    /\ Untied(c) => Cardinality(ToSet(rows)) = Len(rows)
  BY DEF WalkIsExact
<1>0. c \in steady
  BY DEF WholeWalk
<1>1. PICK form : form = normalizeFilters(walk[c].query)
  OBVIOUS
<1>2. PICK K, S : K = Rank(form) /\ S = Selected(form)
  OBVIOUS
<1>3. /\ rows \in Seq(S) /\ Len(rows) = Cardinality(S) /\ Len(rows) \in Nat
      /\ Len(rows) = walk[c].last.total
      /\ \A i \in 1 .. Len(rows) : \E s : IsOrder(s, S, K) /\ rows[i] = s[i]
  BY <1>0, <1>1, <1>2, WholeRead
<1>4. WalkIsOfItsQuery(walk[c]) /\ profiles \subseteq Id
  BY <1>0 DEF Inv
<1>5. QueryFits(walk[c].query) /\ QueryFits(form)
  BY <1>1, <1>4, NormalFits DEF WalkIsOfItsQuery
<1>6. K \in [S -> Int] /\ IsFiniteSet(S)
  BY <1>1, <1>2, <1>4, <1>5, RankIs, SelectedIs
<1>7. PICK by \in {"age", "gender_probability", "created_at"}, order \in {"asc", "desc"} :
         /\ by = With(form, "sort_by") /\ by = With(walk[c].query, "sort_by")
         /\ order = With(form, "order") /\ order = With(walk[c].query, "order")
  BY <1>1, <1>5, NormalWith, DefaultNames DEF QueryFits
<1>8. ASSUME NEW i \in DOMAIN rows, NEW j \in DOMAIN rows, i < j
      PROVE  IF order = "asc" THEN Key(c, rows[i]) <= Key(c, rows[j])
             ELSE Key(c, rows[i]) >= Key(c, rows[j])
  <2>1. PICK n \in Nat : n = Cardinality(S) /\ i \in 1 .. n /\ j \in 1 .. n /\ i <= j
    BY <1>3, <1>8
  <2>2. PICK s : IsOrder(s, S, K) /\ rows[i] = s[i]
    BY <1>3, <2>1
  <2>3. PICK t : IsOrder(t, S, K) /\ rows[j] = t[j]
    BY <1>3, <2>1
  <2>4. K[s[i]] <= K[t[j]]
    BY <1>6, <2>1, <2>2, <2>3, OrdersAgree
  <2>5. PICK x \in S, y \in S : x = rows[i] /\ y = rows[j]
    BY <1>3
  <2>6. PICK a \in Nat, b \in Nat : a = Row[x][by] /\ b = Row[y][by]
    BY <1>2, <1>4, SelectedIs, ColumnIsNumber
  <2>7. K[x] = (IF order = "asc" THEN a ELSE 0 - a)
    BY <1>2, <1>7, <2>6 DEF Rank
  <2>8. K[y] = (IF order = "asc" THEN b ELSE 0 - b)
    BY <1>2, <1>7, <2>6 DEF Rank
  <2>9. K[x] <= K[y]
    BY <2>2, <2>3, <2>4, <2>5
  <2>10. IF order = "asc" THEN a <= b ELSE a >= b
    BY <2>7, <2>8, <2>9
  <2>11. Key(c, x) = a /\ Key(c, y) = b
    BY <1>7, <2>6 DEF Key
  <2> QED
    BY <2>5, <2>10, <2>11
<1>9. Untied(c) => Cardinality(ToSet(rows)) = Len(rows)
  BY <1>0, <1>1, <1>2, UntiedRead
<1> QED
  BY <1>3, <1>7, <1>8, <1>9

\* A client that follows the links reads as many rows as the total says, in the
\* order it asked for, from pages cached at different times; without ties it reads
\* no row twice.  buildProfileQuery and the links of toPaginatedResponse fit
\* together.
THEOREM WalksAreExact == Spec => []WalkIsExact
BY Invariance, InvWalks, PTL

-----------------------------------------------------------------------------
(* The lists. *)

LEMMA PagesHold ==
    ASSUME Inv, NEW c \in steady, NEW p \in DOMAIN walk[c].pages
    PROVE  ToSet(walk[c].pages[p]) \subseteq Selected(normalizeFilters(walk[c].query))
<1>1. PICK w : w = walk[c]
  OBVIOUS
<1>2. WalkIsOfItsQuery(w) /\ PagesAreCurrent(w) /\ profiles \subseteq Id
  BY <1>1 DEF Inv
<1>3. PICK form : form = normalizeFilters(w.query) /\ QueryFits(form)
  BY <1>2, NormalFits DEF WalkIsOfItsQuery
<1>4. PICK limit \in Nat \ {0} : limit = With(w.query, "limit")
  BY <1>2 DEF WalkIsOfItsQuery, QueryFits
<1>5. PICK s \in Sorted(form) : w.pages[p] = Slice(s, p, limit)
  BY <1>1, <1>2, <1>3, <1>4 DEF PagesAreCurrent
<1>6. p \in Nat \ {0}
  <2>1. PICK m \in Nat \ {0}, n \in Nat : DOMAIN w.pages = m .. n
    BY <1>2 DEF PagesAreCurrent
  <2> QED
    BY <1>1, <2>1
<1>7. PICK first \in Nat : first = skip(p, limit)
  BY <1>6 DEF skip
<1>8. PICK S : S = Selected(form) /\ s \in Seq(S)
  BY <1>2, <1>3, SortedIs
<1>9. PICK d : d = Slice(s, p, limit)
  OBVIOUS
<1>10. d \in Seq(S)
  BY <1>7, <1>8, <1>9, SliceIs
<1>11. ToSet(d) \subseteq S
  BY <1>10 DEF ToSet
<1> QED
  BY <1>1, <1>3, <1>5, <1>8, <1>9, <1>11

LEMMA InvLists ==
    ASSUME Inv
    PROVE  ListIsWhatWasAsked
<1> SUFFICES ASSUME NEW c \in steady, walk[c].kind = "list"
             PROVE  /\ \A p \in DOMAIN walk[c].pages : ToSet(walk[c].pages[p]) \subseteq Wanted(walk[c].asked, 5)
                    /\ WholeWalk(c) /\ Untied(c) => Wanted(walk[c].asked, -5) \subseteq ToSet(Read(c))
  BY DEF ListIsWhatWasAsked
<1>1. PICK raw \in ListQuery : raw = walk[c].asked /\ walk[c].query = GetProfilesQuery(raw)
  BY DEF Inv, WalkIsOfItsQuery
<1>2. PICK query : query = walk[c].query /\ IsFor(query, raw)
  BY <1>1, GetIsFor
<1>3. PICK S : S = Selected(normalizeFilters(query))
  OBVIOUS
<1>4. S \subseteq Wanted(raw, 5) /\ Wanted(raw, -5) \subseteq S
  BY <1>2, <1>3, SelectedIsWanted DEF Inv
<1>5. ASSUME NEW p \in DOMAIN walk[c].pages PROVE ToSet(walk[c].pages[p]) \subseteq S
  BY <1>2, <1>3, PagesHold
<1>6. ASSUME WholeWalk(c), Untied(c) PROVE ToSet(Read(c)) = S
  BY <1>2, <1>3, <1>6, UntiedRead
<1> QED
  BY <1>1, <1>4, <1>5, <1>6

\* The list holds what the client asked for, filter by filter and up to the rounding
\* of probabilities, whichever of the equal queries put the page into the cache:
\* GetProfilesQueryDto, normalizeFilters and buildProfileQuery agree on what a
\* filter means.
THEOREM ListsAreWhatWasAsked == Spec => []ListIsWhatWasAsked
BY Invariance, InvLists, PTL

-----------------------------------------------------------------------------
(* The texts. *)

LEMMA WordFacts ==
    /\ Genders = {"male", "female"}
    /\ ToSet(AgeGroups) = {"child", "teenager", "adult", "senior"}
    /\ DOMAIN AgeGroups = 1 .. 4
    /\ AgeGroups[1] = "child" /\ AgeGroups[2] = "teenager"
    /\ AgeGroups[3] = "adult" /\ AgeGroups[4] = "senior"
BY DEF Genders, AgeGroups, ToSet

LEMMA WordsApart ==
    /\ \A word \in Genders \cup ToSet(AgeGroups) : word \notin Capital
    /\ \A word \in DOMAIN Terms : /\ word \notin Genders /\ word \notin ToSet(AgeGroups)
                                  /\ word # "young" /\ word # "over" /\ word # "under"
BY WordsAssumption

\* The words and phrases that say a gender, and the one they say.
Gendered == GenderWords("male") \cup GenderWords("female")
GenderBy(word) == IF word \in GenderWords("male") THEN "male" ELSE "female"

LEMMA GenderFacts ==
    ASSUME NEW word
    PROVE  /\ GenderBy(word) \in Genders
           /\ word \in Gendered => word \in GenderWords(GenderBy(word))
           /\ \A g \in Genders : word \in GenderWords(g) <=> word \in Gendered /\ g = GenderBy(word)
<1>1. ~(word \in GenderWords("male") /\ word \in GenderWords("female"))
  BY WordsApart, WordFacts DEF GenderWords
<1>2. GenderBy(word) \in Genders
  BY WordFacts DEF GenderBy
<1>3. word \in Gendered => word \in GenderWords(GenderBy(word))
  BY DEF Gendered, GenderBy
<1>4. word \in GenderWords("male") <=> word \in Gendered /\ GenderBy(word) = "male"
  BY DEF Gendered, GenderBy
<1>5. word \in GenderWords("female") <=> word \in Gendered /\ GenderBy(word) = "female"
  BY <1>1 DEF Gendered, GenderBy
<1> QED
  BY <1>2, <1>3, <1>4, <1>5, WordFacts

LEMMA TermsAre ==
    ASSUME NEW phrase \in DOMAIN Terms
    PROVE  /\ phrase \in Terms[phrase] /\ \A t \in Terms[phrase] : TermLength[t] \in Nat
           /\ \A t \in Terms[phrase] \ {phrase} : TermLength[t] < TermLength[phrase]
           /\ Alpha2[phrase] \notin DOMAIN Upper /\ Alpha2[phrase] # ""
BY WordsAssumption

LEMMA NumbersAre ==
    ASSUME NEW text \in SearchText, NEW n \in DOMAIN text, text[n].word \in {"over", "under"}
    PROVE  text[n].number \in Nat
BY WordsAssumption

LEMMA TextIs ==
    ASSUME NEW text \in SearchText
    PROVE  \E len \in Nat : DOMAIN text = 1 .. len
<1>1. text \in Seq([word : STRING, number : Nat \cup {NONE}])
  BY WordsAssumption
<1> QED
  BY <1>1

LEMMA SubjectIs ==
    ASSUME NEW word
    PROVE  /\ word \in ToSet(AgeGroups) => Subject(word) = "age group"
           /\ word \in {"young", "over"} => Subject(word) = "least age"
           /\ word \in DOMAIN Terms => Subject(word) = "country"
<1>1. word \in {"young", "over"} => word \notin ToSet(AgeGroups)
  BY WordFacts
<1>2. word \in DOMAIN Terms => word \notin ToSet(AgeGroups) /\ word \notin {"young", "over"}
  BY WordsApart
<1> QED
  BY <1>1, <1>2 DEF Subject

\* A clear text has one phrase on a subject.
LEMMA OnePhrase ==
    ASSUME NEW text, Clear(text), NEW i \in DOMAIN text, NEW j \in DOMAIN text,
           \/ text[i].word \in Gendered /\ text[j].word \in Gendered
           \/ text[i].word \in ToSet(AgeGroups) /\ text[j].word \in ToSet(AgeGroups)
           \/ text[i].word \in {"young", "over"} /\ text[j].word \in {"young", "over"}
           \/ text[i].word \in DOMAIN Terms /\ text[j].word \in DOMAIN Terms
           \/ text[i].word = text[j].word
    PROVE  i = j
<1>1. PICK a, b : a = text[i].word /\ b = text[j].word
  OBVIOUS
<1>2. \/ a \in Gendered /\ b \in Gendered
      \/ a \in ToSet(AgeGroups) /\ b \in ToSet(AgeGroups)
      \/ a \in {"young", "over"} /\ b \in {"young", "over"}
      \/ a \in DOMAIN Terms /\ b \in DOMAIN Terms
      \/ a = b
  BY <1>1
<1>3. CASE a \in Gendered /\ b \in Gendered
  <2>1. GenderBy(a) \in Genders /\ a \in GenderWords(GenderBy(a))
    BY <1>3, GenderFacts
  <2>2. GenderBy(b) \in Genders /\ b \in GenderWords(GenderBy(b))
    BY <1>3, GenderFacts
  <2> QED
    BY <1>1, <2>1, <2>2 DEF Clear
<1>4. ASSUME ~(a \in Gendered /\ b \in Gendered) PROVE Subject(a) = Subject(b)
  <2>1. CASE a \in ToSet(AgeGroups) /\ b \in ToSet(AgeGroups)
    <3>1. Subject(a) = "age group"
      BY <2>1, SubjectIs
    <3>2. Subject(b) = "age group"
      BY <2>1, SubjectIs
    <3> QED
      BY <3>1, <3>2
  <2>2. CASE a \in {"young", "over"} /\ b \in {"young", "over"}
    <3>1. Subject(a) = "least age"
      BY <2>2, SubjectIs
    <3>2. Subject(b) = "least age"
      BY <2>2, SubjectIs
    <3> QED
      BY <3>1, <3>2
  <2>3. CASE a \in DOMAIN Terms /\ b \in DOMAIN Terms
    <3>1. Subject(a) = "country"
      BY <2>3, SubjectIs
    <3>2. Subject(b) = "country"
      BY <2>3, SubjectIs
    <3> QED
      BY <3>1, <3>2
  <2>4. CASE a = b
    BY <2>4
  <2> QED
    BY <1>2, <1>4, <2>1, <2>2, <2>3, <2>4
<1> QED
  BY <1>1, <1>3, <1>4 DEF Clear

\* The meaning of a phrase, subject by subject.
LEMMA MeansIs ==
    ASSUME NEW phrase, NEW row
    PROVE  Means(phrase, row) <=>
              /\ phrase.word \in Gendered => row.gender = GenderBy(phrase.word)
              /\ phrase.word \in ToSet(AgeGroups) => row.age_group = phrase.word
              /\ phrase.word = "young" => row.age \in 16 .. 24
              /\ phrase.word = "over" => row.age >= phrase.number
              /\ phrase.word = "under" => row.age <= phrase.number
              /\ phrase.word \in DOMAIN Terms => row.country_id = Alpha2[phrase.word]
<1>1. (\A g \in Genders : phrase.word \in GenderWords(g) => row.gender = g)
      <=> (phrase.word \in Gendered => row.gender = GenderBy(phrase.word))
  BY GenderFacts
<1>2. phrase.word \in {"young", "over", "under"} =>
         phrase.word \notin ToSet(AgeGroups) /\ phrase.word \notin DOMAIN Terms
  BY WordFacts, WordsApart
<1>3. phrase.word \in DOMAIN Terms =>
         /\ phrase.word \notin ToSet(AgeGroups)
         /\ phrase.word # "young" /\ phrase.word # "over" /\ phrase.word # "under"
  BY WordsApart
<1> DEFINE others ==
       CASE phrase.word \in ToSet(AgeGroups) -> row.age_group = phrase.word
         [] phrase.word = "young" -> row.age \in 16 .. 24
         [] phrase.word = "over" -> row.age >= phrase.number
         [] phrase.word = "under" -> row.age <= phrase.number
         [] phrase.word \in DOMAIN Terms -> row.country_id = Alpha2[phrase.word]
         [] OTHER -> TRUE
<1>4. others <=>
         /\ phrase.word \in ToSet(AgeGroups) => row.age_group = phrase.word
         /\ phrase.word = "young" => row.age \in 16 .. 24
         /\ phrase.word = "over" => row.age >= phrase.number
         /\ phrase.word = "under" => row.age <= phrase.number
         /\ phrase.word \in DOMAIN Terms => row.country_id = Alpha2[phrase.word]
  BY <1>2, <1>3
<1>5. Means(phrase, row) <=>
         /\ \A g \in Genders : phrase.word \in GenderWords(g) => row.gender = g
         /\ others
  BY DEF Means
<1> HIDE DEF others
<1> QED
  BY <1>1, <1>4, <1>5

\* What each extractor contributes to the query of a search.
LEMMA SearchQueryIs ==
    ASSUME NEW text, NEW paging \in SearchPaging, NEW query, query = SearchQuery(text, paging),
           NEW gender, gender = extractGender(text), NEW group, group = extractAgeGroup(text),
           NEW ages, ages = extractAgeRanges(text), NEW country, country = extractCountry(text)
    PROVE  /\ "gender" \in DOMAIN query <=> "gender" \in DOMAIN gender
           /\ "gender" \in DOMAIN query => query["gender"] = gender["gender"]
           /\ "age_group" \in DOMAIN query <=> "age_group" \in DOMAIN group
           /\ "age_group" \in DOMAIN query => query["age_group"] = group["age_group"]
           /\ "country_id" \in DOMAIN query <=> "country_id" \in DOMAIN country
           /\ "country_id" \in DOMAIN query => query["country_id"] = country["country_id"]
           /\ \A f \in Ages : /\ f \in DOMAIN query <=> f \in DOMAIN ages
                              /\ f \in DOMAIN query => query[f] = ages[f]
           /\ \A f \in Probabilities : f \notin DOMAIN query
<1>1. DOMAIN gender \subseteq {"gender"}
  BY DEF extractGender, Only
<1>2. DOMAIN group \subseteq {"age_group"}
  BY DEF extractAgeGroup, Only
<1>3. DOMAIN country \subseteq {"country_id"}
  BY DEF extractCountry, Only
<1>4. DOMAIN ages \subseteq {"min_age", "max_age"}
  <2>1. PICK young, over, under :
           /\ young \in {[min_age |-> 16, max_age |-> 24], <<>>}
           /\ over = Only(Says(text, {"over"}), "min_age", firstMatch(text, "over"))
           /\ under = Only(Says(text, {"under"}), "max_age", firstMatch(text, "under"))
           /\ ages = Overridden(Overridden(young, over), under)
    BY DEF extractAgeRanges
  <2>2. DOMAIN young \subseteq {"min_age", "max_age"}
    BY <2>1
  <2>3. DOMAIN over \subseteq {"min_age"} /\ DOMAIN under \subseteq {"max_age"}
    BY <2>1 DEF Only
  <2> QED
    BY <2>1, <2>2, <2>3 DEF Overridden
<1>5. PICK sort : sort = extractSort(text)
  OBVIOUS
<1>6. PICK a : a = Overridden(gender, group)
  OBVIOUS
<1>7. PICK b : b = Overridden(ages, country)
  OBVIOUS
<1>8. PICK filters : filters = Overridden(a, b)
  OBVIOUS
<1>9. PICK p : p = parse(text)
  OBVIOUS
<1>10. \A f \in DOMAIN p \cap Filters : p[f] = filters[f]
  BY <1>6, <1>7, <1>8, <1>9, ParseFits
<1>11. p = Overridden(filters, sort)
  BY <1>5, <1>6, <1>7, <1>8, <1>9 DEF parse
<1>12. DOMAIN sort \cap Filters = {}
  BY <1>5, SortNames, FilterNames
<1>13. query = Overridden(p, paging) /\ DOMAIN paging \subseteq {"page", "limit"}
  BY <1>9, ConstantsAssumption DEF SearchQuery
<1>14. ASSUME NEW f \in Filters
       PROVE  /\ f \in DOMAIN query <=> f \in DOMAIN filters
              /\ f \in DOMAIN query => query[f] = filters[f]
  <2>1. f \notin DOMAIN paging /\ f \notin DOMAIN sort
    BY <1>12, <1>13, FilterNames
  <2>2. f \in DOMAIN query <=> f \in DOMAIN p
    BY <1>13, <2>1 DEF Overridden
  <2>3. f \in DOMAIN p => query[f] = p[f]
    BY <1>13, <2>1 DEF Overridden
  <2>4. f \in DOMAIN p <=> f \in DOMAIN filters
    BY <1>11, <2>1 DEF Overridden
  <2> QED
    BY <1>10, <2>2, <2>3, <2>4
<1>15. ASSUME NEW f
       PROVE  /\ f \in DOMAIN filters <=> f \in DOMAIN a \cup DOMAIN b
              /\ f \in DOMAIN b => filters[f] = b[f]
              /\ f \in DOMAIN a /\ f \notin DOMAIN b => filters[f] = a[f]
  BY <1>8 DEF Overridden
<1>16. ASSUME NEW f
       PROVE  /\ f \in DOMAIN a <=> f \in DOMAIN gender \cup DOMAIN group
              /\ f \in DOMAIN group => a[f] = group[f]
              /\ f \in DOMAIN gender /\ f \notin DOMAIN group => a[f] = gender[f]
  BY <1>6 DEF Overridden
<1>17. ASSUME NEW f
       PROVE  /\ f \in DOMAIN b <=> f \in DOMAIN ages \cup DOMAIN country
              /\ f \in DOMAIN country => b[f] = country[f]
              /\ f \in DOMAIN ages /\ f \notin DOMAIN country => b[f] = ages[f]
  BY <1>7 DEF Overridden
<1>18. /\ "gender" \in DOMAIN query <=> "gender" \in DOMAIN gender
       /\ "gender" \in DOMAIN query => query["gender"] = gender["gender"]
  BY <1>1, <1>2, <1>3, <1>4, <1>14, <1>15, <1>16, <1>17, FilterNames
<1>19. /\ "age_group" \in DOMAIN query <=> "age_group" \in DOMAIN group
       /\ "age_group" \in DOMAIN query => query["age_group"] = group["age_group"]
  BY <1>1, <1>2, <1>3, <1>4, <1>14, <1>15, <1>16, <1>17, FilterNames
<1>20. /\ "country_id" \in DOMAIN query <=> "country_id" \in DOMAIN country
       /\ "country_id" \in DOMAIN query => query["country_id"] = country["country_id"]
  BY <1>1, <1>2, <1>3, <1>4, <1>14, <1>15, <1>16, <1>17, FilterNames
<1>21. ASSUME NEW f \in Ages
       PROVE  /\ f \in DOMAIN query <=> f \in DOMAIN ages
              /\ f \in DOMAIN query => query[f] = ages[f]
  BY <1>1, <1>2, <1>3, <1>4, <1>14, <1>15, <1>16, <1>17, FilterNames
<1>22. ASSUME NEW f \in Probabilities PROVE f \notin DOMAIN query
  BY <1>1, <1>2, <1>3, <1>4, <1>14, <1>15, <1>16, <1>17, FilterNames
<1> QED
  BY <1>18, <1>19, <1>20, <1>21, <1>22

-----------------------------------------------------------------------------
(* One subject of a clear text at a time: the condition says what the phrase does. *)

LEMMA GenderSaid ==
    ASSUME NEW text, Clear(text), NEW gender, gender = extractGender(text)
    PROVE  /\ "gender" \in DOMAIN gender <=> \E n \in DOMAIN text : text[n].word \in Gendered
           /\ \A n \in DOMAIN text : text[n].word \in Gendered => gender["gender"] = GenderBy(text[n].word)
<1>1. PICK male, female \in BOOLEAN :
         /\ male <=> \E n \in DOMAIN text : text[n].word \in GenderWords("male")
         /\ female <=> \E n \in DOMAIN text : text[n].word \in GenderWords("female")
  OBVIOUS
<1>2. male = Says(text, GenderWords("male")) /\ female = Says(text, GenderWords("female"))
  BY <1>1 DEF Says
<1>3. gender = Only(male # female, "gender", IF male THEN "male" ELSE "female")
  BY <1>2 DEF extractGender
<1>4. \A word : /\ word \in GenderWords("male") <=> word \in Gendered /\ GenderBy(word) = "male"
                /\ word \in GenderWords("female") <=> word \in Gendered /\ GenderBy(word) = "female"
                /\ GenderBy(word) \in {"male", "female"}
  BY GenderFacts, WordFacts
<1>5. ~(male /\ female)
  <2> SUFFICES ASSUME NEW i \in DOMAIN text, NEW j \in DOMAIN text,
                      text[i].word \in GenderWords("male"), text[j].word \in GenderWords("female")
               PROVE  FALSE
    BY <1>1
  <2>1. i = j
    BY <1>4, OnePhrase
  <2> QED
    BY <1>4, <2>1
<1>6. male \/ female <=> \E n \in DOMAIN text : text[n].word \in Gendered
  BY <1>1, <1>4
<1>7. male \/ female => DOMAIN gender = {"gender"} /\ gender["gender"] = IF male THEN "male" ELSE "female"
  BY <1>3, <1>5 DEF Only
<1>8. ~(male \/ female) => DOMAIN gender = {}
  BY <1>3, <1>5 DEF Only
<1>9. ASSUME NEW n \in DOMAIN text, text[n].word \in Gendered
      PROVE  gender["gender"] = GenderBy(text[n].word)
  BY <1>1, <1>4, <1>5, <1>7, <1>9
<1> QED
  BY <1>6, <1>7, <1>8, <1>9

LEMMA AgeGroupSaid ==
    ASSUME NEW text, Clear(text), NEW group, group = extractAgeGroup(text)
    PROVE  /\ "age_group" \in DOMAIN group <=> \E n \in DOMAIN text : text[n].word \in ToSet(AgeGroups)
           /\ \A n \in DOMAIN text : text[n].word \in ToSet(AgeGroups) => group["age_group"] = text[n].word
<1>1. PICK said : said = {i \in 1 .. 4 : Says(text, {AgeGroups[i]})}
  OBVIOUS
<1>2. PICK value : value = AgeGroups[CHOOSE i \in said : \A j \in said : i <= j]
  OBVIOUS
<1>3. group = Only(said # {}, "age_group", value)
  BY <1>1, <1>2 DEF extractAgeGroup
<1>4. \A i \in 1 .. 4 : i \in said <=> \E n \in DOMAIN text : text[n].word = AgeGroups[i]
  BY <1>1 DEF Says
<1>5. \A word : word \in ToSet(AgeGroups) <=> \E i \in 1 .. 4 : word = AgeGroups[i]
  BY WordFacts
<1>6. said # {} <=> \E n \in DOMAIN text : text[n].word \in ToSet(AgeGroups)
  <2>1. ASSUME NEW i \in said PROVE \E n \in DOMAIN text : text[n].word \in ToSet(AgeGroups)
    BY <1>1, <1>4, <1>5
  <2>2. ASSUME NEW n \in DOMAIN text, text[n].word \in ToSet(AgeGroups) PROVE said # {}
    <3>1. PICK i \in 1 .. 4 : text[n].word = AgeGroups[i]
      BY <1>5, <2>2
    <3> QED
      BY <1>4, <3>1
  <2> QED
    BY <2>1, <2>2
<1>7. said # {} => DOMAIN group = {"age_group"} /\ group["age_group"] = value
  BY <1>3 DEF Only
<1>8. said = {} => DOMAIN group = {}
  BY <1>3 DEF Only
<1>9. ASSUME NEW n \in DOMAIN text, text[n].word \in ToSet(AgeGroups) PROVE value = text[n].word
  <2>1. PICK k \in 1 .. 4 : text[n].word = AgeGroups[k]
    BY <1>5, <1>9
  <2>2. ASSUME NEW i \in said PROVE AgeGroups[i] = AgeGroups[k]
    <3>1. PICK m \in DOMAIN text : text[m].word = AgeGroups[i]
      BY <1>1, <1>4
    <3>2. text[m].word \in ToSet(AgeGroups)
      BY <1>1, <1>5, <3>1
    <3>3. m = n
      BY <1>9, <3>2, OnePhrase
    <3> QED
      BY <2>1, <3>1, <3>3
  <2>3. k \in said
    BY <1>4, <2>1
  <2>4. \A i \in said : i = k
    BY <1>1, <2>2, WordFacts
  <2>5. said = {k}
    BY <2>3, <2>4
  <2>6. (CHOOSE i \in said : \A j \in said : i <= j) = k
    BY <2>5
  <2> QED
    BY <1>2, <2>1, <2>6
<1> QED
  BY <1>6, <1>7, <1>8, <1>9

LEMMA FirstMatchIs ==
    ASSUME NEW text \in SearchText, Clear(text), NEW n \in DOMAIN text,
           NEW word, text[n].word = word
    PROVE  firstMatch(text, word) = text[n].number
<1>1. PICK at : at = {i \in DOMAIN text : text[i].word = word}
  OBVIOUS
<1>2. \A i \in at : i = n
  BY <1>1, OnePhrase
<1>3. at = {n} /\ n \in Nat
  BY <1>1, <1>2, TextIs
<1>4. (CHOOSE i \in at : \A j \in at : i <= j) = n
  BY <1>3
<1>5. firstMatch(text, word) = text[CHOOSE i \in at : \A j \in at : i <= j].number
  BY <1>1 DEF firstMatch
<1> QED
  BY <1>4, <1>5

LEMMA AgesSaid ==
    ASSUME NEW text \in SearchText, Clear(text), NEW ages, ages = extractAgeRanges(text), NEW age \in Nat
    PROVE  (/\ "min_age" \in DOMAIN ages => age >= ages["min_age"]
            /\ "max_age" \in DOMAIN ages => age <= ages["max_age"])
           <=> \A n \in DOMAIN text : /\ text[n].word = "young" => age \in 16 .. 24
                                      /\ text[n].word = "over" => age >= text[n].number
                                      /\ text[n].word = "under" => age <= text[n].number
<1> DEFINE Tests == /\ "min_age" \in DOMAIN ages => age >= ages["min_age"]
                    /\ "max_age" \in DOMAIN ages => age <= ages["max_age"]
           Said == \A n \in DOMAIN text : /\ text[n].word = "young" => age \in 16 .. 24
                                          /\ text[n].word = "over" => age >= text[n].number
                                          /\ text[n].word = "under" => age <= text[n].number
<1>1. PICK young, over, under :
         /\ young = IF Says(text, {"young"}) THEN [min_age |-> 16, max_age |-> 24] ELSE <<>>
         /\ over = Only(Says(text, {"over"}), "min_age", firstMatch(text, "over"))
         /\ under = Only(Says(text, {"under"}), "max_age", firstMatch(text, "under"))
         /\ ages = Overridden(Overridden(young, over), under)
  BY DEF extractAgeRanges
<1>2. CASE \E n \in DOMAIN text : text[n].word = "young"
  <2>1. PICK n \in DOMAIN text : text[n].word = "young"
    BY <1>2
  <2>2. Says(text, {"young"})
    BY <2>1 DEF Says
  <2>3. ASSUME NEW m \in DOMAIN text PROVE text[m].word # "over"
    <3> SUFFICES ASSUME text[m].word = "over" PROVE FALSE
      OBVIOUS
    <3>1. m = n
      BY <2>1, OnePhrase
    <3> QED
      BY <2>1, <3>1
  <2>4. ASSUME NEW m \in DOMAIN text PROVE text[m].word # "under"
    <3> SUFFICES ASSUME text[m].word = "under" PROVE FALSE
      OBVIOUS
    <3>1. Says(text, {"under"})
      BY DEF Says
    <3> QED
      BY <2>2, <3>1 DEF Clear
  <2>5. ~Says(text, {"over"}) /\ ~Says(text, {"under"})
    BY <2>3, <2>4 DEF Says
  <2>6. DOMAIN over = {} /\ DOMAIN under = {}
    BY <1>1, <2>5 DEF Only
  <2>7. young = [min_age |-> 16, max_age |-> 24]
    BY <1>1, <2>2
  <2>8. DOMAIN young = {"min_age", "max_age"} /\ young["min_age"] = 16 /\ young["max_age"] = 24
    BY <2>7
  <2>9. DOMAIN ages = {"min_age", "max_age"} /\ ages["min_age"] = 16 /\ ages["max_age"] = 24
    BY <1>1, <2>6, <2>8 DEF Overridden
  <2>10. Tests <=> age \in 16 .. 24
    BY <2>9
  <2>11. Said <=> age \in 16 .. 24
    BY <2>1, <2>3, <2>4
  <2> QED
    BY <2>10, <2>11
<1>3. CASE ~ \E n \in DOMAIN text : text[n].word = "young"
  <2>1. ~Says(text, {"young"})
    BY <1>3 DEF Says
  <2>2. DOMAIN young = {}
    BY <1>1, <2>1
  <2>3. DOMAIN over \subseteq {"min_age"} /\ DOMAIN under \subseteq {"max_age"}
    BY <1>1 DEF Only
  <2>4. ASSUME NEW f \in {"min_age", "max_age"}
        PROVE  /\ f \in DOMAIN ages <=> f \in DOMAIN over \cup DOMAIN under
               /\ f \in DOMAIN under => ages[f] = under[f]
               /\ f \in DOMAIN over /\ f \notin DOMAIN under => ages[f] = over[f]
    BY <1>1, <2>2 DEF Overridden
  <2>5. ASSUME NEW n \in DOMAIN text, text[n].word = "over"
        PROVE  "min_age" \in DOMAIN ages /\ ages["min_age"] = text[n].number
    <3>1. Says(text, {"over"})
      BY <2>5 DEF Says
    <3>2. "min_age" \in DOMAIN over /\ over["min_age"] = firstMatch(text, "over")
      BY <1>1, <3>1 DEF Only
    <3>3. firstMatch(text, "over") = text[n].number
      BY <2>5, FirstMatchIs
    <3> QED
      BY <2>3, <2>4, <3>2, <3>3
  <2>6. ASSUME NEW n \in DOMAIN text, text[n].word = "under"
        PROVE  "max_age" \in DOMAIN ages /\ ages["max_age"] = text[n].number
    <3>1. Says(text, {"under"})
      BY <2>6 DEF Says
    <3>2. "max_age" \in DOMAIN under /\ under["max_age"] = firstMatch(text, "under")
      BY <1>1, <3>1 DEF Only
    <3>3. firstMatch(text, "under") = text[n].number
      BY <2>6, FirstMatchIs
    <3> QED
      BY <2>4, <3>2, <3>3
  <2>7. "min_age" \in DOMAIN ages => \E n \in DOMAIN text : text[n].word = "over"
    <3>1. "min_age" \in DOMAIN ages => "min_age" \in DOMAIN over
      BY <2>3, <2>4
    <3>2. "min_age" \in DOMAIN over => Says(text, {"over"})
      BY <1>1 DEF Only
    <3> QED
      BY <3>1, <3>2 DEF Says
  <2>8. "max_age" \in DOMAIN ages => \E n \in DOMAIN text : text[n].word = "under"
    <3>1. "max_age" \in DOMAIN ages => "max_age" \in DOMAIN under
      BY <2>3, <2>4
    <3>2. "max_age" \in DOMAIN under => Says(text, {"under"})
      BY <1>1 DEF Only
    <3> QED
      BY <3>1, <3>2 DEF Says
  <2>9. Tests => Said
    BY <1>3, <2>5, <2>6
  <2>10. Said => Tests
    BY <2>5, <2>6, <2>7, <2>8
  <2> QED
    BY <2>9, <2>10
<1> QED
  BY <1>2, <1>3

LEMMA CountrySaid ==
    ASSUME NEW text, Clear(text), NEW country, country = extractCountry(text)
    PROVE  /\ "country_id" \in DOMAIN country <=> \E n \in DOMAIN text : text[n].word \in DOMAIN Terms
           /\ \A n \in DOMAIN text : text[n].word \in DOMAIN Terms =>
                 country["country_id"] = Alpha2[text[n].word]
<1>1. PICK at : at = {j \in DOMAIN text : text[j].word \in DOMAIN Terms}
  OBVIOUS
<1>2. PICK found : found = UNION {Terms[text[i].word] : i \in at}
  OBVIOUS
<1>3. PICK longest : longest = CHOOSE t \in found : \A u \in found : TermLength[t] >= TermLength[u]
  OBVIOUS
<1>4. country = Only(found # {}, "country_id", Alpha2[longest])
  BY <1>1, <1>2, <1>3 DEF extractCountry
<1>5. found # {} => DOMAIN country = {"country_id"} /\ country["country_id"] = Alpha2[longest]
  BY <1>4 DEF Only
<1>6. found = {} => DOMAIN country = {}
  BY <1>4 DEF Only
<1>7. ASSUME NEW n \in DOMAIN text, text[n].word \in DOMAIN Terms
      PROVE  found # {} /\ longest = text[n].word
  <2>1. PICK phrase \in DOMAIN Terms : phrase = text[n].word
    BY <1>7
  <2>2. ASSUME NEW i \in at PROVE i = n
    BY <1>1, <1>7, OnePhrase
  <2>3. n \in at
    BY <1>1, <1>7
  <2>4. found = Terms[phrase]
    BY <1>2, <2>1, <2>2, <2>3
  <2>5. /\ phrase \in found /\ \A u \in found : TermLength[u] \in Nat
        /\ \A u \in found \ {phrase} : TermLength[u] < TermLength[phrase]
    BY <2>4, TermsAre
  <2>6. \A u \in found : TermLength[phrase] >= TermLength[u]
    BY <2>5
  <2>7. longest \in found /\ \A u \in found : TermLength[longest] >= TermLength[u]
    BY <1>3, <2>5, <2>6
  <2>8. longest = phrase
    BY <2>5, <2>7
  <2> QED
    BY <2>1, <2>5, <2>8
<1>8. found # {} => \E n \in DOMAIN text : text[n].word \in DOMAIN Terms
  BY <1>1, <1>2
<1> QED
  BY <1>5, <1>6, <1>7, <1>8

\* The words on one subject give the filter f of the query the value V maps them to.
Translates(text, query, f, words, V) ==
    /\ f \in DOMAIN query <=> \E n \in DOMAIN text : text[n].word \in words
    /\ \A n \in DOMAIN text : text[n].word \in words => query[f] = V[text[n].word]
    /\ \A word \in words : V[word] # ""
    /\ f # "country_id" => \A word \in words : V[word] \notin Capital
    /\ f = "country_id" => \A word \in words : V[word] \notin DOMAIN Upper

\* An equality of the statement tests for the value that the filter was given.
LEMMA EqualityGiven ==
    ASSUME NEW f \in Equalities, NEW query, NEW cond, cond = where(normalizeFilters(query)),
           f \in DOMAIN query, query[f] # "",
           f # "country_id" => query[f] \notin Capital,
           f = "country_id" => query[f] \notin DOMAIN Upper
    PROVE  f \in DOMAIN cond /\ cond[f] = query[f]
<1>1. PICK value : value = query[f]
  OBVIOUS
<1>2. f \in DOMAIN cond
  BY WhereIs DEF given, Filters
<1>3. CASE f = "country_id"
  <2>1. cond[f] = toUpperCase(toLowerCase(value))
    BY <1>1, <1>2, <1>3, CountryWhere
  <2>2. toUpperCase(toLowerCase(value)) = value
    BY <1>1, <1>3, UpperOfLower
  <2> QED
    BY <1>1, <1>2, <2>1, <2>2
<1>4. CASE f # "country_id"
  <2>1. cond[f] = toLowerCase(value)
    BY <1>1, <1>2, <1>4, TextWhere
  <2>2. toLowerCase(value) = value
    BY <1>1, <1>4, Lower
  <2> QED
    BY <1>1, <1>2, <2>1, <2>2
<1> QED
  BY <1>3, <1>4

\* So the test on a row is what the words on that subject say of it.
LEMMA EqualityMeant ==
    ASSUME NEW f \in Equalities, NEW query, NEW cond, cond = where(normalizeFilters(query)),
           NEW row, NEW text, NEW words, NEW V, Translates(text, query, f, words, V)
    PROVE  (f \in DOMAIN cond => Passes(row, f, cond[f]))
           <=> \A n \in DOMAIN text : text[n].word \in words => row[f] = V[text[n].word]
<1>1. CASE \E n \in DOMAIN text : text[n].word \in words
  <2>1. PICK n \in DOMAIN text : text[n].word \in words
    BY <1>1
  <2>2. /\ f \in DOMAIN query
        /\ \A m \in DOMAIN text : text[m].word \in words => V[text[m].word] = query[f]
    BY <1>1 DEF Translates
  <2>3. /\ query[f] # ""
        /\ f # "country_id" => query[f] \notin Capital
        /\ f = "country_id" => query[f] \notin DOMAIN Upper
    BY <2>1 DEF Translates
  <2>4. f \in DOMAIN cond /\ cond[f] = query[f]
    BY <2>2, <2>3, EqualityGiven
  <2>5. Passes(row, f, cond[f]) <=> row[f] = query[f]
    BY <2>4, TextPasses
  <2> QED
    BY <2>1, <2>2, <2>4, <2>5
<1>2. CASE ~ \E n \in DOMAIN text : text[n].word \in words
  <2>1. f \notin DOMAIN query
    BY <1>2 DEF Translates
  <2>2. f \notin DOMAIN cond
    BY <2>1, WhereIs DEF given
  <2> QED
    BY <1>2, <2>2
<1> QED
  BY <1>1, <1>2

\* The tests of the statement, on a row, say together what the phrases say.
LEMMA RowMeant ==
    ASSUME NEW text \in SearchText, Clear(text), NEW paging \in SearchPaging, NEW i \in Id,
           NEW cond, cond = where(normalizeFilters(SearchQuery(text, paging)))
    PROVE  (\A f \in DOMAIN cond : Passes(Row[i], f, cond[f]))
           <=> \A n \in DOMAIN text : Means(text[n], Row[i])
<1>1. PICK query : query = SearchQuery(text, paging)
  OBVIOUS
<1>2. PICK gender, group, ages, country :
         /\ gender = extractGender(text) /\ group = extractAgeGroup(text)
         /\ ages = extractAgeRanges(text) /\ country = extractCountry(text)
  OBVIOUS
<1>3. PICK row : row = Row[i]
  OBVIOUS
<1>4. cond = where(normalizeFilters(query))
  BY <1>1
<1>5. PICK Same : Same = [word \in ToSet(AgeGroups) |-> word]
  OBVIOUS
<1>6. PICK Code : Code = [word \in DOMAIN Terms |-> Alpha2[word]]
  OBVIOUS
<1>14. PICK Voice : Voice = [word \in Gendered |-> GenderBy(word)]
  OBVIOUS
<1>7. ("gender" \in DOMAIN cond => Passes(row, "gender", cond["gender"]))
      <=> \A n \in DOMAIN text : text[n].word \in Gendered => row.gender = GenderBy(text[n].word)
  <2>1. PICK f \in Equalities : f = "gender"
    BY DEF Equalities
  <2>2. f \in DOMAIN query <=> \E n \in DOMAIN text : text[n].word \in Gendered
    BY <1>1, <1>2, <2>1, SearchQueryIs, GenderSaid
  <2>3. ASSUME NEW n \in DOMAIN text, text[n].word \in Gendered PROVE query[f] = Voice[text[n].word]
    <3>1. query[f] = gender["gender"]
      BY <1>1, <1>2, <2>1, <2>2, <2>3, SearchQueryIs
    <3>2. gender["gender"] = GenderBy(text[n].word)
      BY <1>2, <2>3, GenderSaid
    <3> QED
      BY <1>14, <2>3, <3>1, <3>2
  <2>4. \A word \in Gendered : Voice[word] = GenderBy(word) /\ Voice[word] # "" /\ Voice[word] \notin Capital
    BY <1>14, GenderFacts, WordFacts, WordsApart
  <2>5. (f \in DOMAIN cond => Passes(row, f, cond[f]))
        <=> \A n \in DOMAIN text : text[n].word \in Gendered => row[f] = Voice[text[n].word]
    <3>1. Translates(text, query, f, Gendered, Voice)
      BY <2>1, <2>2, <2>3, <2>4 DEF Translates
    <3> QED
      BY <1>4, <3>1, EqualityMeant
  <2> QED
    BY <2>1, <2>4, <2>5
<1>8. ("age_group" \in DOMAIN cond => Passes(row, "age_group", cond["age_group"]))
      <=> \A n \in DOMAIN text : text[n].word \in ToSet(AgeGroups) => row.age_group = text[n].word
  <2>1. PICK f \in Equalities : f = "age_group"
    BY DEF Equalities
  <2>2. f \in DOMAIN query <=> \E n \in DOMAIN text : text[n].word \in ToSet(AgeGroups)
    BY <1>1, <1>2, <2>1, SearchQueryIs, AgeGroupSaid
  <2>3. ASSUME NEW n \in DOMAIN text, text[n].word \in ToSet(AgeGroups) PROVE query[f] = Same[text[n].word]
    <3>1. query[f] = group["age_group"]
      BY <1>1, <1>2, <2>1, <2>2, <2>3, SearchQueryIs
    <3>2. group["age_group"] = text[n].word
      BY <1>2, <2>3, AgeGroupSaid
    <3> QED
      BY <1>5, <2>3, <3>1, <3>2
  <2>4. \A word \in ToSet(AgeGroups) : Same[word] = word /\ Same[word] # "" /\ Same[word] \notin Capital
    BY <1>5, WordFacts, WordsApart
  <2>5. (f \in DOMAIN cond => Passes(row, f, cond[f]))
        <=> \A n \in DOMAIN text : text[n].word \in ToSet(AgeGroups) => row[f] = Same[text[n].word]
    <3>1. Translates(text, query, f, ToSet(AgeGroups), Same)
      BY <2>1, <2>2, <2>3, <2>4 DEF Translates
    <3> QED
      BY <1>4, <3>1, EqualityMeant
  <2> QED
    BY <2>1, <2>4, <2>5
<1>9. ("country_id" \in DOMAIN cond => Passes(row, "country_id", cond["country_id"]))
      <=> \A n \in DOMAIN text : text[n].word \in DOMAIN Terms => row.country_id = Alpha2[text[n].word]
  <2>1. PICK f \in Equalities : f = "country_id"
    BY DEF Equalities
  <2>2. f \in DOMAIN query <=> \E n \in DOMAIN text : text[n].word \in DOMAIN Terms
    BY <1>1, <1>2, <2>1, SearchQueryIs, CountrySaid
  <2>3. ASSUME NEW n \in DOMAIN text, text[n].word \in DOMAIN Terms PROVE query[f] = Code[text[n].word]
    <3>1. query[f] = country["country_id"]
      BY <1>1, <1>2, <2>1, <2>2, <2>3, SearchQueryIs
    <3>2. country["country_id"] = Alpha2[text[n].word]
      BY <1>2, <2>3, CountrySaid
    <3> QED
      BY <1>6, <2>3, <3>1, <3>2
  <2>4. \A word \in DOMAIN Terms : Code[word] = Alpha2[word] /\ Code[word] # "" /\ Code[word] \notin DOMAIN Upper
    BY <1>6, TermsAre
  <2>5. (f \in DOMAIN cond => Passes(row, f, cond[f]))
        <=> \A n \in DOMAIN text : text[n].word \in DOMAIN Terms => row[f] = Code[text[n].word]
    <3>1. Translates(text, query, f, DOMAIN Terms, Code)
      BY <2>1, <2>2, <2>3, <2>4 DEF Translates
    <3> QED
      BY <1>4, <3>1, EqualityMeant
  <2> QED
    BY <2>1, <2>4, <2>5
<1>10. (/\ "min_age" \in DOMAIN cond => Passes(row, "min_age", cond["min_age"])
        /\ "max_age" \in DOMAIN cond => Passes(row, "max_age", cond["max_age"]))
       <=> \A n \in DOMAIN text : /\ text[n].word = "young" => row.age \in 16 .. 24
                                  /\ text[n].word = "over" => row.age >= text[n].number
                                  /\ text[n].word = "under" => row.age <= text[n].number
  <2>1. PICK age \in Nat : age = row.age
    BY <1>3, RowsAreTyped
  <2>2. ASSUME NEW f \in Ages
        PROVE  /\ f \in DOMAIN cond <=> f \in DOMAIN ages
               /\ f \in DOMAIN cond => cond[f] = ages[f]
    <3>1. f \notin Equalities /\ f \in Filters
      BY FilterNames
    <3>2. f \in DOMAIN cond <=> f \in DOMAIN query
      BY <1>4, <3>1, WhereIs DEF given
    <3>3. f \in DOMAIN cond => cond[f] = query[f]
      BY <1>4, WhereIs
    <3>4. (f \in DOMAIN query <=> f \in DOMAIN ages) /\ (f \in DOMAIN query => query[f] = ages[f])
      BY <1>1, <1>2, SearchQueryIs
    <3> QED
      BY <3>2, <3>3, <3>4
  <2>3. \A value : /\ Passes(row, "min_age", value) <=> age >= value
                   /\ Passes(row, "max_age", value) <=> age <= value
    BY <2>1 DEF Passes, Equalities, Bounded
  <2>4. (/\ "min_age" \in DOMAIN ages => age >= ages["min_age"]
         /\ "max_age" \in DOMAIN ages => age <= ages["max_age"])
        <=> \A n \in DOMAIN text : /\ text[n].word = "young" => age \in 16 .. 24
                                   /\ text[n].word = "over" => age >= text[n].number
                                   /\ text[n].word = "under" => age <= text[n].number
    BY <1>2, AgesSaid
  <2>5. "min_age" \in Ages /\ "max_age" \in Ages
    BY DEF Ages
  <2> QED
    BY <2>1, <2>2, <2>3, <2>4, <2>5
<1>11. DOMAIN cond \subseteq {"gender", "age_group", "country_id", "min_age", "max_age"}
  <2>1. ASSUME NEW f \in DOMAIN cond PROVE f \in Filters \ Probabilities
    <3>1. f \in Filters /\ f \in DOMAIN query
      BY <1>4, WhereIs DEF given
    <3>2. f \notin Probabilities
      BY <1>1, <3>1, SearchQueryIs
    <3> QED
      BY <3>1, <3>2
  <2> QED
    BY <2>1, FilterNames
<1>12. (\A f \in DOMAIN cond : Passes(row, f, cond[f])) <=>
          /\ "gender" \in DOMAIN cond => Passes(row, "gender", cond["gender"])
          /\ "age_group" \in DOMAIN cond => Passes(row, "age_group", cond["age_group"])
          /\ "country_id" \in DOMAIN cond => Passes(row, "country_id", cond["country_id"])
          /\ "min_age" \in DOMAIN cond => Passes(row, "min_age", cond["min_age"])
          /\ "max_age" \in DOMAIN cond => Passes(row, "max_age", cond["max_age"])
  BY <1>11
<1>13. (\A n \in DOMAIN text : Means(text[n], row)) <=>
          /\ \A n \in DOMAIN text : text[n].word \in Gendered => row.gender = GenderBy(text[n].word)
          /\ \A n \in DOMAIN text : text[n].word \in ToSet(AgeGroups) => row.age_group = text[n].word
          /\ \A n \in DOMAIN text : text[n].word \in DOMAIN Terms => row.country_id = Alpha2[text[n].word]
          /\ \A n \in DOMAIN text : /\ text[n].word = "young" => row.age \in 16 .. 24
                                    /\ text[n].word = "over" => row.age >= text[n].number
                                    /\ text[n].word = "under" => row.age <= text[n].number
  <2>1. \A n \in DOMAIN text : Means(text[n], row) <=>
              /\ text[n].word \in Gendered => row.gender = GenderBy(text[n].word)
              /\ text[n].word \in ToSet(AgeGroups) => row.age_group = text[n].word
              /\ text[n].word = "young" => row.age \in 16 .. 24
              /\ text[n].word = "over" => row.age >= text[n].number
              /\ text[n].word = "under" => row.age <= text[n].number
              /\ text[n].word \in DOMAIN Terms => row.country_id = Alpha2[text[n].word]
    BY MeansIs
  <2> QED
    BY <2>1, Zenon
<1> QED
  BY <1>3, <1>7, <1>8, <1>9, <1>10, <1>12, <1>13

LEMMA SelectedIsMeant ==
    ASSUME profiles \subseteq Id, NEW text \in SearchText, Clear(text), NEW paging \in SearchPaging,
           NEW form, form = normalizeFilters(SearchQuery(text, paging))
    PROVE  Selected(form) = {i \in profiles : \A n \in DOMAIN text : Means(text[n], Row[i])}
<1>1. PICK cond : cond = where(form)
  OBVIOUS
<1>2. Selected(form) = {i \in profiles : \A f \in DOMAIN cond : Passes(Row[i], f, cond[f])}
  BY <1>1, ByColumn
<1>3. \A i \in profiles : (\A f \in DOMAIN cond : Passes(Row[i], f, cond[f]))
                          <=> \A n \in DOMAIN text : Means(text[n], Row[i])
  BY <1>1, RowMeant
<1> QED
  BY <1>2, <1>3

LEMMA InvSearches ==
    ASSUME Inv
    PROVE  SearchIsWhatWasSaid
<1> SUFFICES ASSUME NEW c \in steady, walk[c].kind = "search", Clear(walk[c].asked), NEW meant,
                    meant = {i \in profiles : \A n \in DOMAIN walk[c].asked :
                                                 Means(walk[c].asked[n], Row[i])}
             PROVE  /\ \A p \in DOMAIN walk[c].pages : ToSet(walk[c].pages[p]) \subseteq meant
                    /\ WholeWalk(c) /\ Untied(c) => meant = ToSet(Read(c))
  BY DEF SearchIsWhatWasSaid
<1>1. PICK text \in SearchText, paging \in SearchPaging :
         text = walk[c].asked /\ walk[c].query = SearchQuery(text, paging)
  BY DEF Inv, WalkIsOfItsQuery
<1>2. PICK form : form = normalizeFilters(walk[c].query) /\ form = normalizeFilters(SearchQuery(text, paging))
  BY <1>1
<1>3. PICK S : S = Selected(form)
  OBVIOUS
<1>4. S = {i \in profiles : \A n \in DOMAIN text : Means(text[n], Row[i])}
  BY <1>1, <1>2, <1>3, SelectedIsMeant DEF Inv
<1>5. S = meant
  BY <1>1, <1>4
<1>6. ASSUME NEW p \in DOMAIN walk[c].pages PROVE ToSet(walk[c].pages[p]) \subseteq S
  BY <1>2, <1>3, PagesHold
<1>7. ASSUME WholeWalk(c), Untied(c) PROVE ToSet(Read(c)) = S
  BY <1>2, <1>3, <1>7, UntiedRead
<1> QED
  BY <1>5, <1>6, <1>7

\* A search whose phrases do not contradict each other finds exactly the rows that
\* fit every phrase: each extractor of NlqService.parse, the longest country term
\* among them, says in the statement what its words mean, and a gender's word in
\* the name of a country is one of them.
THEOREM SearchesAreWhatWasSaid == Spec => []SearchIsWhatWasSaid
BY Invariance, InvSearches, PTL
================================================================================
