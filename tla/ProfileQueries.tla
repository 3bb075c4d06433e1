---------------------------- MODULE ProfileQueries ----------------------------
(***************************************************************************)
(* From what a client asks for to the rows it reads: the DTO's defaults,   *)
(* the parser of search texts, the normal form that is the cache key, the  *)
(* statement, the links of a page that lead to the next and the previous   *)
(* one, and the export.  Rows come and go, and cached pages lapse, between *)
(* two pages; what may happen within one request is in ProfileCache.tla.   *)
(***************************************************************************)
EXTENDS Integers, FiniteSets, Sequences, SequencesExt

CONSTANTS
    Id, Row,       \* the rows there may be, by id
    Client,
    ListQuery,     \* the query strings clients send to GET /api/profiles
    SearchText,    \* the texts they send to GET /api/profiles/search
    SearchPaging,  \* page and limit beside them
    Upper,         \* upper case of the lower-case texts
    Terms,         \* the known country terms in each country phrase
    GenderIn,      \* the gender whose word is in a country phrase (isle of man), or NONE
    Alpha2,        \* countryNamesToAlpha2 and countryAliases
    TermLength,    \* length of a term
    ExportLimit,   \* the limit of the export
    MaxChanges,    \* bound: rows added or removed
    NONE           \* null

VARIABLES
    profiles,      \* ids of the rows there are
    cache,         \* the pages in Redis, by normal form
    walk,          \* what a client asked and the pages it has read since
    changes,       \* rows added and removed so far
    steady         \* history: clients since whose first page no row came or went

vars == <<profiles, cache, walk, changes, steady>>

Equalities == {"gender", "age_group", "country_id"}
Probabilities == {"min_gender_probability", "min_country_probability"}
\* The columns of the bounds.
Bounded == [min_age |-> "age", max_age |-> "age",
            min_gender_probability |-> "gender_probability",
            min_country_probability |-> "country_probability"]
Ages == {"min_age", "max_age"}
Filters == Equalities \cup DOMAIN Bounded

Defaults == [page |-> 1, limit |-> 10, sort_by |-> "created_at", order |-> "desc"]
With(form, f) == IF f \in DOMAIN form THEN form[f] ELSE Defaults[f]

\* What a query that passed its DTO asks for, given or by default.
QueryFits(query) ==
    /\ With(query, "page") \in Nat \ {0} /\ With(query, "limit") \in Nat \ {0}
    /\ With(query, "sort_by") \in {"age", "gender_probability", "created_at"}
    /\ With(query, "order") \in {"asc", "desc"}

Capital == {Upper[text] : text \in DOMAIN Upper}
Genders == {"male", "female"}
AgeGroups == <<"child", "teenager", "adult", "senior">>

\* Genders and age groups are stored in lower case, countries in upper case.
ASSUME ConstantsAssumption ==
    /\ IsFiniteSet(Id)
    /\ \A i \in Id : /\ Row[i].age \in Nat /\ Row[i].created_at \in Nat
                     /\ Row[i].gender_probability \in Nat /\ Row[i].country_probability \in Nat
                     /\ Row[i].gender \notin Capital /\ Row[i].age_group \notin Capital
                     /\ Row[i].country_id \notin DOMAIN Upper
    /\ \A s, t \in DOMAIN Upper : Upper[s] = Upper[t] => s = t
    /\ DOMAIN Upper \cap Capital = {} /\ "" \notin DOMAIN Upper \cup Capital
    /\ \A raw \in ListQuery : /\ DOMAIN raw \subseteq Filters \cup DOMAIN Defaults
                              /\ QueryFits(raw)
                              /\ \A f \in DOMAIN raw \cap DOMAIN Bounded : raw[f] \in Nat
    /\ \A paging \in SearchPaging : DOMAIN paging \subseteq {"page", "limit"} /\ QueryFits(paging)
    /\ ExportLimit \in Nat \ {0} /\ MaxChanges \in Nat

\* The words of the parser are in lower case and are not country terms; the terms
\* found in a country phrase are itself and shorter ones, and of the parser's
\* other words it may hold one of a gender's.
ASSUME WordsAssumption ==
    /\ \A text \in SearchText :
          /\ text \in Seq([word : STRING, number : Nat \cup {NONE}])
          /\ \A i \in DOMAIN text : text[i].word \in {"over", "under"} => text[i].number \in Nat
    /\ (Genders \cup ToSet(AgeGroups)) \cap Capital = {}
    /\ DOMAIN Terms \cap (Genders \cup ToSet(AgeGroups) \cup {"young", "over", "under"}) = {}
    /\ \A phrase \in DOMAIN Terms :
          /\ GenderIn[phrase] \in Genders \cup {NONE}
          /\ phrase \in Terms[phrase] /\ \A t \in Terms[phrase] : TermLength[t] \in Nat
          /\ \A t \in Terms[phrase] \ {phrase} : TermLength[t] < TermLength[phrase]
          /\ Alpha2[phrase] \notin DOMAIN Upper \cup {""}

toUpperCase(text) == IF text \in DOMAIN Upper THEN Upper[text] ELSE text
toLowerCase(text) == IF \E t \in DOMAIN Upper : Upper[t] = text
                     THEN CHOOSE t \in DOMAIN Upper : Upper[t] = text ELSE text

-----------------------------------------------------------------------------
(* The two query DTOs and the parser.  Filters are functions from the names  *)
(* of those that are given.                                                   *)

GetProfilesQuery(raw) ==
    [f \in DOMAIN raw \cup DOMAIN Defaults |->
        CASE f \notin DOMAIN raw -> Defaults[f]
          [] f \in Equalities -> toLowerCase(raw[f])
          [] OTHER -> raw[f]]

\* A normalized text is the sequence of its known words and phrases; "over" and
\* "under" (with their synonyms) carry the number that follows.
Says(text, words) == \E i \in DOMAIN text : text[i].word \in words
firstMatch(text, word) ==
    LET at == {i \in DOMAIN text : text[i].word = word}
    IN  text[CHOOSE i \in at : \A j \in at : i <= j].number

Only(condition, f, value) == IF condition THEN [g \in {f} |-> value] ELSE <<>>
Overridden(f, g) == [x \in DOMAIN f \cup DOMAIN g |-> IF x \in DOMAIN g THEN g[x] ELSE f[x]]

\* The patterns look at the whole text, so a country phrase may say a gender too.
GenderWords(gender) == {gender} \cup {phrase \in DOMAIN Terms : GenderIn[phrase] = gender}

extractGender(text) ==
    LET male == Says(text, GenderWords("male"))
        female == Says(text, GenderWords("female"))
    IN  Only(male # female, "gender", IF male THEN "male" ELSE "female")

extractAgeGroup(text) ==
    LET said == {i \in 1 .. 4 : Says(text, {AgeGroups[i]})}
    IN  Only(said # {}, "age_group",
             AgeGroups[CHOOSE i \in said : \A j \in said : i <= j])

extractAgeRanges(text) ==
    LET young == IF Says(text, {"young"}) THEN [min_age |-> 16, max_age |-> 24] ELSE <<>>
        over == Only(Says(text, {"over"}), "min_age", firstMatch(text, "over"))
        under == Only(Says(text, {"under"}), "max_age", firstMatch(text, "under"))
    IN  Overridden(Overridden(young, over), under)

\* Slip: any of the terms.
extractAnyCountry(text) ==
    LET found == UNION {Terms[text[i].word] : i \in {j \in DOMAIN text : text[j].word \in DOMAIN Terms}}
    IN  Only(found # {}, "country_id",
             Alpha2[CHOOSE t \in found : \A u \in found : TermLength[t] <= TermLength[u]])

\* The longest of the terms.
extractCountry(text) ==
    LET found == UNION {Terms[text[i].word] : i \in {j \in DOMAIN text : text[j].word \in DOMAIN Terms}}
    IN  Only(found # {}, "country_id",
             Alpha2[CHOOSE t \in found : \A u \in found : TermLength[t] >= TermLength[u]])

extractSort(text) ==
    LET by == IF Says(text, {"age"}) THEN "age"
              ELSE IF Says(text, {"gender probability"}) THEN "gender_probability"
              ELSE IF Says(text, {"created", "newest", "oldest", "date"}) THEN "created_at"
              ELSE NONE
        desc == Says(text, {"descending", "newest", "highest"})
        asc == Says(text, {"ascending", "oldest", "lowest"})
    IN  Overridden(Only(Says(text, {"sort"}) /\ by # NONE, "sort_by", by),
                   Only(desc \/ asc, "order", IF desc THEN "desc" ELSE "asc"))

parse(text) ==
    Overridden(Overridden(Overridden(extractGender(text), extractAgeGroup(text)),
                          Overridden(extractAgeRanges(text), extractCountry(text))),
               extractSort(text))

\* The query of the search: no default for sort_by and order.
SearchQuery(text, paging) == Overridden(parse(text), paging)

-----------------------------------------------------------------------------
(* Normal form, statement, page. *)

\* Math.round(p * 100) / 100, of probabilities in thousandths.
Round(p) == ((p + 5) \div 10) * 10

\* Slip: a bound of 0 counts as absent.
givenIfTruthy(query, f) ==
    f \in DOMAIN query /\ (f \in Equalities => query[f] # "") /\ (f \in Ages => query[f] # 0)

\* Text is given when it is truthy, a number when it is not null.
given(query, f) == f \in DOMAIN query /\ (f \in Equalities => query[f] # "")

normalizeFilters(query) ==
    [f \in {g \in DOMAIN query : given(query, g)} |->
        CASE f \in Equalities -> toLowerCase(query[f])
          [] f \in Probabilities -> Round(query[f])
          [] OTHER -> query[f]]

\* Slip: the key forgets the page.
keyWithoutPage(query) ==
    LET form == normalizeFilters(query)
    IN  [f \in DOMAIN form \ {"page"} |-> form[f]]

\* The text of the key tells normal forms apart: the form is the key.
buildCacheKey(query) == normalizeFilters(query)

where(form) ==
    [f \in DOMAIN form \cap Filters |->
        IF f = "country_id" THEN toUpperCase(form[f]) ELSE form[f]]

Satisfies(row, cond) ==
    \A f \in DOMAIN cond :
        CASE f \in Equalities -> row[f] = cond[f]
          [] f = "max_age" -> row.age <= cond[f]
          [] OTHER -> row[Bounded[f]] >= cond[f]

\* Slip: pages counted from 0.
skipFromZero(page, limit) == page * limit

skip(page, limit) == (page - 1) * limit

\* The orders in which the statement may return the rows that satisfy it: no
\* column breaks ties.
Orders(ids, by, order) ==
    {s \in SetToSeqs(ids) : \A i \in 1 .. Len(s) - 1 :
        IF order = "asc" THEN Row[s[i]][by] <= Row[s[i + 1]][by]
                         ELSE Row[s[i]][by] >= Row[s[i + 1]][by]}

Selected(form) == {i \in profiles : Satisfies(Row[i], where(form))}
Sorted(form) == Orders(Selected(form), With(form, "sort_by"), With(form, "order"))

least(m, n) == IF m < n THEN m ELSE n
Slice(s, page, limit) ==
    SubSeq(s, skip(page, limit) + 1, least(skip(page, limit) + limit, Len(s)))

\* The pages buildProfileQuery's statements may return.
Pages(form) ==
    LET page == With(form, "page")
        limit == With(form, "limit")
    IN  {[page |-> page, limit |-> limit, total |-> Cardinality(Selected(form)),
          data |-> Slice(s, page, limit)] : s \in Sorted(form)}

totalPages(result) == (result.total + result.limit - 1) \div result.limit

hasNext(result) == result.page < totalPages(result)
hasPrev(result) == result.page > 1

-----------------------------------------------------------------------------
Init ==
    /\ profiles \in {Id, Id \ {CHOOSE i \in Id : TRUE}}
    /\ cache = <<>>
    /\ walk = [c \in Client |-> NONE]
    /\ changes = 0
    /\ steady = {}

\* findAllProfiles: from the cache, or from the database and into the cache.
findAllProfiles(query, result) ==
    LET key == buildCacheKey(query)
    IN  IF key \in DOMAIN cache THEN result = cache[key] /\ UNCHANGED cache
        ELSE cache' = Overridden(cache, [k \in {key} |-> result])

Results(query) ==
    IF buildCacheKey(query) \in DOMAIN cache THEN {cache[buildCacheKey(query)]}
    ELSE Pages(normalizeFilters(query))

\* The first page a client asks for, of a list, a search or the export.
First(c, kind, asked, query) ==
    /\ walk[c] = NONE
    /\ \E result \in Results(query) :
          /\ findAllProfiles(query, result)
          /\ walk' = [walk EXCEPT ![c] =
                [kind |-> kind, asked |-> asked, query |-> query, last |-> result,
                 pages |-> [p \in {result.page} |-> result.data]]]
    /\ steady' = steady \cup {c}
    /\ UNCHANGED <<profiles, changes>>

findAll(c, raw) == First(c, "list", raw, GetProfilesQuery(raw))

search(c, text, paging) ==
    /\ parse(text) # <<>>        \* otherwise 400
    /\ First(c, "search", text, SearchQuery(text, paging))

\* Slip: the export keeps the page and limit of the query.
exportPage(c, raw) == First(c, "export", raw, GetProfilesQuery(raw))

export(c, raw) ==
    First(c, "export", raw,
          Overridden(GetProfilesQuery(raw), [page |-> 1, limit |-> ExportLimit]))

\* The client follows the link to the next or to the previous page.
Follow(c, page) ==
    /\ walk[c] # NONE /\ walk[c].kind # "export"
    /\ LET last == walk[c].last
           query == Overridden(walk[c].query, [page |-> page, limit |-> last.limit])
       IN  /\ \/ hasNext(last) /\ page = last.page + 1
              \/ hasPrev(last) /\ page = last.page - 1
           /\ page \notin DOMAIN walk[c].pages
           /\ \E result \in Results(query) :
                 /\ findAllProfiles(query, result)
                 /\ walk' = [walk EXCEPT ![c].last = result,
                        ![c].pages = Overridden(@, [p \in {page} |-> result.data])]
    /\ UNCHANGED <<profiles, changes, steady>>

\* Every change of profiles empties the cache.
Change ==
    /\ changes < MaxChanges /\ changes' = changes + 1
    /\ \E i \in Id : profiles' = SymDiff(profiles, {i})
    /\ cache' = <<>> /\ steady' = {}
    /\ UNCHANGED walk

Expire(key) ==
    /\ cache' = [k \in DOMAIN cache \ {key} |-> cache[k]]
    /\ UNCHANGED <<profiles, walk, changes, steady>>

Next ==
    \/ \E c \in Client :
          \/ \E raw \in ListQuery : findAll(c, raw) \/ export(c, raw)
          \/ \E text \in SearchText, paging \in SearchPaging : search(c, text, paging)
          \/ \E page \in 1 .. Cardinality(Id) + 1 : Follow(c, page)
    \/ Change
    \/ \E key \in DOMAIN cache : Expire(key)

Spec == Init /\ [][Next]_vars

-----------------------------------------------------------------------------
(* Safety. *)

TypeOK ==
    /\ profiles \subseteq Id /\ changes \in 0 .. MaxChanges /\ steady \subseteq Client
    /\ \A key \in DOMAIN cache :
          /\ cache[key].page = With(key, "page") /\ cache[key].limit = With(key, "limit")
          /\ Len(cache[key].data) <= cache[key].limit
          /\ ToSet(cache[key].data) \subseteq Id

\* What a client means: every filter it wrote, in upper or lower case, up to
\* slack thousandths of a probability.
Wanted(raw, slack) ==
    {i \in profiles : \A f \in DOMAIN raw \cap Filters :
        CASE f \in Equalities -> raw[f] = "" \/ toLowerCase(Row[i][f]) = toLowerCase(raw[f])
          [] f = "max_age" -> Row[i].age <= raw[f]
          [] f \in Probabilities -> Row[i][Bounded[f]] >= raw[f] - slack
          [] OTHER -> Row[i].age >= raw[f]}

\* What a text says: the conjunction of its phrases, where the name of a country
\* with a gender's word in it says that gender as well.
Means(phrase, row) ==
    /\ \A gender \in Genders : phrase.word \in GenderWords(gender) => row.gender = gender
    /\ CASE phrase.word \in ToSet(AgeGroups) -> row.age_group = phrase.word
         [] phrase.word = "young" -> row.age \in 16 .. 24
         [] phrase.word = "over" -> row.age >= phrase.number
         [] phrase.word = "under" -> row.age <= phrase.number
         [] phrase.word \in DOMAIN Terms -> row.country_id = Alpha2[phrase.word]
         [] OTHER -> TRUE

\* Phrases on one subject: a text with two of them has no single meaning.
Subject(word) ==
    CASE word \in ToSet(AgeGroups) -> "age group"
      [] word \in {"young", "over"} -> "least age"
      [] word \in DOMAIN Terms -> "country"
      [] OTHER -> word
Clear(text) ==
    /\ \A i, j \in DOMAIN text : Subject(text[i].word) = Subject(text[j].word) => i = j
    /\ \A i, j \in DOMAIN text : \A g, h \in Genders :
          text[i].word \in GenderWords(g) /\ text[j].word \in GenderWords(h) => i = j
    /\ ~(Says(text, {"young"}) /\ Says(text, {"under"}))

\* The walks that nothing disturbed and that have every page.
WholeWalk(c) == /\ c \in steady
                /\ ~hasNext(walk[c].last) \/ totalPages(walk[c].last) \in DOMAIN walk[c].pages
                /\ 1 \in DOMAIN walk[c].pages
Read(c) == FlattenSeq([p \in 1 .. Cardinality(DOMAIN walk[c].pages) |-> walk[c].pages[p]])
Key(c, i) == Row[i][With(walk[c].query, "sort_by")]
Untied(c) ==
    \A i, j \in Selected(normalizeFilters(walk[c].query)) : Key(c, i) = Key(c, j) => i = j

\* Whoever put it into the cache under whatever query: a page the client reads
\* holds no row that misses a filter the client wrote by more than the rounding,
\* and without ties the pages hold every row that meets the filters, once.
ListIsWhatWasAsked ==
    \A c \in steady : walk[c].kind = "list" =>
        /\ \A p \in DOMAIN walk[c].pages : ToSet(walk[c].pages[p]) \subseteq Wanted(walk[c].asked, 5)
        /\ WholeWalk(c) /\ Untied(c) => Wanted(walk[c].asked, -5) \subseteq ToSet(Read(c))

\* A search whose phrases do not speak of one thing twice returns the rows that
\* fit every phrase: "people from isle of man" the males of that country only, as
\* "man" is read in any place.
SearchIsWhatWasSaid ==
    \A c \in steady : walk[c].kind = "search" /\ Clear(walk[c].asked) =>
        LET meant == {i \in profiles : \A n \in DOMAIN walk[c].asked :
                                          Means(walk[c].asked[n], Row[i])}
        IN  /\ \A p \in DOMAIN walk[c].pages : ToSet(walk[c].pages[p]) \subseteq meant
            /\ WholeWalk(c) /\ Untied(c) => meant = ToSet(Read(c))

\* Following the links reads as many rows as the total says, in order across the
\* pages, cached and fresh ones, and without ties each row once: with ties a row
\* may be on two pages, as the order has no tie-breaker.
WalkIsExact ==
    \A c \in Client : walk[c] # NONE /\ WholeWalk(c) =>
        LET rows == Read(c)
        IN  /\ walk[c].kind # "export" => Len(rows) = walk[c].last.total
            /\ \A i, j \in DOMAIN rows : i < j =>
                  IF With(walk[c].query, "order") = "asc"
                    THEN Key(c, rows[i]) <= Key(c, rows[j])
                    ELSE Key(c, rows[i]) >= Key(c, rows[j])
            /\ Untied(c) => Cardinality(ToSet(rows)) = Len(rows)

\* The export holds all rows of the filters up to its limit, ties or not.
ExportIsComplete ==
    \A c \in steady : walk[c].kind = "export" =>
        LET rows == walk[c].last.data
        IN  /\ ToSet(rows) \subseteq Wanted(walk[c].asked, 5)
            /\ Cardinality(ToSet(rows)) = Len(rows)
            /\ Len(rows) >= least(ExportLimit, Cardinality(Wanted(walk[c].asked, -5)))

-----------------------------------------------------------------------------
(* The inductive invariant behind the safety properties. *)

\* A cached page is one that the database would return now.
CacheIsCurrent == \A key \in DOMAIN cache : QueryFits(key) /\ cache[key] \in Pages(key)

\* What a client asked, and the query that was made of it.
WalkIsOfItsQuery(w) ==
    /\ DOMAIN w = {"kind", "asked", "query", "last", "pages"}
    /\ QueryFits(w.query)
    /\ w.last.page \in Nat \ {0} /\ w.last.limit \in Nat \ {0}
    /\ w.kind = "list" => w.asked \in ListQuery /\ w.query = GetProfilesQuery(w.asked)
    /\ w.kind = "search" => /\ w.asked \in SearchText
                            /\ \E paging \in SearchPaging : w.query = SearchQuery(w.asked, paging)
    /\ w.kind = "export" =>
          /\ w.asked \in ListQuery
          /\ w.query = Overridden(GetProfilesQuery(w.asked), [page |-> 1, limit |-> ExportLimit])

\* The pages of a client that nothing disturbed: without a gap, each of them cut
\* from one of the orders of the rows there are.
PagesAreCurrent(w) ==
    LET form == normalizeFilters(w.query)
        limit == With(w.query, "limit")
    IN  /\ w.last.limit = limit /\ w.last.total = Cardinality(Selected(form))
        /\ w.last.page \in DOMAIN w.pages /\ w.last.data = w.pages[w.last.page]
        /\ \E m, n \in DOMAIN w.pages : m \in Nat \ {0} /\ n \in Nat /\ DOMAIN w.pages = m .. n
        /\ \A p \in DOMAIN w.pages : \E s \in Sorted(form) : w.pages[p] = Slice(s, p, limit)
        /\ w.kind = "export" => DOMAIN w.pages = {1}

Inv ==
    /\ profiles \subseteq Id /\ changes \in 0 .. MaxChanges
    /\ DOMAIN walk = Client /\ steady \subseteq Client
    /\ CacheIsCurrent
    /\ \A c \in Client : walk[c] # NONE \/ c \in steady => WalkIsOfItsQuery(walk[c])
    /\ \A c \in steady : PagesAreCurrent(walk[c])
================================================================================
