# Verification of the Insighta Labs+ profile API

TLA+ modules, TLC configurations and TLAPS proofs for the backend in this
repository (NestJS, Prisma on PostgreSQL, Redis). The code is a set of request
handlers that share two stores and no locks and use no transactions: each
`await` on Prisma, on Redis or on a service is a point where every other request
may run, where the call may fail, and where the process may die. That is what is
modelled.

Paths below are relative to the repository root.

## 1. Inventory

| Component | State it keeps | Operations | Talks to | Module |
| :--- | :--- | :--- | :--- | :--- |
| Sessions and token rotation (`src/modules/auth/auth.service.ts`, `repositories/auth.repository.ts`, `auth.controller.ts`) | rows of `auth_sessions`: user, family, hash (unique), replacement, `revokedAt`, `expiresAt` | `login`, `refreshTokens`, `logout`, `revokeFamily` | PostgreSQL; called by the OAuth login | `AuthSessions`, `AuthRotation` |
| OAuth login (same files) | `github_auth_state:*` in Redis, 10 minutes | `getGitHubAuthUrl`, `githubCallback`, `verifyGithubCode`, `issueAdminTestTokens` | GitHub, Redis, user directory, sessions | `OAuthLogin` |
| User directory (`src/modules/user`) | rows of `users` (unique `githubId`) | `create`, `findOrCreateByGithub`, `updateLastLogin` | PostgreSQL | `OAuthLogin` |
| Profile store and query cache (`src/modules/profiles/profiles.service.ts`, `profiles.controller.ts`, `repositories/`) | rows of `profiles` (unique name); Redis keys `profiles:*`, 300 s | `findAllProfiles`, `createProfile`, `deleteProfile`, `importFromCsv`, `invalidateQueryCache` | PostgreSQL, Redis, three external APIs | `ProfileCache` |
| Query normalisation, filters, pagination, export (`utils/normalize-filters.ts`, `utils/build-profile-query.ts`, `formatPaginatedResponse`) | none | `normalizeFilters`, `buildCacheKey`, `buildProfileQuery`, links | profile store | `ProfileQueries` |
| Natural language queries (`utils/nlq-service.ts`) | none | a text to filters | profile store | `ProfileQueries` |
| CSV import (`importFromCsv`, `parseCsvLine`, multer's options) | a temporary file, a chunk, counters | classify a line, flush a chunk, count, remove the file | file system, profile store | `CsvImport` |
| Enrichment and classification (`enrichProfile`, `fetchWithProxy`, `validateResponses`, `classification.service.ts`) | none | calls in parallel, 5 s timeout each | external APIs, profile store | `Upstream` |
| Rate limiter (`src/core/guards/redis-throttler-guard.guard.ts`, `app.module.ts`) | one Redis sorted set per client, throttler and path | `handleRequest` | Redis; second of the global guards | `RateLimiter` |
| Request pipeline (`app.module.ts`, `main.ts`, `src/core`, `jwt-auth.guard.ts`, `jwt.strategy.ts`) | none | six global guards in order, validation pipe, interceptor, exception filter | user directory, rate limiter | `RequestPipeline` |
| Bootstrap, configuration, logging, seeding | none of their own | start-up, output, seeded rows | | in part, see 6 |

Behaviours that are hard, and what makes each component correct:

- **Sessions.** A refresh is six statements on two rows. Two refreshes of one
  token overlap; a family is revoked, or a session logged out, while a refresh
  is between its lookup and its insert; a request dies half way; every row
  starts with the same literal `'PENDING'` in a unique column; expiry falls
  between the steps. Correct means: a spent token is never rotated, a rotated
  token is spent, nobody's sessions end on behalf of someone else, dead families
  stay dead.
- **OAuth login and users.** State and verifier live in Redis between two
  requests; GET and DEL of the state, find and create of a user are checks that
  another request may overtake; the session is made before the place to deliver
  it to is looked at. Correct means: a session is one for the attempt and the
  account that agreed to it, it goes to the client that asked, roles survive.
- **Profiles and cache.** A list fills the cache from what it read some
  statements ago; total and data are read by two statements; writers invalidate
  with KEYS and then DEL, after they wrote, or never when they fail. Correct
  means: complete imports, every stale page with a known cause.
- **Queries.** Lists, searches and exports share one key space of normal forms;
  equal sort values have no order. Correct means: a page holds what its reader
  asked for whoever filled it, and the links lead through all rows.
- **Import.** Chunks commit one by one, two uploads may have one path, the
  database refuses rows the code accepts. Correct means: counts that add up,
  whole files, nothing left in `/tmp`, failures with a cause, and lines of the
  export that are read as they were written.
- **Upstream.** Three calls, three timers, one answer: late answers, no answers,
  answers of no use. Correct means: rows backed by three answers, an outage that
  is a gateway error naming the right service, and always an answer.
- **Rate limiter.** The stamp is taken before the transaction, so sets are not
  filled in time order, and the key expires as a whole. The transaction may
  have run although its reply is lost. Correct means: never more than the limit
  in a window, and no denial without cause.
- **Pipeline.** The tracker, the strategy and the CSRF check each read header
  and cookie for themselves; the user's row changes under way. Correct means:
  who reaches a handler was entitled, counted as himself, and confirmed; what is
  logged is what was answered.

`PROJECT.json` lists each hazard at its line, with the properties about it.

## 2. Modules

### AuthSessions

A `Request` is one invocation of `login`, `refreshTokens` or `logout`. It runs
once and creates at most one row; row, token pair and, for a login, family are
named after it. `pc[r]` is the statement the request executes next:

| Location | Statement | Action |
| :--- | :--- | :--- |
| `idle` | - | `BeginLogin`, `BeginRefresh` (verifies the JWT), `BeginLogout` (does not) |
| `find` | `findSessionByTokenHash` | `RefreshFind`, `LogoutFind` |
| `create` | `createSession` with `'PENDING'` | `CreateSession`, `UniqueViolation` |
| `store` | update of `refreshTokenHash` | `StoreHash`; a login returns here |
| `replace` | `setReplacementTokenHash` | `SetReplacement` |
| `revoke` | `revokeSession` | `RevokeSession` |
| `revokeFamily` | `revokeFamily` | `RevokeFamily` |

The columns of `auth_sessions` are functions of the row. `RefreshFind` copies
owner and family into locals and decides on `revokedAt` and `expiresAt` there
and then, as the code does with the row it read. `touchSession` and
`updateLastLogin` write columns nothing reads and are merged into the next
statement. `DbFails` lets the statement a request is at fail (401 from the
`catch` of `refreshTokens`, 500 elsewhere); `Crash` ends all requests in flight
and leaves the table. `Expire` and `Lapse` let a row and a token run out, in
either order. SHA-256 is taken as injective and JWT signatures as sound: tokens
are records and requests present only tokens some client was given.
`TokenKinds` is which tokens of a pair clients present where a refresh token is
due; both runs of the passing properties have both. `refreshTokens` verifies any
token of the one secret, finds no row for an access token, and calls
`revokeFamily(undefined)`: `RevokeFamily` then revokes every row, as Prisma drops a
filter without a value.

`Spec` allows any interleaving. `SerialSpec` lets a request begin only when none
is in flight: a property that holds there and fails under `Spec` fails because
requests overlap.

### AuthRotation

What all this is for, in one step per operation: `Login` begins a family,
`Refresh` exchanges a token that was handed out, and not exchanged before, for a
new one, `End` (logout or reuse) ends a family that was handed out, `Lose` lets
tokens run out.
The last section of `AuthSessions` maps its state to this one: `current` is the
set of tokens of a family that a client holds and `refreshTokens` would rotate,
`handed` the tokens clients were given, `used` those a refresh was answered for,
`ended` the families that were answered as reused or logged out with a token
that worked. `ImplementsRotation` says that `SerialSpec` implements it: all
statements of a handler but one are stutters, and that one is the whole step.
That no two tokens of a family work at once, that a token is rotated once, and
that an ended family stays ended are consequences of the abstract specification;
`OneTokenWorks` states the first and the last of the concrete rows.

### ProfileCache

Lists, creates, deletes and imports over the table (`db`, a set of rows) and the
cache (a page or `MISS` for each key). Again `pc[r]` is the next statement:
`get`, `read`/`counted`/`listed` (the two reads of `Promise.all`, in either
order), `fill`; `find`, `enrich`, `insert`; `delete`; `flush`, once for each
chunk; and for every writer `scan` (KEYS) and `del` (DEL). A page is a pair of
the rows counted and the rows listed; all rows a query selects are on one page.
`Match` says which names a query selects: filters are on other columns, which
never change and which the model does not need. An import begins after its lines
were classified. `Fails` lets the statement of a request fail: 404 for a delete,
whatever the error, and 500 otherwise; an import that fails skips its
invalidation. `Crash` is as above; `Evict` is the end of the 300 seconds, which
may come at any moment. `raced`, `tainted`, `orphaned`, `wrote`, `uploaded`,
`erased` and `faulted` are histories; no action's guard reads them.

### RateLimiter

`Receive` is `handleRequest` up to `Date.now()`, `Check` the MULTI (zadd,
zremrangebyscore, zcard, expire; `Transact`) and the verdict. `ReplyLost` is a
MULTI that ran although `exec` rejects or returns too little, `CheckFails` one that
did not run: both are answered 500, and the first stays in the set. `Tick` advances the clock but lets no request wait more than `MaxDelay`
for its transaction; ticks are abstract. `Live` empties a set whose key expired.
The client (`user:<sub>` or `ip:<address>`) is an input. A path determines its
throttler, as `handleRequest` skips the other one. The reply of zcard is a number
whenever `exec` succeeds, since nothing else writes these keys. The headers are
left out.

### OAuthLogin

An `Attempt` is a call of `GET /auth/github`, a `Callback` one of
`GET /auth/github/callback`, a `Creation` a `POST /users`. `attempts` is what was
asked with a state, `stored` the keys still in Redis. A callback goes through
`get` and `del` of the state, `exchange` (both calls to GitHub), `upsert` of the
user, `create` and `store` of the session and is then answered by `delivery`:
cookies, JSON, a redirect with tokens, or the 500 of a text that `new URL`
refuses. The test code goes from `admin` to `create`. `Authorize` and `Accepts`
are GitHub: a code is made for one attempt's challenge and one account, and
exchanged once for the verifier that fits. `CallFails` lets Redis, GitHub or the
database fail before or after the call took effect, `Expire` is the end of the
ten minutes, `Crash` and `Seed` are the process and the seed script. Sessions
matter here only as far as `'PENDING'` keeps another login out; their further
life is `AuthSessions`. What `admins`, `sound`, `consumed`, `hit` and `inserted`
record, no guard reads.

### RequestPipeline

`Receive` is the version guard, `Throttle` the limiter's transaction and the JWT
guard up to the lookup, `Load` the user's row and the three guards after it
(active user, role, CSRF), `Handle` the validation pipe and the handler, which
succeeds or throws what the handlers of its route throw. `Succeed` is the
interceptor's line, written before Nest sends the body: a GET may then be answered
304, and the callback's test code has sent its JSON itself and returns the
`Response`, which Nest fails to serialise, so that the filter logs a 500 after the
client's 200. `Route` is the table of
the controllers' decorators. A request on the wire is a record: route, version,
scheme and content of the `Authorization` header, cookie, whether the
double-submitted CSRF token is there, and what is wrong with its input. The DTOs
say which constraints of class-validator each kind of bad input fails, and
`exceptionFactory` which status that makes. `filterStatus` and
`interceptorStatus` are the two computations of a status. `ChangeSetting` changes
role or status of a user, or removes or restores the row, at any moment; `Lapse`
ends a token. `entitled`, `barred` and `late` record what was true of a request's
user and token while it was under way. The limiter's window does not move here:
`RateLimiter` is about that. Requests are counted for each route pattern; the
guard's key has the raw path (`redis-throttler-guard.guard.ts:45`), so that a route
with `:id` is in truth counted for each id, and `ActorWithinLimit` speaks of one
id there. JWT signatures are taken as sound, for the strategy
and for the tracker alike, which decodes without verifying: no client presents a
token that somebody else signed.

### ProfileQueries

`findAll`, `search` and `export` turn a query string or a text into a query
(defaults of the DTO, the five extractors of the parser, the export's limit);
`normalizeFilters` makes the normal form, which is the cache key, `where` and
`Selected` the rows of the statement, `Orders` and `Sorted` their orders, `skip`
and `Slice` the page cut from one of them, `totalPages`, `hasNext` and `hasPrev` the
links a client may `Follow`. Without a tie-breaker the statement may return any
of the orders that agree with the sort column. `Change` adds or removes a row
and empties the cache, `Expire` drops a page. Filters are functions from the
names of the filters that are given; texts are sequences of known words and
phrases, so what the regular expressions and the compromise library recognise is
abstracted, and what is made of it is not. Probabilities are in thousandths.
Each request is one step: what may come between its statements is `ProfileCache`.
Its assumptions are what the code establishes elsewhere: genders and age groups
are stored in lower case and countries in upper case (`importFromCsv` and
`getAgeGroup`; the answers of Genderize and Nationalize), page and limit passed
the DTO's `@Min(1)`, and no word of the parser is a country term
(`ConstantsAssumption`). A country term may contain shorter ones (`Terms`) and the
word of one gender (`GenderIn`, `GenderWords`: "isle of man"), which `extractGender`
finds in it, as it tests the whole text; other words of the parser are in no
country term (`WordsAssumption`).

### CsvImport

The client sends a file, a sequence of lines, each with the checks it fails;
multer opens `/tmp/csv-import-<milliseconds>.csv` and writes it (`OpenToWrite`,
`Write`, `WriteEnds`), the service opens it by path (`OpenToRead`, `Missing`),
reads it (`ReadLine`: blank lines, the header, the first failed check, the
chunk), flushes (`FlushChunk`), invalidates and removes the file (`Unlink`). The
file system is a POSIX one: opening truncates, an open file outlives its name, a
gap that was never written reads as NULs. Uploads of one millisecond share a
path. `refused` is a row that passes the checks of the code and that PostgreSQL
does not take. `WriteFails`, `FlushFails` (with or without effect),
`InvalidateFails` and `Crash` are the faults. A line without a name (a blank one,
the header, an empty first column) fails a check by itself (`Sent`); the rows of a
file are the lines after its first that is not blank (`Rows`). `abandoned` are the
uploads that never came to their `finally`, `Existing` the names that were in the
table before, which need not be trimmed: `POST /api/profiles` stores `" ann"`.

`parseCsvLine` is over characters: quote, comma, space, U+FFFD, and the rest.
`Start` is its state before the loop, `Advance` one turn of it; the columns are
then trimmed, and the line is refused (`NONE`) with fewer than five of them or with
a U+FFFD. `exported` is the line `GET /api/profiles/export` writes for a row, ten
columns of which the second and the eighth are `quoted`. The name is the second
column there and the first of an upload, so an export is not a file to import; what
is checked is that the reader finds the columns that were written.

### Upstream

A request creates a profile or classifies a name. `FindByName` ends it or sends
three calls at once; each call is then answered (`Receive`), fails (`CallFails`)
or is timed out (`Timeout`). The first failure answers the request, as
`Promise.all` does, and the other calls come to nothing. When all have answered,
`verdict` refuses the row, in the order of `validateResponses` and
`transformData`, or lets it go to `Insert` and `Invalidate`. Bodies are of five
qualities, told apart as the code does: usable, null or zero, without the field,
a country that is no region, none at all. `Mentions` are the services whose name
is in the name asked for, which `serviceName` looks for in the URL.

### How the modules fit together

`OAuthLogin` stops where `AuthSessions` starts: its `create` and `store` are the
two statements of `BeginLogin`'s login. `ProfileCache` takes the outcome of
`Upstream` as the choice of `Enrich` and that of `CsvImport`'s lines as the
chunks of a `File`; `Upstream` and `CsvImport` take the invalidation of
`ProfileCache` as one step. `ProfileQueries` takes a request as one step and
`ProfileCache` a query as the set of names it selects. `RequestPipeline` has the
routes to all of them, with what they throw, and a window of `RateLimiter`.

### MC and proof modules

The `MC` modules hold the values of the constants and the symmetry sets. The
theorems about a module are in a module of its name with `Proofs` added; the
second half of `AuthSessionsProofs` is about `SerialSpec`, its invariant and its
refinement of `AuthRotation`.
Definitions commented "Slip:" are plausible mistakes in the code (a
dropped test, a missing reset, a swapped order). No specification uses them: put
in the place of the definition that follows, each makes the property that
`PROJECT.json` pairs it with fail.

## 3. Runs

| Run | Instance | Properties |
| :--- | :--- | :--- |
| `AuthConcurrent` | `Spec`, 4 requests, 2 users, 1 fault, every row may expire, any token; 1 883 733 states | `SpentTokenNeverRotates`, `RefreshConsumesToken`, `DeadFamilyStaysDead`, `RevokedOnBehalfOfOwner`, `RefusedByCollision` |
| `AuthSerial` | `SerialSpec`, 4 requests, 1 user, 1 fault, expiry, any token; 564 967 states | `RefusalIsExplained`, `ImplementsRotation` |
| `CacheConcurrent` | `Spec`, 3 requests, 2 names, 2 queries, 3 files, 1 fault at any statement or crash; 347 000 states | `StaleIsExplained`, `PageAddsUp`, `ImportedRowsAllPresent`, `CreateErrorIsExplained` |
| `RateWindow` | `Spec`, 4 requests, 1 client, 2 paths, limit 2, window 3, delay 1, clock to 7, any transaction lost before or after it ran; 2 389 198 states | `AdmittedAtMostLimit`, `DeniedIsExplained` |
| `RequestPipeline` | 2 requests out of 11 kinds, 2 users and their tokens, limit 1, 1 change of a user; 1 561 828 states | `TypeOK`, `DecisionIsCurrent`, `ActorWithinLimit`, `CookieWriteIsConfirmed`, `LoggedStatusIsAnswered` |
| `OAuthLogin` | 2 callbacks, 2 attempts, 2 codes, 2 accounts, 1 fault; 815 263 states | `TypeOK`, `SessionIsForItsAttempt`, `DeliveredAsAsked`, `FirstCallbackLogsIn` |
| `UserDirectory` | `OAuthLogin` with 1 callback, 2 creations, 1 seeded row, 2 accounts, 1 fault; 196 005 states | `CreationsAgree`, `RoleSurvives` |
| `ProfileQueries` | 2 clients, 4 rows, 10 queries, 11 texts, 1 change of a row; 94 512 states | `TypeOK`, `ListIsWhatWasAsked`, `SearchIsWhatWasSaid`, `WalkIsExact`, `ExportIsComplete` |
| `CsvImport` | 2 uploads, 3 files, chunks of 2, 2 milliseconds, 1 fault; 467 841 states | `TypeOK`, `CountsAddUp`, `ImportIsWhole`, `TempFileGone`, `FailureIsExplained`, `ExportedLineIsReadBack` |
| `Upstream` | 2 requests, 2 names, every quality of a body, 1 fault; 253 000 states | `TypeOK`, `StoredIsBacked`, `BlameIsRight`, `OutageIsGatewayError`, `EveryRequestSettles` |
| `AuthForeignSessions` | `Spec`, 3 requests, 2 users, no fault, any token | `ReuseEndsOwnSessions`, which fails |
| `CsvBadRowStops` | 1 upload | `NeverStopsForABadRow`, which fails |

The inductive invariants (`Inv`, and `SerialInv` of `SerialSpec`) hold in these
instances too, and no run repeats them: they are proved (section 4), as is the
`TypeOK` of the modules whose runs leave it out.

Why the bounds are enough for what they show. Four requests give a login and
three requests on its family (a rotation, a rotation of the rotated token or of
the same one, a logout), or two families of two users; a fault at any statement
gives the request that follows a failure. Three requests on the cache give a
list that is overtaken, the writer that overtakes it and a second reader or
writer; two names make a query that a write does not touch; files of zero, one
and two chunks give every path of the import loop. In `RateWindow` a window is 3
ticks and a key lives 4 ticks after its last use, so within 7 ticks a client
fills a window, is denied, goes quiet until its key expires and comes back.

The eleven requests of `RequestPipeline` are those on which the guards could
disagree: a Bearer token, a cookie with and without confirmation, a token of one
user beside the cookie of another, an unreadable token or another scheme beside
a cookie, two public routes, one of them the callback with a code of GitHub's or
the test code, a missing version, bad input; with a limit of 1 the
second request of a user is one too many. Two callbacks and two attempts in
`OAuthLogin` give two callbacks with one state, one with the code of the other
attempt, and one that arrives when the other has taken its state. The rows of
`ProfileQueries` are chosen for the edges: two equal ages, an age of 0 and those
at the ends of "young", a probability that rounding reaches from below, and
Papua New Guinea beside Guinea, and the Isle of Man with a woman on it; lists of one and two rows a page make totals that
are and are not multiples of the limit. The files of `CsvImport` have a name
twice, in two chunks, a blank line, a row with two flaws, and one the database
refuses after a good one; two milliseconds let two uploads have one path or two;
a crash moves the clock, as a restart takes longer than a millisecond.
The names have quotes at their ends and beside a comma, or spaces around them, and
the country has a comma. In `Upstream`
two requests are for one name or for two, and one of the names is like `agify`.

Requests run once, so every behaviour stops when all are done: the runs do not
check deadlock.

Fairness. `EveryRequestSettles` assumes weak fairness of a handler's next step
(Node resumes a handler when its statement is answered, and drivers answer or
fail) and of each timer of a call, and nothing
of the services: they may answer late or never. Axios' `timeout` is taken to
bound a service that stays silent. Nobody is obliged to send a request. The calls
of the OAuth callback have no timeout (`auth.service.ts:125`), so a silent GitHub
keeps a callback for ever and no liveness is claimed of it. `SerialSpec` has the
fairness of handlers; what is checked of it is safety.

### Where the code and its documents disagree

`AuthForeignSessions` checks README.md:111, "Reuse triggers family revocation — all
sessions for the user are revoked", as `ReuseEndsOwnSessions`: a request answered as
a reuse ends sessions of its own user only. TLC finds an access token sent to
`refreshTokens`: it verifies, has no row and no `familyId`, and `revokeFamily` of
`undefined` revokes the sessions of every user. `RevokedOnBehalfOfOwner` and its
theorem show that nothing else does: whatever a client does with refresh tokens, or
with either token at logout, no session of another family ends.

`CsvBadRowStops` checks a sentence of `SOLUTION.md` (191), "The upload never
stops for a single bad row", and TLC finds a row that passes the checks of the
code (an age above 2^31 - 1, for one) and is refused by the database: the chunk is
lost, the loop ends and the answer is 500. `FailureIsExplained` shows that
nothing else without a fault or a shared path ends an import.

Further differences, each bounded by a property that says how far the code may
be from the document:

| What happens | What says how far it goes |
| :--- | :--- |
| Two overlapping refreshes of one token both succeed (README "Every refresh invalidates the previous token"). | `SpentTokenNeverRotates`, `RefreshConsumesToken`: only when both arrive before either is done. `ImplementsRotation`: never one after the other. |
| A family revoked as reused has a working token again, inserted by a refresh that had read its row before; a refresh outlives a logout in the same way. | `DeadFamilyStaysDead`: only by a refresh already under way. |
| A refresh whose insert meets another request's `'PENDING'` is answered 401 "Invalid refresh token", though the token is good and nothing was written. | `RefusedByCollision`: only then, or for a failure of its own. |
| A crash between `createSession` and the digest leaves `'PENDING'` in a unique column, and valid tokens are answered "Invalid refresh token". | `RefusalIsExplained`: nothing else refuses a valid token while requests do not overlap. |
| An import that fails in its second chunk leaves its first in the table and the cache as it was (README "Cache is invalidated on any write"). | `StaleIsExplained`. |
| Two creates of one name: one is answered 500, not the existing profile. | `CreateErrorIsExplained`, `OutageIsGatewayError`. |
| Two uploads in one millisecond share a file (SOLUTION.md "Multiple concurrent uploads are safe"). | `ImportIsWhole`, `FailureIsExplained`, `TempFileGone`: only those. |
| Two racing creations of a user: the second is answered 500, not 409. | `CreationsAgree`. |
| Rows with equal sort values may appear on two pages or on none. | `WalkIsExact`. |
| A probability filter is off by up to 0.005; "over N" includes N. | `ListIsWhatWasAsked`, `SearchIsWhatWasSaid`. |
| "people from isle of man" finds the men of that country only. | `SearchIsWhatWasSaid`: a country's name with a gender's word in it says that gender too. |
| The callback's test code is answered 200 and logged 200, then 500; a list whose client has its body is answered 304 and logged 200. | `LoggedStatusIsAnswered`: nothing else is logged otherwise than answered. |
| A file of the export, sent to the import, has every row's `id` in the place of its name and its name in that of its gender, and is skipped row by row. | `ExportedLineIsReadBack`: the columns are the ones written. |
| A body without the expected field is a 500 of a create and a 200 of a classification. | `OutageIsGatewayError`. |
| A name that mentions a service, like `agify`, decides which service an error blames. | `BlameIsRight`. |

And differences that a comparison of two lines shows: `revokeFamily` reaches one
login of a user, README.md:111 says all; the throttler `auth` admits 11 requests
for each path (`app.module.ts:57`), README.md:122 says 10 for `/auth/*`; a search
and a list of the same filters have different keys, as the search has no defaults
for `sort_by` and `order` (SOLUTION.md:136); `GET /auth/whoami` is public, so
`req.user` is undefined there (README.md:64); inactive users are answered on the
public routes (README.md:112); a missing name is 422 by `isString`, the API
documents say 400; a classification without prediction is 502 where the
controller's description says 422 (`classification.controller.ts:58-61`); a
failed export has been given the type `text/csv` already
(`profiles.controller.ts:136`); SOLUTION.md's list of required fields lacks
`country_name`, which the import requires.

## 4. Proofs

Eight proof modules; every theorem holds for all values of the constants that
satisfy the named assumptions, that is for any number of requests, users, names,
queries, files, clients, services' answers and faults. `ConstantsAssumption` of
each module says that `NONE` and the like are no values, that bounds are numbers
and what form the given inputs have. Beyond that, `CsvImport` assumes finitely
many uploads, as sums over them are taken, and `Upstream` that only Nationalize
answers with countries (`CountriesAssumption`), which is what its type says;
`ProfileQueries` assumes the case of stored texts and which words of the parser a
country term may hold, as said in section 2, and `CsvImport` that no stored text
has a U+FFFD or a line break, which the DTO's pattern and the import's own checks
refuse, and that names in files are trimmed, as `parseCsvLine` returns them
(`TextsAssumption`).

- **AuthSessions.** `TypeCorrect`, `Invariance`; from them `HeldStored`,
  `OneOwner`, `SpentNeverRotates`, `RefreshConsumes`, `DeadFamilies`,
  `SessionsEndForTheirFamily` and `RefusalsAreCollisions`, for any `TokenKinds`. None of the properties is inductive. `Inv` adds what a location
  says about the past of its request (`LocationTellsProgress`), that a row is
  what its request's locals say (`RowIsFromItsRequest`), that the row found is
  the row of the token sent and its copy is still right (`FoundIsRowOfToken`),
  what a request was sent (`PresentedTokenIsHeld`), that spent tokens are kept
  off the rotating path (`SpentStaysOut`) and that replacements come from
  rotations (`ReplacementIsRotation`). One owner per family then follows because
  each row of a family has the user of the login that named the family.
  `RefusalsAreCollisions` adds that a row still `'PENDING'` is one whose request is
  about to store its digest or met a fault (`PendingHasCause`).
- **AuthRotation**, for `SerialSpec`, in `AuthSessionsProofs` too. `SerialInvariance`, `RefusalsAreExplained`,
  `OneTokenWorks`, and the refinement, `RotationIsImplemented`. What is added to
  the `Inv` of any interleaving is `SerialInv`: one request is in flight
  (`OneInFlight`); rows left `'PENDING'` belong to it or to a failed one
  (`AnswersComeLast`); a family has at most one token that works, and none when
  it is over (`CurrentIsAlone`); and a request past its lookup holds that one
  token, or a dead one (`WorkIsOnCurrent`). Without the last, a refresh about to
  revoke could be revoking any row of the family, and the abstract `Refresh`
  would not follow. Each statement then falls under one of three lemmas: it hands
  out a token (`HandingIsHand`), ends a family (`EndingIsEnd`), or only lets
  tokens stop working, which is `Lose` or a stutter (`FadeIsLoss`). The witness
  of `End` is the first token of the family, which a client was given before any
  other row joined (`FamilyIsHeld`).
- **ProfileCache.** `TypeCorrect`, `Invariance`, `OneRowPerName`,
  `StalenessExplained`, `PagesAddUp`, `ImportsAreComplete`,
  `CreateErrorsExplained`, `NotFoundIsTrue`. The strengthening says which locals
  are set where (`LocalsAreSet`), that a list no write overtook has read the
  current table (`UnracedIsCurrent`), that pages it stored add up
  (`UntaintedPageAddsUp`), and that each name of an import is still to be
  flushed, in the table, or was deleted (`ImportProgress`). The last two theorems
  rest on `ClaimsInv`: a create that has looked saw no row of its name among
  those the table began with, and a delete that writes answers with its write or
  a fault (`CreateLooked`).
- **RateLimiter.** `TypeCorrect`, `Invariance`, `AdmittedWithinLimit`,
  `DenialsExplained`. The core is `GoneIsOld`: a checked request stays a member
  of its set until it is `Ttl - MaxDelay` older than every request still to be
  checked; so all requests admitted in one window were counted with the last of
  them. A denied request was counted with members of its key that are rivals, and
  rivals stay rivals. Requests whose reply was lost are in all of this (`Ran`).
- **RequestPipeline.** `TypeCorrect`, `Invariance`, `DecisionsAreCurrent`,
  `CookieWritesAreConfirmed`, `LogsAreTrue`, `ActorsAreLimited`.
  `HistoriesAreCurrent` is the heart of the first property: a change of a row is
  noted for every request not yet decided on, so the row a decision is made from
  is one the history knows. For the limit, `AdmittedAreCounted`: the requests let
  through are among those counted for their key; as the tracker and the strategy
  choose between header and cookie alike, all requests of a user to a path have
  one key. `LogsAreTrue` needs that `interceptorStatus` and `filterStatus` agree
  on everything a handler can throw, a lemma about the two operators, and which
  statuses `Succeed` sends for the one it logged.
- **OAuthLogin.** `TypeCorrect`, `Invariance`, `SessionsAreForTheirAttempts`,
  `DeliveriesAreAsAsked`, `FirstCallbacksLogIn`, `CreationsAlwaysAgree` and the
  action property `RolesSurvive`. `Inv` is a conjunct for each callback:
  its arguments came from the two pages (`ArgumentsFit`), what it read before an
  await is still true after it (`ReadsFit`, `LoginFits`), a deleted state is never
  stored again (`StateIsGone`), and nobody else is near a callback that counts as
  undisturbed (`SoundIsAlone`). Attempts, codes and accounts never change once
  they are there, which is why a stale read does no harm.
- **Upstream.** `TypeCorrect`, `Invariance`, `RowsAreBacked`, `BlameIsDeserved`,
  `OutagesAreGatewayErrors`. A request sends its calls once and the first failure
  ends it (`CallsFollow`), so what a row or an answer was made of never changes
  afterwards; a request that inserts was not refused by `verdict`
  (`InsertsAreClean`), and who made a row is past its insert (`MakersAreDone`).
- **CsvImport.** `TypeCorrect`, `Invariance`, `CountsAlwaysAddUp`,
  `ImportsAreWhole`, `TempFilesGo`, `FailuresAreExplained`,
  `ExportedLinesAreReadBack`. Uploads that share a path are what makes `Inv` large:
  `FilesHaveOnePath` says which file a path leads to, `AloneReadsItsOwn` that an
  upload with a path of its own reads what it wrote, `RowsAreLookedAt` what it
  knows of the rows it has passed, `RowsAreCounted` the sums while rows wait in
  the chunk, `ChunkIsFlushed` that nothing waits at the end, `FailureHasCause`
  the reason of a 500 before it is answered. `ExportedLinesAreReadBack` is
  about `exported` and `parseCsvLine` for texts of any length. A line is put
  together from parts by `FlattenSeq`, and `Joins` says where each part begins
  (`FlattenJoins`). The parser is followed over what a character of a name became
  (`ReadsOne`, `ReadsTwo`), from the quote that opens a name to the one that closes
  it (`Opens`, `QuotedIsRead`, `Closes`), over a column (`CellIsRead`) and the comma
  after it (`RowIsRead`), so that a line has its ten fields (`RowIsParsed`); trimming
  them makes no U+FFFD, which is why the line is not refused (`TrimIsClean`,
  `ReturnedIs`).
- **ProfileQueries.** `TypeCorrect`, `Invariance`, `ExportsAreComplete`,
  `WalksAreExact`, `ListsAreWhatWasAsked`, `SearchesAreWhatWasSaid`. `Inv` says
  that a cached page is one the database could return now (`CacheIsCurrent`, as
  every change empties the cache), how the query of a client came from what it
  asked (`WalkIsOfItsQuery`), and that the pages it has read since the last
  change have no gap between them and are each cut from one of the orders of the
  rows there are (`PagesAreCurrent`). Nothing says it is the same order for all
  of them, and it is not: ties may fall differently for each page. A finished
  walk that a change disturbed is not in `Inv`; `WholeWalk` asks for a steady
  client. The arguments, in the order of the module:
  - what a filter becomes on its way through DTO, normal form and statement:
    texts through lower and upper case (`UpperOfLower`, `LowerOfUpper`),
    probabilities through `Round`, which moves them by -4 to +5 (`RoundIsClose`);
    so the rows selected lie between those wanted strictly and those wanted
    loosely (`SelectedIsWanted`);
  - two orders of one set of rows have equal sort values at each place
    (`OrdersAgree`): if the row at place i of one came after the row at place i
    of the other, the rows from i on in the one and those up to i in the other
    would differ, and be one more than there are. Without ties they are one
    order (`OneOrder`);
  - pages without a gap, cut from such orders, one after the other have the sort
    values of one order from its first row to its last, and the links stop there
    (`PageAppended`, `PagesRead`, `EnoughPages`, `WholeRead`);
  - an export is the first `ExportLimit` positions of one order, so it repeats
    nothing and lacks a row only at its limit (`InvExports`);
  - in a text whose phrases have different subjects each extractor meets one
    phrase (`OnePhrase`), and the condition it leaves says what that phrase means
    (`GenderSaid`, `AgeGroupSaid`, `AgesSaid`, `CountrySaid`); the five together
    say what the text means (`RowMeant`). `CountrySaid` rests on the longest term
    found in a country phrase being the phrase itself (`WordsAssumption`).

Sums (`SumFunctionOnSet`) and the parser's loop are defined by recursion. The
library's induction theorems cannot be instantiated here; the proofs take the
least counterexample instead, which exists because `<` is well-founded on the
naturals (`LeastNumber`, `AllNumbers`), and reach every recursive function as the
limit of those that obey its equation up to a number (`SumExists`,
`ParserStates`).

Model-checked only: liveness (`EveryRequestSettles`), which is out of the prover's
reach, and `ReuseEndsOwnSessions` and `NeverStopsForABadRow`, which are false. Every other
property of a run is a theorem.

What the proofs do not show: that the recognition of words by regular expressions
and the compromise library, which the texts of `ProfileQueries` begin with, is
right, and that what the assumptions say of the services and of stored rows is so.

## 5. Plan

Every safety property and action property the runs check is proved. What would come next
is modelling: several application processes with clocks of their own in
`RateLimiter` and `CsvImport`, a Redis that loses what it acknowledged, and the
recognition of words in front of `ProfileQueries`.

## 6. Not modelled

Start-up and configuration (CORS, Swagger, environment variables, log formats),
beyond the validation pipe and the route prefix, which are in `RequestPipeline`;
of the seed script the parsing of its file (its rows are initial states and the
action `Seed`). How the compromise library and the regular expressions find words
in a text, the text of cache keys, e-mail addresses and other columns that
nothing decides on, the headers of the limiter, the threshold of `is_confident`.
Isolation anomalies within one SQL statement, several application processes with
clocks that differ, and failures of Redis that lose data are outside the model.
