------------------------------- MODULE CsvImport -------------------------------
(***************************************************************************)
(* POST /api/profiles/import: the upload is written to                     *)
(* /tmp/csv-import-<milliseconds>.csv, read back line by line, validated,  *)
(* inserted by chunks and the file removed.  Uploads of one millisecond    *)
(* have one path: opening it truncates the file, removing it leaves those  *)
(* that have it open with the file they opened.  The file system is that   *)
(* of a POSIX system, with files as sequences of lines of equal length.    *)
(***************************************************************************)
EXTENDS Integers, FiniteSets, Sequences, SequencesExt

CONSTANTS
    Upload,
    Names,        \* names of profiles, as texts
    Existing,     \* those in the table beforehand, of other requests than imports
    Countries,    \* names of countries, as texts
    Files,        \* the files clients send: sequences of lines
    CHUNK_SIZE,   \* rows inserted by one statement
    MaxTime,      \* bound: milliseconds
    MaxFaults,    \* bound: failures and crashes
    NONE          \* null

\* The checks of a line in the order of the code; what the database refuses
\* (an age above 2^31 - 1, a text above its length, a NUL) comes after them.
Reasons == <<"malformed_row", "missing_fields", "invalid_gender", "invalid_age",
             "invalid_country">>
Flaw == ToSet(Reasons) \cup {"refused"}
Line == [name : Names \cup {NONE}, flaws : SUBSET Flaw]
BLANK == [name |-> NONE, flaws |-> {"malformed_row"}]
HOLE == [name |-> NONE, flaws |-> {"refused"}]

\* A line without a name fails a check: the header line would, and so does a blank one.
Sent == {l \in Line : l.name = NONE => l.flaws \cap ToSet(Reasons) # {}}
\* The lines that pass all checks.
Checked == {l \in Line : l.name # NONE /\ l.flaws \subseteq {"refused"}}

\* The characters that matter to the parser, and all others; "space" is what trim
\* removes, "broken" is U+FFFD.  No text has a line break: neither a name of the DTO
\* nor a column of a line can.
Text == Seq({"quote", "comma", "space", "broken", "letter"})

\* String.prototype.trim.
trim(text) ==
    LET kept == {i \in DOMAIN text : text[i] # "space"}
    IN  IF kept = {} THEN <<>> ELSE SubSeq(text, Min(kept), Max(kept))

\* No text in the table has a character that both its DTO and the import refuse;
\* what a request other than an import has stored may have spaces around it.
ASSUME TextsAssumption ==
    /\ \A n \in Names \cup Countries : n \in Text /\ \A i \in DOMAIN n : n[i] # "broken"
    /\ \A f \in Files : \A i \in DOMAIN f : f[i].name # NONE => f[i].name = trim(f[i].name)

ASSUME ConstantsAssumption ==
    /\ Existing \subseteq Names /\ IsFiniteSet(Existing)
    /\ \A f \in Files : f \in Seq(Sent)
    /\ IsFiniteSet(Upload)
    /\ CHUNK_SIZE \in Nat \ {0} /\ MaxTime \in Nat \ {0} /\ MaxFaults \in Nat
    /\ NONE \notin Names /\ NONE \notin Upload /\ NONE \notin Nat /\ NONE \notin ToSet(Reasons)

VARIABLES
    profiles,     \* names of the rows of profiles
    disk,         \* content of the file each upload has opened for writing first
    directory,    \* what each path of /tmp leads to, NONE when there is no file
    clock,        \* Date.now()
    file,         \* what a client sends
    pc,           \* where an upload is
    path,         \* the time in its path
    handle,       \* the file it writes or reads
    at,           \* lines written or read
    chunk,        \* the names (and what is refused) gathered for the next statement
    headed,       \* the first line has been skipped
    stats,        \* total_rows, inserted, skipped, reasons
    answer,       \* what the client received
    faults,
    \* histories for the properties
    shared,       \* uploads whose path another upload used while they did
    hit,          \* uploads a fault has hit
    abandoned,    \* those of them that did not come to their finally
    lost          \* rows inserted by statements whose answer was lost

storage == <<profiles, disk, directory>>
reader == <<path, handle, at, chunk, headed, stats>>
history == <<shared, hit, abandoned, lost>>
vars == <<storage, clock, file, pc, reader, answer, faults, history>>

Counted == ToSet(Reasons) \cup {"duplicate_name"}
NoStats == [total_rows |-> 0, inserted |-> 0, skipped |-> 0,
            reasons |-> [r \in Counted |-> 0]]
Live(u) == pc[u] \notin {"idle", "done"}

-----------------------------------------------------------------------------
(* parseCsvLine, over the characters that matter to it. *)

\* Slip: a doubled quote closes and opens again.
closesOnly(line, i) == FALSE

\* The quote at i is the first of two in a quoted field.
isEscape(line, i) == i < Len(line) /\ line[i + 1] = "quote"

\* The loop begins with one open field, which is the last one all through; inside
\* quotes or not; whether the next character was consumed with the one before.
Start == [fields |-> << <<>> >>, inQuotes |-> FALSE, skip |-> FALSE]
Push(fields, c) == [fields EXCEPT ![Len(fields)] = Append(fields[Len(fields)], c)]

\* The state after character i, when s is the one before it.
Advance(line, i, s) ==
    CASE s.skip -> [s EXCEPT !.skip = FALSE]
      [] ~s.skip /\ line[i] = "quote" /\ s.inQuotes /\ isEscape(line, i) ->
            [s EXCEPT !.fields = Push(s.fields, "quote"), !.skip = TRUE]
      [] ~s.skip /\ line[i] = "quote" /\ ~(s.inQuotes /\ isEscape(line, i)) ->
            [s EXCEPT !.inQuotes = ~s.inQuotes]
      [] ~s.skip /\ line[i] = "comma" /\ ~s.inQuotes ->
            [s EXCEPT !.fields = Append(s.fields, <<>>)]
      [] OTHER -> [s EXCEPT !.fields = Push(s.fields, line[i])]

\* The columns of a line, or null.
parseCsvLine(line) ==
    LET state[i \in 0 .. Len(line)] == IF i = 0 THEN Start ELSE Advance(line, i, state[i - 1])
        fields == state[Len(line)].fields
        columns == [k \in DOMAIN fields |-> trim(fields[k])]
    IN  IF Len(columns) < 5 \/ \E k \in DOMAIN columns : "broken" \in ToSet(columns[k])
          THEN NONE ELSE columns

\* Quoting in the export: `"${name.replace(/"/g, '""')}"`.
quoted(name) ==
    <<"quote">> \o FlattenSeq([i \in DOMAIN name |->
        IF name[i] = "quote" THEN <<"quote", "quote">> ELSE <<name[i]>>]) \o <<"quote">>

\* The ten columns of a profile in an export, of which the second and the eighth
\* are texts; the others hold no character that matters.
Plain == <<"letter">>
Stored(name, country) ==
    <<Plain, name, Plain, Plain, Plain, Plain, Plain, country, Plain, Plain>>
written(name, country) ==
    <<Plain, quoted(name), Plain, Plain, Plain, Plain, Plain, quoted(country), Plain, Plain>>

\* Its line: the columns joined by commas.
exported(name, country) ==
    FlattenSeq([k \in 1 .. 10 |-> IF k = 1 THEN written(name, country)[1]
                                  ELSE <<"comma">> \o written(name, country)[k]])

\* What the reader makes of the lines there may be.
ReadBack == [name \in Names |-> [country \in Countries |-> parseCsvLine(exported(name, country))]]

-----------------------------------------------------------------------------
Time == 1 .. MaxTime + MaxFaults
Location == {"idle", "write", "open", "read", "flush", "last", "invalidate",
             "succeeded", "failed", "done"}
Stats == [total_rows : Nat, inserted : Nat, skipped : Nat, reasons : [Counted -> Nat]]

TypeOK ==
    /\ profiles \subseteq Names /\ IsFiniteSet(profiles)
    /\ disk \in [Upload -> Seq(Sent \cup {HOLE})]
    /\ directory \in [Time -> Upload \cup {NONE}]
    /\ clock \in Time /\ clock <= MaxTime + faults
    /\ file \in [Upload -> Files]
    /\ pc \in [Upload -> Location]
    /\ path \in [Upload -> Time \cup {0}]
    /\ handle \in [Upload -> Upload]
    /\ at \in [Upload -> Nat]
    /\ chunk \in [Upload -> Seq(Checked)] /\ \A u \in Upload : Len(chunk[u]) <= CHUNK_SIZE
    /\ headed \in [Upload -> BOOLEAN]
    /\ stats \in [Upload -> Stats]
    /\ answer \in [Upload -> {NONE, 0, 201, 500}]
    /\ \A u \in Upload : pc[u] = "done" <=> answer[u] # NONE
    /\ faults \in 0 .. MaxFaults
    /\ shared \subseteq Upload /\ hit \subseteq Upload /\ abandoned \subseteq hit /\ lost \in Nat

Init ==
    /\ profiles = Existing /\ clock = 1 /\ faults = 0
    /\ disk = [u \in Upload |-> <<>>]
    /\ directory = [t \in Time |-> NONE]
    /\ file \in [Upload -> Files]
    /\ pc = [u \in Upload |-> "idle"]
    /\ path = [u \in Upload |-> 0] /\ handle = [u \in Upload |-> u]
    /\ at = [u \in Upload |-> 0] /\ chunk = [u \in Upload |-> <<>>]
    /\ headed = [u \in Upload |-> FALSE] /\ stats = [u \in Upload |-> NoStats]
    /\ answer = [u \in Upload |-> NONE]
    /\ shared = {} /\ hit = {} /\ abandoned = {} /\ lost = 0

Goto(u, location) == pc' = [pc EXCEPT ![u] = location]

Tick ==
    /\ clock < MaxTime /\ clock' = clock + 1
    /\ UNCHANGED <<storage, file, pc, reader, answer, faults, history>>

\* diskStorage names the file and opens it: a file that is there is truncated.
OpenToWrite(u) ==
    /\ pc[u] = "idle"
    /\ Goto(u, "write")
    /\ path' = [path EXCEPT ![u] = clock]
    /\ LET there == directory[clock]
           opened == IF there = NONE THEN u ELSE there
           others == {v \in Upload : Live(v) /\ path[v] = clock}
       IN  /\ handle' = [handle EXCEPT ![u] = opened]
           /\ disk' = [disk EXCEPT ![opened] = <<>>]
           /\ directory' = [directory EXCEPT ![clock] = opened]
           /\ shared' = IF others # {} THEN shared \cup others \cup {u} ELSE shared
    /\ UNCHANGED <<profiles, clock, file, at, chunk, headed, stats, answer, faults, hit,
                   abandoned, lost>>

\* A line at the writer's own offset, after a hole when the file has become shorter.
Written(content, k, line) ==
    [i \in 1 .. (IF Len(content) > k THEN Len(content) ELSE k) |->
        IF i = k THEN line ELSE IF i <= Len(content) THEN content[i] ELSE HOLE]

Write(u) ==
    /\ pc[u] = "write" /\ at[u] < Len(file[u])
    /\ at' = [at EXCEPT ![u] = @ + 1]
    /\ disk' = [disk EXCEPT ![handle[u]] = Written(@, at[u] + 1, file[u][at[u] + 1])]
    /\ UNCHANGED <<profiles, directory, clock, file, pc, path, handle, chunk, headed,
                   stats, answer, faults, history>>

WriteEnds(u) ==
    /\ pc[u] = "write" /\ at[u] = Len(file[u])
    /\ Goto(u, "open")
    /\ UNCHANGED <<storage, clock, file, reader, answer, faults, history>>

\* createReadStream: by path, when another upload may have removed or replaced it.
OpenToRead(u) ==
    /\ pc[u] = "open" /\ directory[path[u]] # NONE
    /\ Goto(u, "read")
    /\ handle' = [handle EXCEPT ![u] = directory[path[u]]]
    /\ at' = [at EXCEPT ![u] = 0]
    /\ UNCHANGED <<storage, clock, file, path, chunk, headed, stats, answer, faults, history>>

\* The file is gone, and the loop over its lines throws.
Missing(u) ==
    /\ pc[u] = "open" /\ directory[path[u]] = NONE
    /\ Goto(u, "failed")
    /\ UNCHANGED <<storage, clock, file, reader, answer, faults, history>>

\* The first check a line fails.
reason(line) ==
    LET failed == {i \in 1 .. 5 : Reasons[i] \in line.flaws}
    IN  IF failed = {} THEN NONE ELSE Reasons[CHOOSE i \in failed : \A j \in failed : i <= j]

Bump(s, r, n) == [s EXCEPT !.skipped = @ + n, !.reasons[r] = @ + n]

\* A hole has no line end: it belongs to the line after it, in its first field.
NextLine(content, from) ==
    LET to == CHOOSE i \in from .. Len(content) : /\ content[i] # HOLE
                                                  /\ \A j \in from .. i - 1 : content[j] = HOLE
    IN  [line |-> IF to = from THEN content[to]
                  ELSE [content[to] EXCEPT !.flaws = @ \cup {"refused"}],
         to |-> to]

\* Slip: one row too many.
overfull(u) == Len(chunk[u]) >= CHUNK_SIZE

\* The chunk is full with the row that is being added.
full(u) == Len(chunk[u]) + 1 >= CHUNK_SIZE

\* One turn of the loop.
ReadLine(u) ==
    /\ pc[u] = "read" /\ at[u] < Len(disk[handle[u]])
    /\ LET next == NextLine(disk[handle[u]], at[u] + 1)
           line == next.line
           why == reason(line)
           s == [stats[u] EXCEPT !.total_rows = @ + 1]
       IN  /\ at' = [at EXCEPT ![u] = next.to]
           /\ IF line = BLANK THEN UNCHANGED <<headed, stats, chunk, pc>>
              ELSE IF ~headed[u]
                THEN headed' = [headed EXCEPT ![u] = TRUE] /\ UNCHANGED <<stats, chunk, pc>>
              ELSE IF why # NONE
                THEN /\ stats' = [stats EXCEPT ![u] = Bump(s, why, 1)]
                     /\ UNCHANGED <<headed, chunk, pc>>
              ELSE /\ stats' = [stats EXCEPT ![u] = s]
                   /\ chunk' = [chunk EXCEPT ![u] = Append(@, line)]
                   /\ IF full(u) THEN Goto(u, "flush") ELSE UNCHANGED pc
                   /\ UNCHANGED headed
    /\ UNCHANGED <<storage, clock, file, path, handle, answer, faults, history>>

\* Slip: what is left at the end is not flushed.
DropTheRest(u) ==
    /\ pc[u] = "read" /\ at[u] >= Len(disk[handle[u]])
    /\ Goto(u, "invalidate")
    /\ UNCHANGED <<storage, clock, file, reader, answer, faults, history>>

ReadEnds(u) ==
    /\ pc[u] = "read" /\ at[u] >= Len(disk[handle[u]])
    /\ Goto(u, IF chunk[u] # <<>> THEN "last" ELSE "invalidate")
    /\ UNCHANGED <<storage, clock, file, reader, answer, faults, history>>

\* Slip: all rows of the chunk count as inserted.
attempted(u) == Len(chunk[u])

\* count of createMany: the names that are new, each once.
count(u) == Cardinality({chunk[u][i].name : i \in DOMAIN chunk[u]} \ profiles)

\* Slip: without skipDuplicates.
allNew(u) == count(u) = Len(chunk[u])

\* One statement: with a row the database refuses, none of the chunk.
Accepted(u) == \A i \in DOMAIN chunk[u] : "refused" \notin chunk[u][i].flaws

FlushChunk(u) ==
    /\ pc[u] \in {"flush", "last"}
    /\ IF Accepted(u)
         THEN /\ profiles' = profiles \cup {chunk[u][i].name : i \in DOMAIN chunk[u]}
              /\ stats' = [stats EXCEPT ![u] =
                     Bump([stats[u] EXCEPT !.inserted = @ + count(u)],
                          "duplicate_name", Len(chunk[u]) - count(u))]
              /\ chunk' = [chunk EXCEPT ![u] = <<>>]
              /\ Goto(u, IF pc[u] = "last" THEN "invalidate" ELSE "read")
         ELSE Goto(u, "failed") /\ UNCHANGED <<profiles, stats, chunk>>
    /\ UNCHANGED <<disk, directory, clock, file, path, handle, at, headed, answer,
                   faults, history>>

\* invalidateQueryCache; ProfileCache.tla is about the cache.
Invalidate(u) ==
    /\ pc[u] = "invalidate"
    /\ Goto(u, "succeeded")
    /\ UNCHANGED <<storage, clock, file, reader, answer, faults, history>>

\* Slip: the file is removed after success only.
keptAfterFailure(u) ==
    IF pc[u] = "failed" THEN directory ELSE [directory EXCEPT ![path[u]] = NONE]

withoutFile(u) == [directory EXCEPT ![path[u]] = NONE]

\* finally: unlink by path, whoever's file that is by now; then the answer.
Unlink(u) ==
    /\ pc[u] \in {"succeeded", "failed"}
    /\ directory' = withoutFile(u)
    /\ Goto(u, "done")
    /\ answer' = [answer EXCEPT ![u] = IF pc[u] = "succeeded" THEN 201 ELSE 500]
    /\ UNCHANGED <<profiles, disk, clock, file, reader, faults, history>>

Fault(u) == faults < MaxFaults /\ faults' = faults + 1 /\ hit' = hit \cup {u}

\* The client goes away, or the disk is full: multer leaves what it has written.
WriteFails(u) ==
    /\ pc[u] = "write" /\ Fault(u)
    /\ Goto(u, "done") /\ answer' = [answer EXCEPT ![u] = 500]
    /\ abandoned' = abandoned \cup {u}
    /\ UNCHANGED <<storage, clock, file, reader, shared, lost>>

\* The database fails before or after it has executed the statement.
FlushFails(u) ==
    /\ pc[u] \in {"flush", "last"} /\ Fault(u)
    /\ Goto(u, "failed")
    /\ \/ UNCHANGED <<profiles, lost>>
       \/ /\ Accepted(u)
          /\ profiles' = profiles \cup {chunk[u][i].name : i \in DOMAIN chunk[u]}
          /\ lost' = lost + count(u)
    /\ UNCHANGED <<disk, directory, clock, file, reader, answer, shared, abandoned>>

InvalidateFails(u) ==
    /\ pc[u] = "invalidate" /\ Fault(u)
    /\ Goto(u, "failed")
    /\ UNCHANGED <<storage, clock, file, reader, answer, shared, abandoned, lost>>

\* The process dies and starts again, at a later time.
Crash ==
    LET live == {u \in Upload : Live(u)}
    IN  /\ live # {} /\ faults < MaxFaults /\ faults' = faults + 1
        /\ hit' = hit \cup live /\ abandoned' = abandoned \cup live
        /\ pc' = [u \in Upload |-> IF u \in live THEN "done" ELSE pc[u]]
        /\ answer' = [u \in Upload |-> IF u \in live THEN 0 ELSE answer[u]]
        /\ clock' = clock + 1
        /\ UNCHANGED <<storage, file, reader, shared, lost>>

Next ==
    \/ Tick \/ Crash
    \/ \E u \in Upload :
          \/ OpenToWrite(u) \/ Write(u) \/ WriteEnds(u) \/ OpenToRead(u) \/ Missing(u)
          \/ ReadLine(u) \/ ReadEnds(u) \/ FlushChunk(u) \/ Invalidate(u) \/ Unlink(u)
          \/ WriteFails(u) \/ FlushFails(u) \/ InvalidateFails(u)

Spec == Init /\ [][Next]_vars

-----------------------------------------------------------------------------
(* Safety. *)

Succeeded(u) == answer[u] = 201
\* The rows of a file: the lines that are not blank, without the first of them.
Rows(f) == {i \in DOMAIN f : f[i] # BLANK /\ \E j \in 1 .. i - 1 : f[j] # BLANK}

\* ImportResult of a successful import: every row was inserted or skipped, and
\* every skipped row has its reason, also when uploads share their file.  And
\* what all uploads report as inserted is what the table has gained, whichever
\* of two concurrent uploads brings a name first (SOLUTION.md "skipDuplicates"),
\* but for the statements whose answer was lost.
CountsAddUp ==
    /\ \A u \in Upload : Succeeded(u) =>
        /\ stats[u].total_rows = stats[u].inserted + stats[u].skipped
        /\ stats[u].skipped = SumFunctionOnSet(stats[u].reasons, Counted)
    /\ SumFunctionOnSet([u \in Upload |-> stats[u].inserted], Upload) + lost
       = Cardinality(profiles) - Cardinality(Existing)

\* SOLUTION.md "Partial failure behaviour": an upload that is alone on its path
\* and succeeds - the first one or one that is run again after a crash - has
\* looked at every row of its file, and all good rows are in the table then.
ImportIsWhole ==
    \A u \in Upload : Succeeded(u) /\ u \notin shared =>
        LET rows == Rows(file[u])
        IN  /\ stats[u].total_rows = Cardinality(rows)
            /\ \A i \in rows : file[u][i].flaws = {} => file[u][i].name \in profiles
            /\ \A r \in ToSet(Reasons) :
                  stats[u].reasons[r] >= Cardinality({i \in rows : file[u][i].flaws = {r}})

\* No file stays in /tmp but those of uploads under way, of uploads broken off
\* while they were written and of a crash: a statement or an invalidation that
\* fails leaves none.
TempFileGone ==
    \A t \in DOMAIN directory : directory[t] # NONE =>
        \E u \in Upload : path[u] = t /\ (Live(u) \/ u \in abandoned)

\* An import fails for a fault, for another upload on its path, or for a row that
\* passes the checks of the code and is refused by the database.
FailureIsExplained ==
    \A u \in Upload : answer[u] = 500 =>
        \/ u \in hit \cup shared
        \/ \E i \in DOMAIN file[u] : file[u][i].flaws = {"refused"}

\* Whatever names of people and of countries are in the table, a line of the export
\* read by the CSV reader of this code has its ten columns, each of them what is
\* stored but for the spaces around it: no quote or comma in a name moves a column.
ExportedLineIsReadBack ==
    \A name \in profiles, country \in Countries :
        ReadBack[name][country] = [k \in 1 .. 10 |-> trim(Stored(name, country)[k])]

\* SOLUTION.md "Validation": "The upload never stops for a single bad row."
NeverStopsForABadRow == \A u \in Upload : answer[u] = 500 => u \in hit \cup shared

-----------------------------------------------------------------------------
(* The inductive invariant behind the safety properties. *)

\* A path leads to the file first opened under it, and so do those that have it
\* open; what has a file has a last line that somebody has written.
FilesHaveOnePath ==
    /\ \A t \in Time : directory[t] # NONE => path[directory[t]] = t
    /\ \A u \in Upload :
         /\ pc[u] = "idle" <=> path[u] = 0
         /\ pc[u] # "idle" => path[handle[u]] = path[u]
         /\ pc[u] = "idle" => u \notin hit \cup shared
         /\ disk[u] # <<>> => disk[u][Len(disk[u])] # HOLE

\* Nothing is counted before the first line is read; the chunk never overflows
\* and is empty at the end.
Finished(u) == pc[u] \in {"invalidate", "succeeded"} \/ answer[u] = 201
ChunkIsFlushed ==
    \A u \in Upload :
        /\ pc[u] = "idle" => at[u] = 0
        /\ pc[u] \in {"idle", "write", "open"} =>
             chunk[u] = <<>> /\ ~headed[u] /\ stats[u] = NoStats
        /\ pc[u] = "read" => Len(chunk[u]) < CHUNK_SIZE
        /\ Finished(u) => chunk[u] = <<>>

\* An upload that is alone on its path reads what it has written.
AloneReadsItsOwn ==
    \A u \in Upload : Live(u) /\ u \notin shared =>
        /\ \A v \in Upload \ {u} : Live(v) => path[v] # path[u]
        /\ directory[path[u]] = handle[u]
        /\ pc[u] = "write" => /\ at[u] <= Len(file[u])
                              /\ disk[handle[u]] = SubSeq(file[u], 1, at[u])
        /\ pc[u] \in {"open", "read", "flush", "last"} => disk[handle[u]] = file[u]

\* The sums of CountsAddUp, while the rows in the chunk wait for their statement.
RowsAreCounted ==
    /\ \A u \in Upload :
         /\ stats[u].total_rows = stats[u].inserted + stats[u].skipped + Len(chunk[u])
         /\ stats[u].skipped = SumFunctionOnSet(stats[u].reasons, Counted)
    /\ SumFunctionOnSet([u \in Upload |-> stats[u].inserted], Upload) + lost
       = Cardinality(profiles) - Cardinality(Existing)

\* The rows of its file that an upload has looked at, and what it knows of them.
Seen(u) == {i \in Rows(file[u]) : i <= at[u]}
LookedAt(u) ==
    /\ at[u] <= Len(file[u])
    /\ headed[u] <=> \E j \in 1 .. at[u] : file[u][j] # BLANK
    /\ stats[u].total_rows = Cardinality(Seen(u))
    /\ \A i \in Seen(u) : file[u][i].flaws = {} =>
         \/ file[u][i].name \in profiles
         \/ \E j \in DOMAIN chunk[u] : chunk[u][j] = file[u][i]
    /\ \A r \in ToSet(Reasons) :
         stats[u].reasons[r] >= Cardinality({i \in Seen(u) : file[u][i].flaws = {r}})
    /\ \A j \in DOMAIN chunk[u] : \E i \in DOMAIN file[u] : chunk[u][j] = file[u][i]
RowsAreLookedAt ==
    \A u \in Upload \ shared :
        /\ pc[u] \in {"read", "flush", "last"} \/ Finished(u) => LookedAt(u)
        /\ pc[u] = "last" \/ Finished(u) => at[u] = Len(file[u])

\* What an import that is about to answer 500 has met.
RefusedRow(f) == \E i \in DOMAIN f : f[i].flaws = {"refused"}
FailureHasCause ==
    \A u \in Upload : pc[u] = "failed" \/ answer[u] = 500 =>
        u \in hit \cup shared \/ RefusedRow(file[u])

Inv ==
    /\ FilesHaveOnePath /\ ChunkIsFlushed /\ AloneReadsItsOwn /\ RowsAreCounted
    /\ RowsAreLookedAt /\ FailureHasCause /\ TempFileGone
================================================================================
