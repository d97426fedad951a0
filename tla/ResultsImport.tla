----------------------------- MODULE ResultsImport -----------------------------
(***************************************************************************)
(* The import of the results of one player category                        *)
(* (apps/data-aftt-importer/src/aftt-data-results-list).                   *)
(*                                                                         *)
(* Every night a job is queued.  It downloads the federation's export,     *)
(* compares it with the last logged import and takes its lines in chunks:  *)
(* it stages a chunk, writes the competitions that the chunk names, and    *)
(* merges its results in batches; each of these statements commits by      *)
(* itself.  If a result changed it empties the API's caches; it logs the   *)
(* import.  A job that throws, or whose process dies, is tried again and   *)
(* downloads again.                                                        *)
(***************************************************************************)
EXTENDS Naturals, Sequences

CONSTANTS
    Rows,       \* identifiers of results
    Values,     \* contents of a result
    Absent,     \* of a row that is not in its table
    Competitions,   \* identifiers of competitions
    CompetitionOf,  \* the competition of a result's contents
    Types,      \* tournament, championship: what the API shows of them
    Versions,   \* the exports the federation serves, one after the other
    Chunk,      \* lines staged together (RESULTS_STAGE_CHUNK_SIZE)
    Batch,      \* lines merged by one statement (RESULTS_BATCH_SIZE)
    Attempts,   \* attempts of a job (3)
    MaxFaults   \* bound: attempts that throw or die, and errors of the cache

(* An export has a date, 0 if it cannot be parsed, and lines. *)
Line   == [row : Rows, value : Values, type : Types]
Export == [date : Nat, lines : Seq(Line)]

ASSUME VersionsAssumption ==
    /\ Versions \in Seq(Export)
    /\ Versions # <<>> /\ \A v \in DOMAIN Versions : Versions[v].lines # <<>>
ASSUME AbsentAssumption == Absent \notin Values
ASSUME CompetitionsAssumption == CompetitionOf \in [Values -> Competitions]
ASSUME BoundsAssumption ==
    /\ Chunk \in Nat \ {0} /\ Batch \in Nat \ {0}
    /\ Attempts \in Nat \ {0} /\ MaxFaults \in Nat

VARIABLES
    feed,         \* the version served now
    known,        \* the rows whose players are both in Member
    table,        \* IndividualResult
    competitions, \* Competition: the type of each
    log,          \* the newest DataImport: date, hashed lines, line count
    cached,       \* what the API's caches show: {} or {what the tables showed}
    job,          \* "none", "waiting" or "running"
    tries,        \* attempts the job has left
    pc,           \* where the attempt is: one of Places
    file,         \* the version downloaded
    next,         \* the next line to merge
    staged,       \* the last line of the chunk that is staged
    skipped,      \* the lines that append mode skips
    changed,      \* has this attempt changed a row of the table?
    retyped,      \* history: has it changed a competition that is shown?
    outcome,      \* history: how the last job ended
    dropped,      \* history: rows merged without their players, and not since
    unlogged,     \* history: rows changed by attempts that logged no import since
    uncleaned,    \* history: why changes were not followed by an emptying
    faults        \* history: what has failed so far

world   == <<feed, known>>
place   == <<file, next, staged, skipped, changed, retyped>>
attempt == <<pc, place>>
tables  == <<table, competitions>>
history == <<outcome, dropped, unlogged, uncleaned>>
vars    == <<world, tables, log, cached, job, tries, attempt, history, faults>>

Lines == Versions[file].lines
Date  == Versions[file].date
Places == {"idle", "download", "check", "skip", "stage", "merge", "clean", "log"}

(* What an answer made from rows and types shows: results, and of each the *)
(* type of its competition.                                                *)
Shown(rows, types) ==
    [r \in Rows |-> IF rows[r] = Absent THEN Absent
                    ELSE <<rows[r], types[CompetitionOf[rows[r]]]>>]
ShownNow == Shown(table, competitions)
Import == [date : Nat, lines : Seq(Line), count : Nat]

TypeOK ==
    /\ feed \in DOMAIN Versions /\ file \in DOMAIN Versions
    /\ known \in SUBSET Rows
    /\ table \in [Rows -> Values \cup {Absent}]
    /\ competitions \in [Competitions -> Types \cup {Absent}]
    /\ log \in Import
    /\ cached \in SUBSET [Rows -> (Values \X (Types \cup {Absent})) \cup {Absent}]
    /\ job \in {"none", "waiting", "running"}
    /\ tries \in 0..Attempts
    /\ pc \in Places
    /\ next \in Nat /\ staged \in Nat /\ skipped \in Nat
    /\ changed \in BOOLEAN /\ retyped \in BOOLEAN
    /\ uncleaned \in SUBSET {"interrupted", "swallowed", "uncounted"}
    /\ outcome \in {"none", "done", "skipped", "failed"}
    /\ dropped \in SUBSET Rows /\ unlogged \in SUBSET Rows
    /\ faults \in 0..MaxFaults

Init ==
    /\ feed = 1 /\ file = 1
    /\ known \in SUBSET Rows
    /\ table = [r \in Rows |-> Absent]
    /\ competitions = [c \in Competitions |-> Absent]
    /\ log = [date |-> 0, lines |-> <<>>, count |-> 0]
    /\ cached = {}
    /\ job = "none" /\ tries = 0
    /\ pc = "idle" /\ next = 1 /\ staged = 0 /\ skipped = 0
    /\ changed = FALSE /\ retyped = FALSE
    /\ outcome = "none"
    /\ dropped = {} /\ unlogged = {} /\ uncleaned = {}
    /\ faults = 0

-------------------------------------------------------------------------------
(* The world around the import.                                            *)

(* The federation serves its next export. *)
Serve ==
    /\ feed < Len(Versions)
    /\ feed' = feed + 1
    /\ UNCHANGED <<known, tables, log, cached, job, tries, attempt, history, faults>>

(* The members import brings the players of a result. *)
Join(r) ==
    /\ r \in Rows \ known
    /\ known' = known \cup {r}
    /\ UNCHANGED <<feed, tables, log, cached, job, tries, attempt, history, faults>>

(* The API answers from the table and caches the answer until it expires. *)
Answer ==
    /\ cached = {}
    /\ cached' = {ShownNow}
    /\ UNCHANGED <<world, tables, log, job, tries, attempt, history, faults>>

Expire ==
    /\ cached # {}
    /\ cached' = {}
    /\ UNCHANGED <<world, tables, log, job, tries, attempt, history, faults>>

(* The cron adds a job when the queue has nothing to do. *)
Enqueue ==
    /\ job = "none"
    /\ job' = "waiting"
    /\ tries' = Attempts
    /\ UNCHANGED <<world, tables, log, cached, attempt, history, faults>>

-------------------------------------------------------------------------------
(* One attempt of the job.                                                 *)

Start ==
    /\ job = "waiting"
    /\ job' = "running"
    /\ tries' = tries - 1
    /\ pc' = "download"
    /\ UNCHANGED <<world, tables, log, cached, place, history, faults>>

(* prepareResultFile *)
Download ==
    /\ pc = "download"
    /\ file' = feed
    /\ changed' = FALSE /\ retyped' = FALSE
    /\ pc' = "check"
    /\ UNCHANGED <<world, tables, log, cached, job, tries, next, staged, skipped>>
    /\ UNCHANGED <<history, faults>>

(* getLastImportAndCheckShouldProcess; a date of 0 is a missing one. *)
Newer == Date = 0 \/ log.date = 0 \/ Date > log.date

(* checkIfRecordsAppendedAtEnd: the last import is a prefix of the file,   *)
(* and no other line is in the table.  Mutant: the file is longer.         *)
AppendedByLength == log.count > 0 /\ Len(Lines) > log.count
Appended ==
    /\ log.count > 0 /\ Len(Lines) > log.count
    /\ SubSeq(Lines, 1, log.count) = log.lines
    /\ \A n \in log.count + 1 .. Len(Lines) : table[Lines[n].row] = Absent

Check ==
    /\ pc = "check"
    /\ IF Newer /\ Lines # log.lines
       THEN /\ skipped' = IF Appended THEN log.count ELSE 0
            /\ next' = skipped' + 1
            /\ pc' = "stage"
       ELSE pc' = "skip" /\ UNCHANGED <<skipped, next>>
    /\ UNCHANGED <<world, tables, log, cached, job, tries, file, staged>>
    /\ UNCHANGED <<changed, retyped, history, faults>>

(* prepareDedupedResultsStage: of the lines staged up to one, the last of  *)
(* each row is kept.                                                       *)
Kept(n, to) == \A k \in n + 1 .. to : Lines[k].row # Lines[n].row

(* The kept lines of the next chunk that name a competition.               *)
ChunkEnd == IF next + Chunk - 1 < Len(Lines) THEN next + Chunk - 1 ELSE Len(Lines)
Naming(c) ==
    {n \in next .. ChunkEnd : Kept(n, ChunkEnd) /\ CompetitionOf[Lines[n].value] = c}

(* upsertCompetitionsFromStage: the last kept line of a competition says   *)
(* what it is.  What changes is not counted.                               *)
UpsertCompetitions ==
    LET types == [c \in Competitions |->
                     IF Naming(c) = {} THEN competitions[c]
                     ELSE Lines[CHOOSE n \in Naming(c) : \A k \in Naming(c) : k <= n].type]
    IN  /\ pc = "stage"
        /\ competitions' = types
        /\ retyped' = (retyped \/ Shown(table, types) # ShownNow)
        /\ staged' = ChunkEnd
        /\ pc' = "merge"
        /\ UNCHANGED <<world, table, log, cached, job, tries, file, next, skipped>>
        /\ UNCHANGED <<changed, history, faults>>

(* The kept lines of the next batch of the chunk, and their rows. *)
BatchEnd == IF next + Batch - 1 < staged THEN next + Batch - 1 ELSE staged
BatchLines == {n \in next .. BatchEnd : Kept(n, staged)}
BatchRows  == {Lines[n].row : n \in BatchLines}
LineOf(r)  == CHOOSE n \in BatchLines : Lines[n].row = r

(* Where the import goes after the last line: it counts the results that   *)
(* changed, and nothing else.  Mutant: to the log, whatever has changed.   *)
AfterMergeNoClean(rows) == "log"
AfterMerge(rows) == IF changed \/ rows # table THEN "clean" ELSE "log"

(* mergeResultBatch: one statement joins the lines to their players and    *)
(* upserts what differs.                                                   *)
Merge ==
    LET rows == [r \in Rows |-> IF r \in BatchRows \cap known
                                THEN Lines[LineOf(r)].value ELSE table[r]]
        counted == changed \/ rows # table
    IN  /\ pc = "merge"
        /\ table' = rows
        /\ changed' = counted
        /\ dropped' = (dropped \ BatchRows) \cup (BatchRows \ known)
        /\ unlogged' = unlogged \cup {r \in Rows : rows[r] # table[r]}
        /\ next' = BatchEnd + 1
        /\ pc' = IF BatchEnd = Len(Lines) THEN AfterMerge(rows)
                 ELSE IF BatchEnd = staged THEN "stage" ELSE "merge"
        /\ uncleaned' = IF BatchEnd = Len(Lines) /\ retyped /\ ~counted
                        THEN uncleaned \cup {"uncounted"} ELSE uncleaned
        /\ UNCHANGED <<world, competitions, log, cached, job, tries, file, staged>>
        /\ UNCHANGED <<skipped, retyped, outcome, faults>>

(* invalidateCaches; cleanKeys swallows an error of the cache. *)
Clean(swallowed) ==
    /\ pc = "clean"
    /\ IF swallowed
       THEN /\ faults < MaxFaults
            /\ faults' = faults + 1
            /\ uncleaned' = uncleaned \cup {"swallowed"}
            /\ UNCHANGED cached
       ELSE cached' = {} /\ uncleaned' = {} /\ UNCHANGED faults
    /\ pc' = "log"
    /\ UNCHANGED <<world, tables, log, job, tries, place>>
    /\ UNCHANGED <<outcome, dropped, unlogged>>

(* The attempt is over; the queue has another one or gives the job up. *)
TriesLeft == tries > 0

GiveBack ==
    /\ job' = IF TriesLeft THEN "waiting" ELSE "none"
    /\ outcome' = IF TriesLeft THEN outcome ELSE "failed"
    /\ pc' = "idle"
    /\ faults < MaxFaults
    /\ faults' = faults + 1

MergedRows == {Lines[n].row : n \in skipped + 1 .. Len(Lines)}

(* storeImport, and the job is done; or its insert throws although the     *)
(* row is there.                                                           *)
StoreImport(lost) ==
    /\ pc \in {"skip", "log"}
    /\ log' = [date |-> Date, lines |-> Lines,
               count |-> IF pc = "skip" THEN 0 ELSE Len(Lines)]
    /\ unlogged' = IF pc = "log" THEN unlogged \ MergedRows ELSE unlogged
    /\ IF lost THEN GiveBack
       ELSE /\ job' = "none"
            /\ outcome' = IF pc = "skip" THEN "skipped" ELSE "done"
            /\ pc' = "idle"
            /\ UNCHANGED faults
    /\ UNCHANGED <<world, tables, cached, tries, place>>
    /\ UNCHANGED <<dropped, uncleaned>>

(* A step throws, with or without its effect, or the process dies. *)
Fail ==
    /\ pc # "idle"
    /\ GiveBack
    /\ uncleaned' = IF (changed \/ retyped) /\ pc \in {"stage", "merge", "clean"}
                    THEN uncleaned \cup {"interrupted"} ELSE uncleaned
    /\ UNCHANGED <<world, tables, log, cached, tries, place>>
    /\ UNCHANGED <<dropped, unlogged>>

-------------------------------------------------------------------------------
Attempt ==
    \/ Start \/ Download \/ Check \/ UpsertCompetitions \/ Merge
    \/ Clean(FALSE) \/ StoreImport(FALSE)

World == Serve \/ (\E r \in Rows : Join(r)) \/ Answer \/ Expire

Next == World \/ Enqueue \/ Attempt \/ Clean(TRUE) \/ StoreImport(TRUE) \/ Fail

Spec == Init /\ [][Next]_vars

(* The cron comes back every night, and attempts go on unless they fail.   *)
FairSpec == Spec /\ WF_vars(Enqueue) /\ WF_vars(Attempt)

-------------------------------------------------------------------------------
(* Properties.                                                             *)

Content(v, r) ==
    LET ls == Versions[v].lines
        last == CHOOSE n \in DOMAIN ls :
                    ls[n].row = r /\ \A k \in n + 1 .. Len(ls) : ls[k].row # r
    IN  ls[last].value

Agrees(v) ==
    \A n \in DOMAIN Versions[v].lines :
        LET r == Versions[v].lines[n].row
        IN  r \in known \ (dropped \cup unlogged) => table[r] = Content(v, r)

(* Whatever attempts died half way, a job that ends well leaves the table  *)
(* as its file says, whether it merged the whole file or its end only.     *)
(* The exceptions have causes, and only append mode leaves them: a row     *)
(* whose players were unknown when it was merged, and a row that a failed  *)
(* attempt has changed since the import that append mode builds on.        *)
Current == job = "none" /\ outcome = "done" => Agrees(file)

(* Between attempts the caches show what the tables show, unless one of    *)
(* three things happened and no attempt has emptied them since: an attempt *)
(* ended after a change and before it emptied them; it failed to empty     *)
(* them without noticing; or an import that changed no result changed the  *)
(* type of a competition that is shown, which nothing counts, and emptied  *)
(* nothing although nothing failed.                                        *)
StaleCachesHaveACause ==
    pc = "idle" /\ uncleaned = {} => cached \subseteq {ShownNow}

(* When the exports and the faults have ended, some night brings the table *)
(* up to date and it stays so, with the same exceptions.                   *)
CatchesUp == <>[](feed = Len(Versions) => Agrees(feed))
===============================================================================
