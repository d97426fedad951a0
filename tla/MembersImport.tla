----------------------------- MODULE MembersImport -----------------------------
(***************************************************************************)
(* The import of the members of one player category                        *)
(* (apps/data-aftt-importer/src/aftt-data-members-list).                   *)
(*                                                                         *)
(* An attempt downloads the federation's list, compares its date with the  *)
(* one logged last, merges members and then their points by two statements *)
(* that commit on their own, empties the API's caches if a row changed and *)
(* logs the import.  The second statement also writes the notifications of *)
(* rankings that changed to the outbox.                                    *)
(***************************************************************************)
EXTENDS Naturals, FiniteSets, SequencesExt

CONSTANTS
    Members,
    Profiles,   \* what the table Member holds of a member
    Standings,  \* points, letter and position of a member
    Shows,      \* what a notification tells of a standing: points and letter
    Lists,      \* contents of a list: its lines
    None,
    MaxDay,     \* bound: days
    MaxLists,   \* bound: lists published
    MaxFaults   \* bound: attempts that throw or die, and errors of the cache

Days == 1 .. MaxDay
(* A line without points, or with negative ones, has no standing. *)
Line == [member : Members, profile : Profiles, standing : Standings \cup {None}]

ASSUME ListsAssumption == Lists # {} /\ Lists \subseteq Seq(Line)
ASSUME MembersAssumption == IsFiniteSet(Members)
ASSUME ShowsAssumption == DOMAIN Shows = Standings
ASSUME NoneAssumption  == None \notin Profiles \cup Standings \cup Days
ASSUME BoundsAssumption == MaxDay \in Nat \ {0} /\ MaxLists \in Nat /\ MaxFaults \in Nat

VARIABLES
    today,
    published,  \* the list served: its date, None if it cannot be parsed, and lines
    lists,      \* lists published so far
    profile,    \* Member: of each member, or None
    points,     \* NumericPoints: of each member and day, or None
    outbox,     \* the notifications, oldest first
    logged,     \* the date of the DataImport logged last, or None
    cached,     \* of each member, what the API has cached, or None
    attempt,    \* its place, the list, the day it is imported under, what it changed
    newest,     \* history: the newest date published
    fresh,      \* history: is the list served newer than all before it?
    done,       \* history: the list and day of the last import, None once rows change
    faults      \* history: what has failed so far

world   == <<today, published, lists, newest, fresh>>
tables  == <<profile, points, outbox, logged>>
vars    == <<world, tables, cached, attempt, done, faults>>

Places == {"idle", "download", "decide", "skip", "members", "points", "clean", "log"}
Event  == [member : Members, day : Days, old : Standings, new : Standings]
List   == [date : Days \cup {None}, lines : Lists]

TypeOK ==
    /\ today \in Days
    /\ published \in List
    /\ lists \in 0 .. MaxLists
    /\ profile \in [Members -> Profiles \cup {None}]
    /\ points \in [Members -> [Days -> Standings \cup {None}]]
    /\ outbox \in Seq(Event)
    /\ logged \in Days \cup {None}
    /\ cached \in [Members -> (Profiles \X (Standings \cup {None})) \cup {None}]
    /\ attempt \in [at : Places, list : List, day : Days, changed : BOOLEAN]
    /\ done \in [list : List, day : Days] \cup {None}
    /\ newest \in 0 .. MaxDay /\ fresh \in BOOLEAN
    /\ faults \in 0 .. MaxFaults

Idle == [at |-> "idle", list |-> [date |-> None, lines |-> CHOOSE l \in Lists : TRUE],
         day |-> 1, changed |-> FALSE]
Day(date) == IF date = None THEN 0 ELSE date

Init ==
    /\ today = 1 /\ lists = 0
    /\ published \in [date : {1, None}, lines : Lists]
    /\ profile = [m \in Members |-> None]
    /\ points = [m \in Members |-> [d \in Days |-> None]]
    /\ outbox = <<>> /\ logged = None
    /\ cached = [m \in Members |-> None]
    /\ attempt = Idle
    /\ newest = Day(published.date) /\ fresh = TRUE
    /\ done = None /\ faults = 0

At(place) == attempt.at = place

(* ORDER BY date DESC LIMIT 1.  Mutant: the standing of the import's day.  *)
DaysIn(of) == {d \in Days : of[d] # None}
LatestIn(of) == IF DaysIn(of) = {} THEN None ELSE of[Max(DaysIn(of))]
Latest(m) == LatestIn(points[m])
StandingOfDay(m) == points[m][attempt.day]
Previous(m) == Latest(m)

-------------------------------------------------------------------------------
(* The world around the import.                                            *)

NextDay ==
    /\ today < MaxDay
    /\ today' = today + 1
    /\ UNCHANGED <<published, lists, newest, fresh, tables, cached, attempt, done, faults>>

(* The federation serves another list, an older one perhaps. *)
Publish(list) ==
    /\ lists < MaxLists
    /\ list.date # None => list.date <= today
    /\ published' = list
    /\ lists' = lists + 1
    /\ fresh' = (Day(list.date) > newest)
    /\ newest' = Max({newest, Day(list.date)})
    /\ UNCHANGED <<today, tables, cached, attempt, done, faults>>

(* The API answers from both tables and caches the answer until it expires. *)
Answer(m) ==
    /\ cached[m] = None
    /\ cached' = [cached EXCEPT ![m] = <<profile[m], Latest(m)>>]
    /\ profile[m] # None
    /\ UNCHANGED <<world, tables, attempt, done, faults>>

Expire(m) ==
    /\ cached[m] # None
    /\ cached' = [cached EXCEPT ![m] = None]
    /\ UNCHANGED <<world, tables, attempt, done, faults>>

-------------------------------------------------------------------------------
(* One attempt.                                                            *)

Start ==
    /\ At("idle")
    /\ attempt' = [attempt EXCEPT !.at = "download"]
    /\ UNCHANGED <<world, tables, cached, done, faults>>

(* downloadAndPrepareFile *)
Download ==
    /\ At("download")
    /\ attempt' = [attempt EXCEPT !.at = "decide", !.list = published]
    /\ UNCHANGED <<world, tables, cached, done, faults>>

(* shouldProcessFile.  Mutant: a list of the day after the last one is     *)
(* skipped.                                                                *)
LaterList(date) == date = None \/ logged = None \/ date > logged + 1
ShouldProcess(date) == date = None \/ logged = None \/ date > logged

(* A list without a date is imported under the day it is imported on. *)
ImportDay(date) == IF date = None THEN today ELSE date

Decide ==
    /\ At("decide")
    /\ LET date == attempt.list.date
       IN  attempt' = [attempt EXCEPT
               !.at = IF ShouldProcess(date) THEN "members" ELSE "skip",
               !.day = ImportDay(date)]
    /\ UNCHANGED <<world, tables, cached, done, faults>>

(* The numbers of the lines that name a member, and of those with points.  *)
LinesOf(m, lines)  == {n \in DOMAIN lines : lines[n].member = m}
PointsOf(m, lines) == {n \in LinesOf(m, lines) : lines[n].standing # None}

Staged(m)       == LinesOf(m, attempt.list.lines)
StagedPoints(m) == PointsOf(m, attempt.list.lines)

(* DISTINCT ON, by line_no DESC: of the lines that count, a member's last  *)
(* one.  Mutant: the first one.                                            *)
FirstLine(numbers) == attempt.list.lines[Min(numbers)]
Deduped(numbers)   == attempt.list.lines[Max(numbers)]

(* mergeMembersFromStage: rows that differ are written. *)
MergeMembers ==
    LET listed == {m \in Members : Staged(m) # {}}
        differ == {m \in listed : profile[m] # Deduped(Staged(m)).profile}
    IN  /\ At("members")
        /\ profile' = [m \in Members |->
               IF m \in differ THEN Deduped(Staged(m)).profile ELSE profile[m]]
        /\ attempt' = [attempt EXCEPT !.at = "points", !.changed = differ # {}]
        /\ done' = None
        /\ UNCHANGED <<world, points, outbox, logged, cached, faults>>

(* The key by which the outbox refuses a notification it has. *)
DeduplicationKey(e) == <<e.member, e.day, Shows[e.new]>>

(* mergeNumericPointsFromStage: standings that differ from the latest one  *)
(* are stored under the import's day, and those of them that differed from *)
(* what was stored there and show a change are notified.                   *)
Candidates ==
    {m \in Members : StagedPoints(m) # {}
        /\ Previous(m) # Deduped(StagedPoints(m)).standing}
Stored ==
    {m \in Candidates : points[m][attempt.day] # Deduped(StagedPoints(m)).standing}
Notification(m) ==
    [member |-> m, day |-> attempt.day,
     old |-> Previous(m), new |-> Deduped(StagedPoints(m)).standing]
Notified ==
    {m \in Stored : /\ Previous(m) # None
                    /\ Shows[Notification(m).old] # Shows[Notification(m).new]}
Queued ==
    {m \in Notified : \A n \in DOMAIN outbox :
        DeduplicationKey(outbox[n]) # DeduplicationKey(Notification(m))}

Dirty(affected, stored) == affected \/ stored # {}

MergePoints ==
    /\ At("points")
    /\ points' = [m \in Members |->
           IF m \in Stored
           THEN [points[m] EXCEPT ![attempt.day] = Deduped(StagedPoints(m)).standing]
           ELSE points[m]]
    /\ outbox' = outbox \o SetToSeq({Notification(m) : m \in Queued})
    /\ attempt' = [attempt EXCEPT !.changed = attempt.changed \/ Stored # {},
           !.at = IF Dirty(attempt.changed, Stored) THEN "clean" ELSE "log"]
    /\ UNCHANGED <<world, profile, logged, cached, done, faults>>

(* invalidateCaches: one scan for all patterns. *)
Clean ==
    /\ At("clean")
    /\ cached' = [m \in Members |-> None]
    /\ attempt' = [attempt EXCEPT !.at = "log", !.changed = FALSE]
    /\ UNCHANGED <<world, tables, done, faults>>

(* cleanKeys logs an error of Redis and returns. *)
CleanSwallowed ==
    /\ At("clean") /\ faults < MaxFaults
    /\ attempt' = [attempt EXCEPT !.at = "log", !.changed = FALSE]
    /\ faults' = faults + 1
    /\ UNCHANGED <<world, tables, cached, done>>

(* storeImport, of a list that was processed or skipped. *)
Log ==
    LET date == attempt.list.date
    IN  /\ attempt.at \in {"log", "skip"}
        /\ logged' = date
        /\ done' = IF At("log") THEN [list |-> attempt.list, day |-> attempt.day] ELSE done
        /\ attempt' = Idle
        /\ UNCHANGED <<world, profile, points, outbox, cached, faults>>

(* The attempt throws, or its process dies: the queue starts another one.  *)
Fail ==
    /\ ~At("idle") /\ faults < MaxFaults
    /\ attempt' = Idle
    /\ faults' = faults + 1
    /\ UNCHANGED <<world, tables, cached, done>>

-------------------------------------------------------------------------------
Attempt ==
    \/ Start \/ Download \/ Decide \/ MergeMembers \/ MergePoints \/ Clean \/ Log

Next ==
    \/ NextDay
    \/ \E list \in [date : Days \cup {None}, lines : Lists] : Publish(list)
    \/ \E m \in Members : Answer(m) \/ Expire(m)
    \/ Attempt \/ CleanSwallowed \/ Fail

Spec == Init /\ [][Next]_vars

(* The queue runs an import every night; its requests and statements end   *)
(* or time out; keys expire.                                               *)
Fairness == WF_vars(Attempt) /\ \A m \in Members : WF_vars(Expire(m))
FairSpec == Spec /\ Fairness

-------------------------------------------------------------------------------
(* Properties.                                                             *)

(* After an import, whatever attempts failed before it and however often a *)
(* list lists a member, the tables hold the list: a member's last line,    *)
(* and as its latest standing the last one that has points, unless the     *)
(* list was imported under a day before the one the member had.            *)
Backdated(of, day) == \E d \in DaysIn(of) : d > day
HoldsList(list, day) ==
    \A m \in Members :
        LET listed == LinesOf(m, list.lines)
            with   == PointsOf(m, list.lines)
        IN  /\ listed # {} => profile[m] = list.lines[Max(listed)].profile
            /\ with # {} => Latest(m) = list.lines[Max(with)].standing
                              \/ Backdated(points[m], day)
Current == done # None => HoldsList(done.list, done.day)

(* Whenever what is shown of a member's latest standing changes, the       *)
(* outbox has a notification of that day that tells the new one; and every *)
(* notification tells the standing the member then has, unless the list    *)
(* was imported under a day before the one the member had.                 *)
Tells(e, standing) == Shows[e.new] = Shows[standing]
ChangesAreTold ==
    \A m \in Members :
        LET now == LatestIn(points'[m])
        IN  Latest(m) # None /\ Shows[now] # Shows[Latest(m)] =>
                \E n \in DOMAIN outbox' :
                    /\ outbox'[n].member = m /\ outbox'[n].day = attempt.day
                    /\ Tells(outbox'[n], now)
NotificationsAreTrue ==
    \A n \in DOMAIN outbox' \ DOMAIN outbox :
        LET e == outbox'[n]
        IN  Tells(e, LatestIn(points'[e.member])) \/ Backdated(points'[e.member], e.day)
Announced == [][ChangesAreTold /\ NotificationsAreTrue]_<<points, outbox>>

(* A list newer than all before it is imported in the end, and cached      *)
(* answers follow, unless standings have been stored for later days.       *)
CatchesUp ==
    <>[](fresh /\ published.date # None =>
            /\ HoldsList(published, published.date)
            /\ \A m \in Members : cached[m] \in {None, <<profile[m], Latest(m)>>})
===============================================================================
