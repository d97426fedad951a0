--------------------------- MODULE RankingDistribution ---------------------------
(***************************************************************************)
(* How many players are ranked and the points their letters take           *)
(* (apps/tabt-rest/src/services/members/ranking-distribution.service.ts    *)
(* and member-ranking.controller.ts).  The number is counted at the start, *)
(* at midnight and when it is asked for after a day; it selects the table  *)
(* of letters (module RankingTables), and the points at the table's        *)
(* positions are kept until the number is counted again.                   *)
(*                                                                         *)
(* The two categories are counted together and else alike: this is one.    *)
(* A request awaits the database between its steps, so that a count may    *)
(* end between two of them.                                                *)
(***************************************************************************)
EXTENDS Integers, FiniteSets, Common

CONSTANTS
    Askers,     \* requests for the table served at once
    Day,        \* how long a count is good for
    MaxDay,     \* bound: the clock
    MaxImports  \* bound: imports of players and points

ASSUME DistributionAssumption == MaxDay \in Nat /\ MaxImports \in Nat \ {0}

VARIABLES
    day,            \* the clock
    imports,        \* imports so far: what a count or the points are read of
    memberCount,    \* the count kept: its import, or None
    lastUpdated,    \* when it was, or None
    pointThresholds, \* the points kept: [table, points], or None
    refreshing,     \* of the timer and each request, the import counted, or None
    request,        \* of each request, where it is
    overtaken,      \* history: requests under way when a count ended
    spoiled         \* history: were the points kept by one of them?

counts == <<memberCount, lastUpdated>>
causes == <<overtaken, spoiled>>
distributionVars == <<day, imports, counts, pointThresholds, refreshing, request, causes>>

NotAsking == [at |-> "idle"]
Counters == Askers \cup {"timer"}

Numbers  == (0 .. MaxImports) \cup {None}
LetterPoints == [table : Numbers, points : 0 .. MaxImports]
Serving  ==
    {NotAsking} \cup [at : {"count"}] \cup [at : {"table"}, table : Numbers]
        \cup [at : {"points"}, table : Numbers, points : 0 .. MaxImports]
        \cup [at : {"done"}, table : Numbers, shown : LetterPoints]

DistributionTypeOK ==
    /\ day \in 0 .. MaxDay /\ imports \in 0 .. MaxImports
    /\ memberCount \in Numbers /\ lastUpdated \in (0 .. MaxDay) \cup {None}
    /\ pointThresholds \in LetterPoints \cup {None}
    /\ refreshing \in [Counters -> Numbers]
    /\ request \in [Askers -> Serving]
    /\ overtaken \in SUBSET Askers /\ spoiled \in BOOLEAN

DistributionInit ==
    /\ day = 0 /\ imports \in {0, 1}
    /\ memberCount = None /\ lastUpdated = None /\ pointThresholds = None
    /\ refreshing = [c \in Counters |-> None]
    /\ request = [r \in Askers |-> NotAsking]
    /\ overtaken = {} /\ spoiled = FALSE

UnderWay == {r \in Askers : request[r].at \in {"table", "points", "done"}}

(* refreshMemberCounts: the players are counted.  Import 0 is an empty     *)
(* database, of which nothing is kept.                                     *)
Count(c) ==
    /\ refreshing[c] = None
    /\ refreshing' = [refreshing EXCEPT ![c] = imports]

(* Mutant: the points are left for another day. *)
KeepCount(c) ==
    /\ memberCount' = refreshing[c]
    /\ lastUpdated' = day
    /\ pointThresholds' = pointThresholds
    /\ overtaken' = overtaken \cup UnderWay
    /\ spoiled' = FALSE

Keep(c) ==
    /\ memberCount' = refreshing[c]
    /\ lastUpdated' = day
    /\ pointThresholds' = None
    /\ overtaken' = overtaken \cup UnderWay
    /\ spoiled' = FALSE

KeepNothing == UNCHANGED <<counts, pointThresholds, causes>>

(* The queries end, or one of them fails, which is only logged. *)
Ended(c) ==
    /\ refreshing[c] # None
    /\ refreshing' = [refreshing EXCEPT ![c] = None]

(* onModuleInit and the midnight's timer. *)
TimerCounts ==
    /\ Count("timer")
    /\ UNCHANGED <<day, imports, counts, pointThresholds, request, causes>>

TimerKeeps ==
    /\ Ended("timer") /\ refreshing["timer"] # 0
    /\ Keep("timer")
    /\ UNCHANGED <<day, imports, request>>

TimerFails ==
    /\ Ended("timer") /\ KeepNothing
    /\ UNCHANGED <<day, imports, request>>

ShouldRefresh == lastUpdated = None \/ memberCount = None \/ day - lastUpdated > Day

(* getRankingTable of the controller: a number that is good is taken.      *)
AskRanking(r) ==
    /\ request[r] = NotAsking
    /\ IF ShouldRefresh
       THEN /\ Count(r)
            /\ request' = [request EXCEPT ![r] = [at |-> "count"]]
       ELSE /\ request' = [request EXCEPT ![r] = [at |-> "table", table |-> memberCount]]
            /\ refreshing' = refreshing
    /\ overtaken' = overtaken \ {r}
    /\ UNCHANGED <<day, imports, counts, pointThresholds, spoiled>>

(* After a count the request goes on with what is kept, or with the 14000  *)
(* it falls back to: None.                                                 *)
GetMembersWithRankingCount(r) ==
    /\ request[r].at = "count"
    /\ Ended(r)
    /\ \/ refreshing[r] # 0 /\ Keep(r)
       \/ KeepNothing
    /\ request' = [request EXCEPT ![r] = [at |-> "table", table |-> memberCount']]
    /\ UNCHANGED <<day, imports>>

(* getRankingPointThresholds: the points kept are the answer; else they    *)
(* are read of the latest import, at the positions of this table.          *)
ReadPoints(r) ==
    /\ request[r].at = "table"
    /\ IF pointThresholds # None
       THEN request' = [request EXCEPT ![r] = [at |-> "done", table |-> request[r].table,
                                               shown |-> pointThresholds]]
       ELSE request' = [request EXCEPT ![r] = [at |-> "points", table |-> request[r].table,
                                               points |-> imports]]
    /\ UNCHANGED <<day, imports, counts, pointThresholds, refreshing, causes>>

(* The points of an empty database are answered, but not kept. *)
KeepPoints(r) ==
    /\ request[r].at = "points"
    /\ LET found == [table |-> request[r].table, points |-> request[r].points] IN
       /\ pointThresholds' = IF request[r].points = 0 THEN pointThresholds ELSE found
       /\ request' = [request EXCEPT ![r] = [at |-> "done", table |-> request[r].table,
                                             shown |-> found]]
    /\ spoiled' = (spoiled \/ r \in overtaken)
    /\ UNCHANGED <<day, imports, counts, refreshing, overtaken>>

Answer(r) ==
    /\ request[r].at = "done"
    /\ request' = [request EXCEPT ![r] = NotAsking]
    /\ UNCHANGED <<day, imports, counts, pointThresholds, refreshing, causes>>

ImportPlayers ==
    /\ imports < MaxImports
    /\ imports' = imports + 1
    /\ UNCHANGED <<day, counts, pointThresholds, refreshing, request, causes>>

NextDay ==
    /\ day < MaxDay
    /\ day' = day + 1
    /\ UNCHANGED <<imports, counts, pointThresholds, refreshing, request, causes>>

DistributionNext ==
    \/ TimerCounts \/ TimerKeeps \/ TimerFails
    \/ \E r \in Askers :
          \/ AskRanking(r) \/ GetMembersWithRankingCount(r) \/ ReadPoints(r)
          \/ KeepPoints(r) \/ Answer(r)
    \/ ImportPlayers \/ NextDay

DistributionSpec == DistributionInit /\ [][DistributionNext]_distributionVars

-------------------------------------------------------------------------------
(* The points kept, and those an answer shows beside a table, are those of *)
(* the positions of the table that the number of players selects, unless a *)
(* count ended while some request was between reading the number and its   *)
(* answer: nothing else sets the table and the points apart                *)
(* (refreshMemberCounts empties the points that it makes wrong).           *)
ThresholdsFit ==
    ~spoiled =>
        /\ pointThresholds # None => pointThresholds.table = memberCount
        /\ \A r \in Askers \ overtaken : request[r].at = "done" =>
               request[r].shown.table = request[r].table
===============================================================================
