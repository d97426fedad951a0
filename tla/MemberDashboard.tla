----------------------------- MODULE MemberDashboard -----------------------------
(***************************************************************************)
(* The caches a member's dashboard is built of                             *)
(* (apps/tabt-rest/src/api/dashboard/services/member-dashboard.service.ts, *)
(* numeric-ranking.service.ts and tabt-client.service.ts).  Under the      *)
(* answer for all of the member's categories lie the dashboard of each,    *)
(* its statistics, its ranking and its matches, under the ranking the      *)
(* weekly one, under that the points and the results, and under all that   *)
(* is asked of the federation the client's own caches.  A layer read from  *)
(* a cache may be almost as old as that layer lives, and so may the layer  *)
(* in it be.                                                               *)
(*                                                                         *)
(* What is read of a source is the time it was read at; a request takes no *)
(* time on this clock.  What the reads of one key do beside each other is  *)
(* in module ReadThroughCache, and the number of players, which the letters *)
(* of a weekly ranking depend on too, is in module RankingDistribution.    *)
(***************************************************************************)
EXTENDS Integers, FiniteSets, Common

CONSTANTS
    Categories, \* of players: men and women
    Views,      \* what a request may name, a team of the member's or None
    WithResults, \* the categories in which the member has results this season
    Ttl,        \* how long an entry of each layer lives
    Outages,    \* the sets of reads of sources that may fail at once
    MaxTime     \* bound

(* The layers: those of a category, that of a category and a view, those   *)
(* of the member and those of a view.                                      *)
OfCategory == {"points", "results", "weekly", "ranking", "members", "latest", "stats"}
Layers == OfCategory \cup {"dashboard", "matches", "categories", "all"}
LayerKeys ==
    (OfCategory \X Categories) \cup ({"dashboard"} \X (Categories \X Views))
        \cup ({"matches", "categories"} \X {None}) \cup ({"all"} \X Views)

ASSUME DashboardAssumption ==
    /\ WithResults \subseteq Categories
    /\ Ttl \in [Layers -> Nat \ {0}]
    /\ None \notin Nat /\ MaxTime \in Nat

VARIABLES
    time,       \* the clock
    enrolled,   \* the member's categories in the database
    entries,    \* the cache: of each key, None or [value, until]
    shown       \* the answer just given: [kind, value, at], or None

dashboardVars == <<time, enrolled, entries, shown>>

LayerHit(key)   == entries[key] # None
Fresh(layer, value) == [value |-> value, until |-> time + Ttl[layer]]

ReadTimes == 0 .. MaxTime
Weekly == [points : ReadTimes, results : ReadTimes]
LatestRead == [member : ReadTimes, matches : ReadTimes \cup {None}]
Stats  == [member : ReadTimes, ranking : Weekly \cup {None}]
Dashboards == [member : ReadTimes, ranking : Weekly, latest : LatestRead, stats : Stats]
IsValue(v, layer) ==
    CASE layer \in {"points", "results", "members", "matches"} -> v \in ReadTimes
      [] layer \in {"weekly", "ranking"} -> v \in Weekly
      [] layer = "latest"     -> v \in LatestRead
      [] layer = "stats"      -> v \in Stats
      [] layer = "dashboard"  -> v \in Dashboards
      [] layer = "categories" -> v \in SUBSET Categories
      [] layer = "all" -> DOMAIN v \in SUBSET Categories /\ v \in [DOMAIN v -> Dashboards]

DashboardTypeOK ==
    /\ time \in ReadTimes /\ enrolled \in SUBSET Categories
    /\ DOMAIN entries = LayerKeys
    /\ \A k \in LayerKeys : LayerHit(k) =>
           /\ DOMAIN entries[k] = {"value", "until"}
           /\ IsValue(entries[k].value, k[1])
           /\ entries[k].until \in 0 .. MaxTime + Ttl[k[1]]

DashboardInit ==
    /\ time = 0 /\ enrolled \in SUBSET Categories
    /\ entries = [k \in LayerKeys |-> None]
    /\ shown = None

-------------------------------------------------------------------------------
(* What a request reads, or would read now: what the cache has, or else    *)
(* what the getter returns.                                                *)

Cached(key, got) == IF LayerHit(key) THEN entries[key].value ELSE got

GetMembers(c) == Cached(<<"members", c>>, time)
GetMatches    == Cached(<<"matches", None>>, time)

ActualPoints(c)          == Cached(<<"points", c>>, time)
ResultsDetailsHistory(c) == Cached(<<"results", c>>, time)
GetWeeklyRanking(c) ==
    Cached(<<"weekly", c>>, [points  |-> ActualPoints(c),
                             results |-> ResultsDetailsHistory(c)])
GetNumericRanking(c) == Cached(<<"ranking", c>>, GetWeeklyRanking(c))

(* The club's matches that are among the results of the member just read. *)
GetLatestMatches(c) ==
    Cached(<<"latest", c>>, [member  |-> GetMembers(c),
                             matches |-> IF c \in WithResults THEN GetMatches ELSE None])

(* The statistics of the member's results and of the ranking just read. *)
GetMemberStats(c) ==
    Cached(<<"stats", c>>, [member  |-> GetMembers(c),
                            ranking |-> IF c \in WithResults THEN GetNumericRanking(c) ELSE None])

BuildDashboard(c) ==
    [member |-> GetMembers(c), ranking |-> GetNumericRanking(c),
     latest |-> GetLatestMatches(c), stats |-> GetMemberStats(c)]

GetOneDashboard(c, v) == Cached(<<"dashboard", <<c, v>>>>, BuildDashboard(c))

ValueOf(key) ==
    CASE key[1] = "points"    -> ActualPoints(key[2])
      [] key[1] = "results"   -> ResultsDetailsHistory(key[2])
      [] key[1] = "weekly"    -> GetWeeklyRanking(key[2])
      [] key[1] = "ranking"   -> GetNumericRanking(key[2])
      [] key[1] = "members"   -> GetMembers(key[2])
      [] key[1] = "matches"   -> GetMatches
      [] key[1] = "latest"    -> GetLatestMatches(key[2])
      [] key[1] = "stats"     -> GetMemberStats(key[2])
      [] key[1] = "dashboard" -> GetOneDashboard(key[2][1], key[2][2])

Filled(keys) ==
    [k \in LayerKeys |-> IF k \in keys THEN Fresh(k[1], ValueOf(k)) ELSE entries[k]]

-------------------------------------------------------------------------------
(* What can be read while some sources are out, and what the getters put   *)
(* into the cache: each layer that was missing and that they got to.       *)
(* Reads beside each other keep what they got when another of them fails.  *)

Readable(key, down) == LayerHit(key) \/ key \notin down
Missing(keys) == {k \in keys : ~LayerHit(k)}

HasWeekly(c, down) ==
    LayerHit(<<"weekly", c>>) \/ (Readable(<<"points", c>>, down) /\ Readable(<<"results", c>>, down))
WeeklyPuts(c, down) ==
    IF LayerHit(<<"weekly", c>>) THEN {}
    ELSE {k \in Missing({<<"points", c>>, <<"results", c>>}) : Readable(k, down)}
         \cup {k \in {<<"weekly", c>>} : HasWeekly(c, down)}

HasRanking(c, down) == LayerHit(<<"ranking", c>>) \/ HasWeekly(c, down)
RankingPuts(c, down) ==
    IF LayerHit(<<"ranking", c>>) THEN {}
    ELSE WeeklyPuts(c, down) \cup {k \in {<<"ranking", c>>} : HasWeekly(c, down)}

HasLatest(c, down) ==
    LayerHit(<<"latest", c>>) \/ (c \in WithResults => Readable(<<"matches", None>>, down))
LatestPuts(c, down) ==
    IF LayerHit(<<"latest", c>>) THEN {}
    ELSE {k \in Missing({<<"matches", None>>}) : c \in WithResults /\ Readable(k, down)}
         \cup {k \in {<<"latest", c>>} : HasLatest(c, down)}

(* The dashboard's getter fails when the member's list, the ranking or the *)
(* matches cannot be read.                                                 *)
HasMember(c, down) == Readable(<<"members", c>>, down)
Fails(c, v, down) ==
    /\ ~LayerHit(<<"dashboard", <<c, v>>>>)
    /\ ~(HasMember(c, down) /\ HasRanking(c, down) /\ HasLatest(c, down))

DashboardPuts(c, v, down) ==
    IF LayerHit(<<"dashboard", <<c, v>>>>) \/ ~HasMember(c, down) THEN {}
    ELSE Missing({<<"members", c>>}) \cup RankingPuts(c, down) \cup LatestPuts(c, down)
         \cup {k \in Missing({<<"stats", c>>, <<"dashboard", <<c, v>>>>}) : ~Fails(c, v, down)}

-------------------------------------------------------------------------------
(* The weekly ranking for another reader: the member's own pages, or the   *)
(* estimation of the next match.                                           *)
ReadWeeklyRanking(c, down) ==
    /\ entries' = Filled(WeeklyPuts(c, down))
    /\ shown' = None
    /\ UNCHANGED <<time, enrolled>>

(* One category of the member. *)
GetDashboard(c, v, down) ==
    /\ entries' = Filled(DashboardPuts(c, v, down))
    /\ shown' = IF Fails(c, v, down) THEN [kind |-> "unavailable"]
                ELSE [kind |-> "dashboard", value |-> GetOneDashboard(c, v), at |-> time]
    /\ UNCHANGED <<time, enrolled>>

FindMemberCategories == Cached(<<"categories", None>>, enrolled)

(* All of them: the dashboards are got beside each other, and one that     *)
(* fails fails the answer; what the others put stays.                      *)
GetMultiCategoryDashboard(v, down) ==
    LET cats == FindMemberCategories
        lost == ~Readable(<<"categories", None>>, down)
        failed == lost \/ \E c \in cats : Fails(c, v, down)
        value == [c \in cats |-> GetOneDashboard(c, v)]
        puts == IF lost THEN {} ELSE UNION {DashboardPuts(c, v, down) : c \in cats}
        kept == IF lost \/ LayerHit(<<"categories", None>>) THEN Filled(puts)
                ELSE [Filled(puts) EXCEPT ![<<"categories", None>>] = Fresh("categories", cats)]
    IN  /\ IF LayerHit(<<"all", v>>) THEN
              /\ entries' = entries
              /\ shown' = [kind |-> "all", value |-> entries[<<"all", v>>].value, at |-> time]
           ELSE IF failed THEN
              /\ entries' = kept
              /\ shown' = [kind |-> "unavailable"]
           ELSE
              /\ entries' = [kept EXCEPT ![<<"all", v>>] = Fresh("all", value)]
              /\ shown' = [kind |-> "all", value |-> value, at |-> time]
        /\ UNCHANGED <<time, enrolled>>

(* Mutant: an entry lives on when it expires. *)
AliveLonger(entry, now) == now <= entry.until
EntryAlive(entry, now) == now < entry.until

(* The cache drops what has expired. *)
DashboardTick ==
    /\ time < MaxTime
    /\ time' = time + 1 /\ shown' = None
    /\ entries' = [k \in LayerKeys |->
           IF entries[k] = None THEN None
           ELSE IF EntryAlive(entries[k], time') THEN entries[k] ELSE None]
    /\ UNCHANGED enrolled

(* An import changes the categories of the member. *)
Enrol(cats) ==
    /\ cats # enrolled
    /\ enrolled' = cats /\ shown' = None
    /\ UNCHANGED <<time, entries>>

(* And it empties the caches, those of the federation's client left out.   *)
InvalidateCaches ==
    /\ entries' = [k \in LayerKeys |-> IF k[1] \in {"members", "matches"} THEN entries[k] ELSE None]
    /\ shown' = None
    /\ UNCHANGED <<time, enrolled>>

DashboardNext ==
    \/ \E c \in Categories, down \in Outages :
           ReadWeeklyRanking(c, down) \/ \E v \in Views : GetDashboard(c, v, down)
    \/ \E v \in Views, down \in Outages : GetMultiCategoryDashboard(v, down)
    \/ DashboardTick
    \/ \E cats \in SUBSET Categories : Enrol(cats)
    \/ InvalidateCaches

DashboardSpec == DashboardInit /\ [][DashboardNext]_dashboardVars

-------------------------------------------------------------------------------
(* The age up to which an entry is a hit, and how old what is read of each *)
(* layer may be, n more than it was when it was put there.                 *)
Age(layer) == Ttl[layer] - 1

WeeklyWithin(w, n, at) ==
    /\ at - w.points <= Age("points") + n
    /\ at - w.results <= Age("results") + n

RankingWithin(w, n, at) == WeeklyWithin(w, Age("weekly") + n, at)

LatestWithin(l, n, at) ==
    /\ at - l.member <= Age("members") + n
    /\ l.matches # None => at - l.matches <= Age("matches") + n

StatsWithin(s, n, at) ==
    /\ at - s.member <= Age("members") + n
    /\ s.ranking # None => RankingWithin(s.ranking, Age("ranking") + n, at)

DashboardWithin(d, n, at) ==
    /\ at - d.member <= Age("members") + n
    /\ RankingWithin(d.ranking, Age("ranking") + n, at)
    /\ LatestWithin(d.latest, Age("latest") + n, at)
    /\ StatsWithin(d.stats, Age("stats") + n, at)

(* However the layers were filled, by whichever request and around which   *)
(* failures and emptyings, no part of an answer is older than the layers   *)
(* it came through allow together.  With the times to live of the code,    *)
(* when all categories are asked for: the matches of the federation four   *)
(* hours, its member's list eleven, the points twenty-nine and the results *)
(* fifty-two of them (getDashboardForAllCategories and below).             *)
PartsAreBounded ==
    shown # None =>
        /\ shown.kind = "dashboard" => DashboardWithin(shown.value, Age("dashboard"), shown.at)
        /\ shown.kind = "all" => \A c \in DOMAIN shown.value :
               DashboardWithin(shown.value[c], Age("dashboard") + Age("all"), shown.at)
===============================================================================
