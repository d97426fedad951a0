------------------------------ MODULE ChallengeApi ------------------------------
(***************************************************************************)
(* What the challenge's public pages read                                  *)
(* (apps/tabt-rest/src/api/challenges/challenge.service.ts): the season,   *)
(* then its publication, then the rows of the run it names, by three       *)
(* queries without a transaction.  Rankings come in pages: a client gives  *)
(* the last row it has, and has its own pages follow each other while the  *)
(* worker may publish the next week.                                       *)
(*                                                                         *)
(* A run is published once and its rows do not change (ChallengeCycle,     *)
(* ChallengeConfig).  A row is a record: id, and key, which orders region, *)
(* level and position.                                                     *)
(***************************************************************************)
EXTENDS Integers, FiniteSets, Sequences, SequencesExt, FiniteSetsExt, Common

CONSTANTS
    Weeks,      \* the weeks of the season, whose runs are published in order
    Rows,       \* of the run of each week, its rows: a set
    Filters,    \* what a client may ask for: sets of keys (region, level, name)
    Limits      \* the size of a page

ASSUME PagesAssumption ==
    /\ Weeks \subseteq Int /\ None \notin Weeks /\ Limits \subseteq Nat \ {0}
    /\ \A w \in Weeks :
           /\ IsFiniteSet(Rows[w])
           /\ \A r, s \in Rows[w] :
                  r.id \in Int /\ r.key \in Int /\ r # None /\ (r.id = s.id => r = s)

VARIABLES
    published,  \* ChallengePublication: the weeks, in the order they were
    seasonOpen, \* is the season found under the slug?
    client,     \* what it asks for: [week, keys, limit], or None
    step,       \* its request: "idle", "publication" or "rows"
    chosen,     \* the publication the request has found: its week, or None
    cursor,     \* the row it has last, or None
    pages       \* the answers so far: a sequence of [week, items]

pageVars == <<published, seasonOpen, client, step, chosen, cursor, pages>>

AllRows == UNION {Rows[w] : w \in Weeks}
Clients == [week : Weeks \cup {None}, keys : Filters, limit : Limits]

PagesTypeOK ==
    /\ Range(published) \subseteq Weeks
    /\ client \in Clients \cup {None} /\ step \in {"idle", "publication", "rows"}
    /\ chosen \in Weeks \cup {None} /\ cursor \in AllRows \cup {None}

PagesInit ==
    /\ published = <<>> /\ seasonOpen = TRUE
    /\ client = None /\ step = "idle" /\ chosen = None /\ cursor = None /\ pages = <<>>

(* The worker publishes a week: rows of it exist before (ChallengeCycle). *)
Publish(w) ==
    /\ w \notin Range(published) /\ \A v \in Range(published) : v < w
    /\ published' = Append(published, w)
    /\ UNCHANGED <<seasonOpen, client, step, chosen, cursor, pages>>

(* The season is activated or not; findPublicSeason. *)
SetSeason ==
    /\ seasonOpen' = ~seasonOpen
    /\ UNCHANGED <<published, client, step, chosen, cursor, pages>>

FindPublicSeason(c) ==
    /\ client = None
    /\ client' = c
    /\ pages' = <<>> /\ cursor' = None /\ chosen' = None
    /\ step' = IF seasonOpen THEN "publication" ELSE "idle"
    /\ UNCHANGED <<published, seasonOpen>>

(* The client asks for what follows. *)
NextPage ==
    /\ client # None /\ step = "idle" /\ cursor # None
    /\ step' = IF seasonOpen THEN "publication" ELSE "idle"
    /\ chosen' = None
    /\ UNCHANGED <<published, seasonOpen, client, cursor, pages>>

(* The latest one, or that of the week the client names. *)
Matching(c) == {i \in DOMAIN published : c.week = None \/ published[i] = c.week}

FindPublicationForSeason ==
    /\ step = "publication"
    /\ IF Matching(client) = {}
       THEN /\ step' = "idle" /\ cursor' = None
            /\ pages' = Append(pages, [week |-> None, items |-> <<>>])
            /\ chosen' = None
       ELSE /\ step' = "rows" /\ chosen' = published[Max(Matching(client))]
            /\ UNCHANGED <<cursor, pages>>
    /\ UNCHANGED <<published, seasonOpen, client>>

Before(a, b) ==
    \/ a.key < b.key
    \/ a.key = b.key /\ a.id < b.id

(* The rows of a run in their order. *)
Sorted(rows) ==
    [n \in 1 .. Cardinality(rows) |->
        CHOOSE r \in rows : Cardinality({s \in rows : Before(s, r)}) = n - 1]

(* Mutant: the cursor is the first row of the next page. *)
FromCursorOn(rows) ==
    IF cursor = None THEN Sorted(rows) ELSE Sorted({r \in rows : ~Before(r, cursor)})

(* The database looks for the rows from the cursor's place on, and leaves  *)
(* out the first of them: the cursor itself, if it is a row of this run.   *)
FromCursor(rows) ==
    IF cursor = None THEN Sorted(rows)
    ELSE LET rest == Sorted({r \in rows : ~Before(r, cursor)})
         IN  SubSeq(rest, 2, Len(rest))

(* One row more than the page is read, to know whether there are more. *)
GetRankings ==
    /\ step = "rows"
    /\ LET rows == FromCursor({r \in Rows[chosen] : r.key \in client.keys})
           page == SubSeq(rows, 1, Min({client.limit, Len(rows)}))
       IN  /\ pages' = Append(pages, [week |-> chosen, items |-> page])
           /\ cursor' = IF Len(rows) > client.limit THEN page[Len(page)] ELSE None
    /\ step' = "idle"
    /\ UNCHANGED <<published, seasonOpen, client, chosen>>

(* The client has what it wanted, or gives up. *)
Leave ==
    /\ client # None /\ step = "idle"
    /\ client' = None /\ cursor' = None /\ chosen' = None /\ pages' = <<>>
    /\ UNCHANGED <<published, seasonOpen, step>>

PagesNext ==
    \/ \E w \in Weeks : Publish(w)
    \/ SetSeason
    \/ \E c \in Clients : FindPublicSeason(c)
    \/ NextPage \/ FindPublicationForSeason \/ GetRankings \/ Leave

PagesSpec == PagesInit /\ [][PagesNext]_pageVars

-------------------------------------------------------------------------------
(* What the other pages show of the publications, newest first: read at    *)
(* once, then the rows of all their runs.                                  *)

RankedIn(week, player) == \E r \in Rows[week] : r.player = player

GetChallengePlayerRankings(player) ==
    LET newest == Reverse(published)
        ranked == Picked(newest, {i \in DOMAIN newest : RankedIn(newest[i], player)})
    IN  [rankings |-> ranked, pointsOf |-> IF ranked = <<>> THEN None ELSE ranked[1]]

(* Only the latest publication of a season counts on a member's dashboard. *)
GetMemberChallengeRankings(player) ==
    IF published = <<>> \/ ~seasonOpen THEN {}
    ELSE {w \in {published[Len(published)]} : RankedIn(w, player)}

GetRegionSummary(region) ==
    IF published = <<>> THEN None
    ELSE {r \in Rows[published[Len(published)]] : r.key \in region}

-------------------------------------------------------------------------------
Wanted(week) == {r \in Rows[week] : r.key \in client.keys}

(* Of what is wanted, the n-th page. *)
Slice(rows, n) == SubSeq(rows, (n - 1) * client.limit + 1, Min({n * client.limit, Len(rows)}))

Complete(w) ==
    /\ client # None /\ step = "idle" /\ cursor = None /\ pages # <<>>
    /\ \A i \in DOMAIN pages : pages[i].week = w

(* A client whose pages all name the same publication, and who is told     *)
(* that there are no more, has every row it asked for, once and in the     *)
(* order of the ranking, although the publication is looked for again for  *)
(* every page (getRankings).  While that publication is the latest, the    *)
(* regions' summary counts those rows, and their players, and no others,   *)
(* see it first on their own pages and as the only one on the dashboard.   *)
PagesAgree ==
    \A w \in Weeks : Complete(w) =>
        /\ \A n \in DOMAIN pages : pages[n].items = Slice(Sorted(Wanted(w)), n)
        /\ Len(pages) * client.limit >= Cardinality(Wanted(w))
        /\ w = published[Len(published)] /\ seasonOpen =>
               /\ GetRegionSummary(client.keys) = UNION {Range(pages[n].items) : n \in DOMAIN pages}
               /\ \A r \in AllRows : LET p == r.player IN
                      r.key \in client.keys /\ r \in Rows[w] =>
                          /\ GetMemberChallengeRankings(p) = {w}
                          /\ GetChallengePlayerRankings(p).rankings[1] = w
===============================================================================
