------------------------------- MODULE MemberStats -------------------------------
(***************************************************************************)
(* The statistics of a member's dashboard                                  *)
(* (apps/tabt-rest/src/api/dashboard/services/member-dashboard.service.ts):*)
(* what is counted over the results of a season, the streaks, and the team *)
(* the member played most for.                                             *)
(*                                                                         *)
(* An entry of the results is a record: won, at (its time), hour, day and  *)
(* month, setFor, setAgainst and ranking, the letter of the opponent.      *)
(* Letters are numbers, the strongest first, as their names order.         *)
(***************************************************************************)
EXTENDS Integers, FiniteSets, Sequences, SequencesExt, FiniteSetsExt, Functions, Common

(* Math.round(n / total * 100); 0 / 0 is not a number. *)
Percent(n, total) == IF total = 0 THEN None ELSE (200 * n + total) \div (2 * total)
PercentOr0(n, total) == IF total = 0 THEN 0 ELSE Percent(n, total)

Hundredths(n, total) == (200 * n + total) \div (2 * total)

(* Mutant: in the order they were received. *)
SortedIndicesAsReceived(entries) == [k \in DOMAIN entries |-> k]

(* Array.sort is stable. *)
SortedIndices(entries) ==
    InOrder(DOMAIN entries, LAMBDA i, j :
        \/ entries[i].at < entries[j].at
        \/ entries[i].at = entries[j].at /\ i < j)

TimeSlot(e) == IF e.hour < 12 THEN "morning" ELSE IF e.hour < 18 THEN "afternoon" ELSE "evening"

Some(entries, Test(_)) == Cardinality({i \in DOMAIN entries : Test(entries[i])})
Sets(entries, Of(_)) ==
    SumFunctionOnSet([i \in DOMAIN entries |-> Of(entries[i])], DOMAIN entries)

(* Victories and defeats of the entries whose kinds, of all, is this one. *)
Part(entries, kinds, kind) ==
    LET chosen == {i \in DOMAIN entries : kinds[i] = kind}
        count == Cardinality(chosen)
        wins == Cardinality({i \in chosen : entries[i].won})
    IN  [count |-> count, victories |-> wins, defeats |-> count - wins,
         victoriesPct |-> PercentOr0(wins, count),
         defeatsPct |-> PercentOr0(count - wins, count)]

BuildTimeOfDayStats(entries) ==
    [s \in {"morning", "afternoon", "evening"} |->
        Part(entries, [i \in DOMAIN entries |-> TimeSlot(entries[i])], s)]
BuildDayOfWeekStats(entries) ==
    [d \in 0 .. 6 |-> Part(entries, [i \in DOMAIN entries |-> entries[i].day], d)]
BuildMonthlyStats(entries) ==
    [m \in 0 .. 11 |-> Part(entries, [i \in DOMAIN entries |-> entries[i].month], m)]
PerRanking(entries) ==
    [r \in {entries[i].ranking : i \in DOMAIN entries} |->
        Part(entries, [i \in DOMAIN entries |-> entries[i].ranking], r)]

TieBreaks(entries) ==
    LET won == Some(entries, LAMBDA e : e.setFor = 3 /\ e.setAgainst = 2)
        lost == Some(entries, LAMBDA e : e.setFor = 2 /\ e.setAgainst = 3)
    IN  [count |-> won + lost, victories |-> won, defeats |-> lost,
         victoriesPct |-> PercentOr0(won, won + lost),
         defeatsPct |-> PercentOr0(lost, won + lost)]

SetCounts(entries) ==
    LET won == Sets(entries, LAMBDA e : e.setFor)
        lost == Sets(entries, LAMBDA e : e.setAgainst)
    IN  [total |-> won + lost, won |-> won, lost |-> lost,
         wonPct |-> Percent(won, won + lost), lostPct |-> Percent(lost, won + lost)]

(* The latest results backwards, as long as they are alike; then all of    *)
(* them in their order.                                                    *)
CurrentStreak(entries, sorted, won) ==
    LET Alike(n) == \A k \in Len(sorted) - n + 1 .. Len(sorted) : entries[sorted[k]].won = won
    IN  Max({n \in 0 .. Len(sorted) : Alike(n)})

CalculateStreaks(entries, sorted) ==
    LET Step(acc, index) ==
            IF entries[index].won
            THEN [acc EXCEPT !.win = acc.win + 1, !.loss = 0,
                             !.best = Max({acc.best, acc.win + 1})]
            ELSE [acc EXCEPT !.loss = acc.loss + 1, !.win = 0,
                             !.worst = Max({acc.worst, acc.loss + 1})]
        all == FoldLeft(Step, [win |-> 0, loss |-> 0, best |-> 0, worst |-> 0], sorted)
    IN  [currentWin |-> CurrentStreak(entries, sorted, TRUE), bestWin |-> all.best,
         currentLoss |-> CurrentStreak(entries, sorted, FALSE), worstLoss |-> all.worst]

(* history: the weekly ranking, a sequence of [points, letter]; a letter   *)
(* that nobody could tell is "-", which orders before "A": 0.  Element 0   *)
(* of the results counts as no index (an index is tested for truth), so    *)
(* the date of the member's first entry is left out.                       *)
CalculateSeasonExtremes(ranking, history, entries, sorted) ==
    LET points == {history[i].points : i \in DOMAIN history}
        letters == ({history[i].letter : i \in DOMAIN history} \cup {ranking}) \ {None}
        DateOf(index) == IF index = 1 THEN None ELSE entries[index].at
    IN  [highestRanking |-> IF letters = {} THEN None ELSE Min(letters),
         lowestRanking |-> IF letters = {} THEN None ELSE Max(letters),
         highestPoints |-> Max(points \cup {0}),
         lowestPoints |-> IF points = {} THEN 0 ELSE Min(points),
         firstMatch |-> DateOf(sorted[1]), lastMatch |-> DateOf(sorted[Len(sorted)])]

CalculateMatchDetails(entries) ==
    LET Ended(won, for, against) == Some(entries, LAMBDA e :
            e.won = won /\ e.setFor = for /\ e.setAgainst = against)
    IN  [averageSetsPerMatch |-> Hundredths(SetCounts(entries).total, Len(entries)),
         cleanVictories |-> Ended(TRUE, 3, 0), cleanDefeats |-> Ended(FALSE, 0, 3),
         comebacks |-> Ended(TRUE, 3, 2), leadLost |-> Ended(FALSE, 2, 3)]

NoSets == [total |-> 0, won |-> 0, lost |-> 0, wonPct |-> 0, lostPct |-> 0]
NoDetails == [averageSetsPerMatch |-> 0, cleanVictories |-> 0, cleanDefeats |-> 0,
              comebacks |-> 0, leadLost |-> 0]

GetEmptyMemberStats(ranking) ==
    [matches |-> [count |-> 0], tieBreaks |-> [count |-> 0], perRanking |-> <<>>,
     sets |-> NoSets,
     streaks |-> [currentWin |-> 0, bestWin |-> 0, currentLoss |-> 0, worstLoss |-> 0],
     seasonExtremes |-> [highestRanking |-> ranking, lowestRanking |-> ranking,
                         highestPoints |-> 0, lowestPoints |-> 0,
                         firstMatch |-> None, lastMatch |-> None],
     matchHistory |-> <<>>, timeOfDay |-> <<>>, dayOfWeek |-> <<>>, monthly |-> <<>>,
     matchDetails |-> NoDetails]

GetMemberStats(ranking, history, entries) ==
    LET sorted == SortedIndices(entries)
    IN  IF entries = <<>> THEN GetEmptyMemberStats(ranking)
        ELSE [matches |-> Part(entries, [i \in DOMAIN entries |-> "all"], "all"),
              tieBreaks |-> TieBreaks(entries),
              perRanking |-> PerRanking(entries),
              sets |-> SetCounts(entries),
              streaks |-> CalculateStreaks(entries, sorted),
              seasonExtremes |-> CalculateSeasonExtremes(ranking, history, entries, sorted),
              matchHistory |-> [k \in DOMAIN sorted |-> entries[sorted[k]]],
              timeOfDay |-> BuildTimeOfDayStats(entries),
              dayOfWeek |-> BuildDayOfWeekStats(entries),
              monthly |-> BuildMonthlyStats(entries),
              matchDetails |-> CalculateMatchDetails(entries)]

(* A match is a record: homeClub, awayClub, homeTeam, awayTeam (a team may *)
(* be None), at (a time, or None) and division.                            *)
TeamOf(m, club) ==
    IF m.homeClub = club THEN m.homeTeam ELSE IF m.awayClub = club THEN m.awayTeam ELSE None

(* The aggregate of a team: its matches, and the latest of them; the first *)
(* one when none is dated.                                                 *)
Aggregate(matches, club, team) ==
    LET mine == {i \in DOMAIN matches : TeamOf(matches[i], club) = team}
        dated == {i \in mine : matches[i].at # None}
        last == IF dated = {} THEN None ELSE Max({matches[i].at : i \in dated})
        shown == IF dated = {} THEN Min(mine) ELSE Min({i \in dated : matches[i].at = last})
    IN  [team |-> team, first |-> Min(mine), matchCount |-> Cardinality(mine),
         latest |-> last, divisionId |-> matches[shown].division]

(* A later aggregate takes the place of an earlier one only when it has    *)
(* more matches, or as many and a later one.                               *)
Beats(a, b) ==
    \/ a.matchCount > b.matchCount
    \/ /\ a.matchCount = b.matchCount
       /\ a.latest # None
       /\ b.latest = None \/ a.latest > b.latest

ComputeMyTeamSummary(matches, club) ==
    LET teams == {TeamOf(matches[i], club) : i \in DOMAIN matches} \ {None}
        all == {Aggregate(matches, club, t) : t \in teams}
        unbeaten == {a \in all : \A b \in all : ~Beats(b, a)}
        winner == CHOOSE a \in unbeaten : \A b \in unbeaten : a.first <= b.first
    IN  IF club = None \/ teams = {} THEN None
        ELSE [team |-> winner.team, divisionId |-> winner.divisionId,
              matchCount |-> winner.matchCount]

(* The club's matches that the member's results name. *)
GetLatestMatches(clubMatches, ids) == SelectSeq(clubMatches, LAMBDA m : m.id \in ids)
===============================================================================
