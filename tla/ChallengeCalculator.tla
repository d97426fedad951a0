--------------------------- MODULE ChallengeCalculator ---------------------------
(***************************************************************************)
(* What one calculation of the challenge computes                          *)
(* (apps/challenge-worker/src/challenge-calculator.service.ts): who played *)
(* which matches, the points of each, the level a player is ranked at and  *)
(* the position there.                                                     *)
(*                                                                         *)
(* A season is a record: divisions, a sequence of [id, level]; levels, a   *)
(* sequence, the strongest first; regions, of each club that takes part;   *)
(* excluded, players; overrides, records; rules, or None.  Players have    *)
(* positive numbers, names are numbers that order as the names do.         *)
(***************************************************************************)
EXTENDS Integers, FiniteSets, Sequences, SequencesExt, FiniteSetsExt, Common

Error == [failed |-> TRUE]

MaxAttempts == 4

(* Is n of them the first answer that is not to be asked for again?  429   *)
(* and 5xx are "busy", the others that are no success "refused".           *)
FetchMatches(answers) ==
    \E n \in 1 .. MaxAttempts :
        answers[n] = "ok" /\ \A k \in 1 .. n - 1 : answers[k] = "busy"

(* The matches of a division that count in this week, with its level. *)
ConsumedMatches(season, matches, week) ==
    LET Counts(d) == SelectSeq(matches[d.id], LAMBDA m :
                         m.week # None /\ m.week <= week /\ m.division = d.id)
    IN  FlattenSeq([i \in DOMAIN season.divisions |->
            [k \in DOMAIN Counts(season.divisions[i]) |->
                [match |-> Counts(season.divisions[i])[k],
                 level |-> season.divisions[i].level]]])

CountVictories(player, side, m) ==
    Cardinality({i \in DOMAIN m.results :
        /\ player.index \in m.results[i].players[side]
        /\ m.results[i].sets[side] > m.results[i].sets[Other(side)]})

CountIndividualForfeits(player, side, m) ==
    LET individual == {i \in DOMAIN m.results :
            /\ player.index \in m.results[i].players[side]
            /\ m.results[i].forfeited[Other(side)] /\ ~m.results[i].forfeited[side]}
        opposing == {i \in DOMAIN m.players[Other(side)] :
            m.players[Other(side)][i].forfeited}
    IN  Max({Cardinality(individual), Cardinality(opposing)})

ReadPointRules(rules) == IF rules = None THEN [perWin |-> 1, forFour |-> 5] ELSE rules

CalculatePoints(victories, forfeit, rules) ==
    IF victories + forfeit = 4 THEN rules.forFour ELSE (victories + forfeit) * rules.perWin

IsEmptyRosterSlot(p)  == p.index = 0 /\ ~p.named
IsUnnormalizable(p)   == ~IsEmptyRosterSlot(p) /\ p.index <= 0

(* The members of one team whose match counts. *)
Team(season, m, side) ==
    IF m.detailsCreated /\ m.club[side] \in DOMAIN season.regions
    THEN m.players[side] ELSE <<>>

ConsumeTeam(season, consumed, side) ==
    LET m == consumed.match
        entered == SelectSeq(Team(season, m, side), LAMBDA p :
                       ~IsEmptyRosterSlot(p) /\ p.index \notin season.excluded)
        victories(p) == IF m.forfeited[Other(side)] THEN 0 ELSE CountVictories(p, side, m)
        forfeit(p) == IF m.forfeited[Other(side)] THEN 4
                      ELSE CountIndividualForfeits(p, side, m)
    IN  [i \in DOMAIN entered |->
            LET p == entered[i] IN
            [player |-> p.index, name |-> p.name, club |-> m.club[side],
             division |-> m.division, week |-> m.week, match |-> m.id,
             level |-> consumed.level, victories |-> victories(p), forfeit |-> forfeit(p),
             points |-> CalculatePoints(victories(p), forfeit(p),
                                        ReadPointRules(season.rules))]]

(* A player counts once in a match, as seenPlayerMatch sees to. *)
OncePerMatch(entries) ==
    LET Seen(i) == \E j \in 1 .. i - 1 :
            entries[j].player = entries[i].player /\ entries[j].match = entries[i].match
        kept == SelectSeq([i \in DOMAIN entries |-> i], LAMBDA i : ~Seen(i))
    IN  [k \in DOMAIN kept |-> entries[kept[k]]]

Participations(season, matches, week) ==
    LET consumed == ConsumedMatches(season, matches, week)
    IN  OncePerMatch(FlattenSeq([i \in DOMAIN consumed |->
            ConsumeTeam(season, consumed[i], "home")
                \o ConsumeTeam(season, consumed[i], "away")]))

Mine(points, player) == {i \in DOMAIN points : points[i].player = player}

(* An override replaces the first point the player has in that week. *)
FirstOf(points, o) ==
    LET hits == {i \in Mine(points, o.player) : points[i].week = o.week}
    IN  IF hits = {} THEN None ELSE Min(hits)

ApplyOverrides(points, overrides, rules) ==
    LET Touched(i) == {o \in overrides : FirstOf(points, o) = i}
        Overridden(p, o) ==
            LET v == IF o.victories = None THEN p.victories ELSE o.victories
                f == IF o.forfeit = None THEN p.forfeit ELSE o.forfeit
            IN  [p EXCEPT !.victories = v, !.forfeit = f,
                          !.points = CalculatePoints(v, f, rules)]
    IN  [i \in DOMAIN points |->
            IF Touched(i) = {} THEN points[i]
            ELSE Overridden(points[i], CHOOSE o \in Touched(i) : TRUE)]

(* Is the first of these tuples before the second, part by part? *)
Precedes(x, y) ==
    \E i \in DOMAIN x : x[i] < y[i] /\ \A j \in 1 .. i - 1 : x[j] = y[j]

Order(season, level) == CHOOSE i \in DOMAIN season.levels : season.levels[i] = level

(* Mutant: of the levels played at as often, the one met first. *)
AttributeLevelFirstMet(season, points, mine) ==
    LET Played(i) == Cardinality({j \in mine : points[j].level = points[i].level})
        most == {i \in mine : \A j \in mine : Played(j) <= Played(i)}
    IN  points[Min(most)].level

(* The level most played at; then the one played at first; then the stronger. *)
AttributeLevel(season, points, mine) ==
    LET At(l) == {i \in mine : points[i].level = l}
        Weight(l) == <<-Cardinality(At(l)), Min({points[i].week : i \in At(l)}),
                       Order(season, l)>>
    IN  CHOOSE l \in {points[i].level : i \in mine} :
            \A k \in {points[i].level : i \in mine} \ {l} : Precedes(Weight(l), Weight(k))

(* The row of a player: the club of the match consumed last, the name of   *)
(* the first, and the points made at this level or a stronger one.         *)
RankingOf(season, points, player) ==
    LET mine == Mine(points, player)
        club == points[Max(mine)].club
        level == AttributeLevel(season, points, mine)
        counted == {i \in mine : Order(season, points[i].level) <= Order(season, level)}
    IN  [player |-> player, name |-> points[Min(mine)].name, club |-> club,
         region |-> season.regions[club], level |-> level,
         points |-> MapThenSumSet(LAMBDA i : points[i].points, counted),
         count |-> [k \in {0, 1, 2, 3, 5} |->
                        Cardinality({i \in counted : points[i].points = k})]]

RankingKey(r) == <<-r.points, -r.count[5], -r.count[3], -r.count[2], -r.count[1], r.name>>

(* Array.sort is stable, and the rows come in the order of the players'    *)
(* first matches.                                                          *)
Positioned(rows, i) ==
    LET group == {j \in DOMAIN rows :
            rows[j].region = rows[i].region /\ rows[j].level = rows[i].level}
        before == {j \in group :
            \/ Precedes(RankingKey(rows[j]), RankingKey(rows[i]))
            \/ RankingKey(rows[j]) = RankingKey(rows[i]) /\ j < i}
    IN  [row |-> rows[i], position |-> Cardinality(before) + 1,
         totalParticipants |-> Cardinality(group)]

RegionSummary(season, rankings, region) ==
    LET here == {r \in rankings : r.row.region = region}
    IN  [totalPlayers |-> Cardinality(here),
         playersByLevel |-> [l \in Range(season.levels) |->
                                Cardinality({r \in here : r.row.level = l})],
         clubs |-> {r.row.club : r \in here}]

(* It hashes the rows sorted by region, level, position and player: the    *)
(* set of them.                                                            *)
ComputeRankingChecksum(rankings) == rankings

Calculate(season, answers, matches, week) ==
    LET rules == ReadPointRules(season.rules)
        weekly == {o \in season.overrides : o.week <= week}
        consumed == ConsumedMatches(season, matches, week)
        entered == Participations(season, matches, week)
        points == ApplyOverrides(entered, weekly, rules)
        first == SelectSeq([i \in DOMAIN points |-> i], LAMBDA i :
                     ~\E j \in 1 .. i - 1 : points[j].player = points[i].player)
        rows == [k \in DOMAIN first |-> RankingOf(season, points, points[first[k]].player)]
        rankings == {Positioned(rows, i) : i \in DOMAIN rows}
        members(i, side) == Range(Team(season, consumed[i].match, side))
    IN  IF \/ \E d \in Range(season.divisions) : ~FetchMatches(answers[d.id])
           \/ \E i \in DOMAIN consumed, side \in Sides :
                  \E p \in members(i, side) : IsUnnormalizable(p)
           \/ \E o \in weekly : FirstOf(entered, o) = None
        THEN Error
        ELSE [points |-> Range(points), rankings |-> rankings,
              regionSummaries |-> [r \in Range(season.regions) |->
                                      RegionSummary(season, rankings, r)],
              checksum |-> ComputeRankingChecksum(rankings)]
===============================================================================
