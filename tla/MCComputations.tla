------------------------------ MODULE MCComputations ------------------------------
(***************************************************************************)
(* TLC instance of Computations: the questions that are asked.             *)
(***************************************************************************)
EXTENDS Computations, TLC

-------------------------------------------------------------------------------
(* The calculator: a division of each of two levels, three matches, three  *)
(* players of whom two have one name, and week 2.                          *)

Sheet(week, home, away, duel) ==
    [week |-> week, home |-> home, away |-> away, duel |-> duel]

Sheets == {Sheet(week, home, away, duel) :
    week \in 1 .. 2, home \in {<<11>>, <<21, 11>>}, away \in {<<12>>, <<21>>},
    duel \in {"homeWon", "awayWon", "awayLeft", "awayOut"}}

ThirdSheets == {Sheet(2, <<12>>, <<11>>, "awayWon"), Sheet(1, <<21>>, <<0>>, "homeWon"),
                Sheet(2, <<11>>, <<-1>>, "homeWon"), Sheet(3, <<11>>, <<12>>, "homeWon")}

Members(indices) ==
    [i \in DOMAIN indices |-> [index |-> indices[i], named |-> indices[i] # 0,
                               name |-> indices[i] % 10, forfeited |-> FALSE]]

Match(id, division, s) ==
    LET Score(side) == IF s.duel = side \o "Won" THEN 3 ELSE 1
    IN  [id |-> id, division |-> division, week |-> s.week, detailsCreated |-> TRUE,
         club |-> [home |-> "c1", away |-> "c2"],
         players |-> [home |-> Members(s.home), away |-> Members(s.away)],
         forfeited |-> [home |-> FALSE, away |-> s.duel = "awayOut"],
         results |-> <<[players |-> [home |-> {s.home[1]}, away |-> {s.away[1]}],
                        sets |-> [home |-> Score("home"), away |-> Score("away")],
                        forfeited |-> [home |-> FALSE, away |-> s.duel = "awayLeft"]]>>]

Season ==
    [divisions |-> <<[id |-> 1, level |-> "high"], [id |-> 2, level |-> "low"]>>,
     levels |-> <<"high", "low">>, regions |-> ("c1" :> "north") @@ ("c2" :> "north"),
     excluded |-> {}, overrides |-> {}, rules |-> None,
     answers |-> [d \in 1 .. 2 |-> <<"busy", "ok", "ok", "ok">>]]

Seasons ==
    {Season,
     [Season EXCEPT !.overrides = {[player |-> 11, week |-> 1, victories |-> 4, forfeit |-> 0]},
                    !.rules = [perWin |-> 2, forFour |-> 9]],
     [Season EXCEPT !.excluded = {12}, !.regions = "c1" :> "north"],
     [Season EXCEPT !.answers[2] = <<"busy", "refused", "ok", "ok">>]}

MCChallengeInputs ==
    {[service |-> "challenge", season |-> season, week |-> 2,
      matches |-> <<<<Match("m1", 1, a)>>, <<Match("m2", 2, b), Match("m3", 2, c)>>>>] :
        season \in Seasons, a \in Sheets, b \in Sheets, c \in ThirdSheets}

-------------------------------------------------------------------------------
(* A member's statistics: up to four results, of days that differ.         *)

Outcomes == {[won |-> TRUE, for |-> 3, against |-> 0], [won |-> TRUE, for |-> 3, against |-> 2],
             [won |-> FALSE, for |-> 2, against |-> 3]}

Entry(at, o) ==
    [won |-> o.won, at |-> at, hour |-> 9 + 4 * at, day |-> at, month |-> at \div 2,
     setFor |-> o.for, setAgainst |-> o.against, ranking |-> 5 + o.against]

History == <<[points |-> 1000, letter |-> 7], [points |-> 1040, letter |-> None]>>

StatsQuestion(days, outcomes) ==
    [service |-> "stats", ranking |-> 8, history |-> History,
     entries |-> [i \in DOMAIN days |-> Entry(days[i], outcomes[i])]]

(* Some orders of four days, and two results of one day. *)
Days(n) == IF n = 4 THEN {<<2, 1, 4, 3>>, <<1, 3, 4, 2>>, <<3, 2, 1, 2>>} ELSE [1 .. n -> 1 .. n]

MCStatsInputs ==
    UNION {{StatsQuestion(days, outcomes) : days \in Days(n), outcomes \in [1 .. n -> Outcomes]} :
               n \in 0 .. 4}

(* Every other match is away and of another division. *)
Fixture(team, at, away) ==
    LET club == <<"mine", "other">>
        teams == <<team, "X">>
    IN  [homeClub |-> club[away + 1], awayClub |-> club[2 - away],
         homeTeam |-> teams[away + 1], awayTeam |-> teams[2 - away],
         at |-> at, division |-> <<team, away>>]

TeamQuestion(n, team, at) ==
    [service |-> "team", club |-> "mine",
     matches |-> [i \in 1 .. n |-> Fixture(team[i], at[i], i % 2)]]

MCTeamInputs ==
    UNION {{TeamQuestion(n, team, at) :
               team \in [1 .. n -> {"A", "B"}], at \in [1 .. n -> {None, 1, 2}]} : n \in 0 .. 4}

(* The results of up to two matches of a day, their events and the letters. *)
HistoryQuestion(n, date, toAdd) ==
    [service |-> "history", total |-> 14000, category |-> "SENIOR_MEN",
     results |-> [i \in 1 .. n |-> [date |-> date[i], competition |-> i,
                                    memberPoints |-> 100, toAdd |-> toAdd[i]]],
     points |-> [i \in 1 .. n |-> [date |-> date[i], points |-> 100 + toAdd[i],
                                   ranking |-> IF i = 1 THEN 80 ELSE None,
                                   rankingWI |-> 90, letter |-> None]]]

MCHistoryInputs ==
    UNION {{HistoryQuestion(n, date, toAdd) :
               date \in [1 .. n -> 1 .. 2], toAdd \in [1 .. n -> {-5, 10}]} : n \in 0 .. 2}

-------------------------------------------------------------------------------
(* The letters: the last positions of every table, those after them, and   *)
(* numbers of players around those of the tables.                          *)

LastPositions == UNION {Range(WomanRankingEstimation[n]) : n \in DOMAIN WomanRankingEstimation}
Positions == LastPositions \cup {p + 1 : p \in LastPositions}
Totals == {13000} \cup DOMAIN WomanRankingEstimation \cup {15499, 20001}

MCLetterInputs ==
    [service : {"letter"}, position : Positions, total : Totals,
     category : {"SENIOR_MEN", "SENIOR_WOMEN"}]

-------------------------------------------------------------------------------
(* The ranker: up to two matches of two clubs, the second duel a double.   *)

DuelOf(home, away, how) ==
    [players |-> [home |-> home, away |-> away],
     sets |-> [home |-> IF how = "homeWon" THEN 3 ELSE 0, away |-> IF how = "awayWon" THEN 3 ELSE 0],
     forfeited |-> [home |-> FALSE, away |-> how = "awayLeft"]]

RankerMatch(i, single, double) ==
    [detailsCreated |-> i < 3 \/ single # "awayLeft",
     club |-> [home |-> "c1", away |-> "c2"],
     players |-> [home |-> <<1, 2>>, away |-> <<i + 2, 9>>],
     results |-> <<DuelOf({1}, {i + 2}, single), DuelOf({1, 2}, {i + 2, 9}, double)>>]

Results == {"homeWon", "awayWon", "awayLeft"}
Systems == {"MOST_PLAYED", "BEST_PERF_PER_PCT", "BEST_PERF_PER_WIN"}

MCRankerInputs ==
    UNION {{[service |-> "ranker", system |-> system, keepClub |-> keepClub,
             matches |-> [i \in 1 .. n |-> RankerMatch(i, single[i], double[i])]] :
                single \in [1 .. n -> Results], double \in [1 .. n -> Results],
                system \in Systems, keepClub \in {None, "c1"}} : n \in 1 .. 3}

-------------------------------------------------------------------------------
(* The advice: three starters, two or three opponents, and a reserve.  The *)
(* export numbers members apart from their licences, or so that nobody,    *)
(* everybody, some or the wrong ones are found.                            *)

MCDuel(mine, theirs) ==
    LET lead == mine - theirs
    IN  IF lead >= 2 THEN 9 ELSE IF lead <= -2 THEN 1 ELSE 5 + 2 * lead

MCLegalOrder(rule, order) ==
    CASE rule = "byStrength" -> \A i \in 1 .. Len(order) - 1 :
                                    order[i].rankingIndex <= order[i + 1].rankingIndex
      [] rule = "any" -> TRUE
      [] rule = "never" -> FALSE

MemberIds ==
    {[i \in 1 .. 4 |-> 100 + i], [i \in 1 .. 4 |-> i],
     [i \in 1 .. 4 |-> IF i \in {1, 3} THEN i ELSE 100 + i], [i \in 1 .. 4 |-> (i % 4) + 1]}

AdviceQuestion(ids, points, ranks, theirs, rule) ==
    [service |-> "advice", rule |-> rule, team |-> [rank |-> 1, size |-> 3],
     slots |-> [i \in 1 .. 3 |-> [index |-> i, role |-> "TITULAIRE", orderPos |-> i]],
     roster |-> {[index |-> i, rankingIndex |-> IF i = 4 THEN 9 ELSE ranks[i]] : i \in 1 .. 4},
     opposing |-> {[index |-> 10 + i, rankingIndex |-> i] : i \in DOMAIN theirs},
     rows |-> {[memberId |-> ids[i], memberLicence |-> i, date |-> 1, points |-> points[i]] :
                   i \in 1 .. 4}
              \cup {[memberId |-> 10 + ids[i], memberLicence |-> 10 + i, date |-> d,
                     points |-> theirs[i] + d - 2] : i \in DOMAIN theirs, d \in 1 .. 2}]

MCAdviceInputs ==
    {AdviceQuestion(ids, points, ranks, theirs, rule) : ids \in MemberIds,
        points \in [1 .. 4 -> 1 .. 3], ranks \in {<<1, 1, 2>>, <<1, 2, 2>>, <<1, 2, 3>>},
        theirs \in {<<3, 2, 1>>, <<2, 2>>, <<>>}, rule \in {"byStrength", "any", "never"}}

MCStrengths == (0 .. 3) \cup {2000 - 40 * r : r \in 1 .. 9}

HubMatch(i, at) == [id |-> i, division |-> IF i = 3 THEN "d2" ELSE "d1", at |-> at]

MCHubInputs ==
    {[service |-> "hub", teams |-> <<[division |-> "d1"], [division |-> "d2"]>>, now |-> 2,
      matches |-> [i \in 1 .. 3 |-> HubMatch(i, at[i])],
      polls |-> IF polled THEN 1 :> ("p" :> "PRESENT" @@ "q" :> "PENDING") ELSE <<>>,
      lineups |-> 2 :> "VALIDEE", convocations |-> {3}] :
        at \in [1 .. 3 -> {None, 1, 2, 3}], polled \in BOOLEAN}

-------------------------------------------------------------------------------
(* The next publication: in Brussels it is an hour later than in UTC, and  *)
(* two from the change of the clocks, at one o'clock of day 3, on.         *)
Offset == [t \in 0 .. 24 * 8 |-> IF t >= 24 * 3 + 1 THEN 2 ELSE 1]

MCPublicationInputs ==
    {[service |-> "publication", dates |-> SetToSeq(dates), now |-> now, hour |-> hour,
      offset |-> Offset] :
        dates \in SUBSET (1 .. 5), now \in {22, 23, 41, 42, 43, 71, 90}, hour \in {0, 20}}
===============================================================================
