------------------------------ MODULE RankingTables ------------------------------
(***************************************************************************)
(* The letters of the numeric ranking                                      *)
(* (libs/common/src/ranking-estimation.constants.ts) and the histories     *)
(* that show them (services/members/numeric-ranking.service.ts).           *)
(*                                                                         *)
(* A table has, for a number of players, the last position of each letter. *)
(* A letter is its place in Letters.                                       *)
(***************************************************************************)
EXTENDS Integers, FiniteSets, Sequences, SequencesExt, FiniteSetsExt, Common

Letters == <<"A", "B0", "B2", "B4", "B6", "C0", "C2", "C4", "C6",
             "D0", "D2", "D4", "D6", "E0", "E2", "E4", "E6", "NC">>

(* The numbers of players that have a table, the tables of up to 17000     *)
(* players, and those of more.                                             *)
Sizes == {14000, 14500, 15000, 15500, 16000, 16500, 17000,
          17500, 18000, 18500, 19000, 19500, 20000}

SmallTable(n) ==
    CASE n = 14000 -> <<20, 75, 200, 415, 780, 1250, 1890, 2655, 3460, 4350, 5240, 6215, 7190, 8250, 9730, 11425, 13540, 14000>>
      [] n = 14500 -> <<20, 75, 205, 425, 800, 1285, 1945, 2740, 3575, 4500, 5425, 6435, 7445, 8545, 10080, 11835, 14020, 14500>>
      [] n = 15000 -> <<20, 75, 210, 440, 830, 1330, 2015, 2835, 3700, 4655, 5610, 6655, 7700, 8835, 10425, 12240, 14505, 15000>>
      [] n = 15500 -> <<20, 75, 220, 455, 855, 1375, 2080, 2925, 3820, 4810, 5795, 6875, 7955, 9130, 10770, 12645, 14990, 15500>>
      [] n = 16000 -> <<20, 75, 225, 470, 885, 1420, 2150, 3025, 3945, 4965, 5985, 7100, 8215, 9425, 11120, 13055, 15470, 16000>>
      [] n = 16500 -> <<20, 75, 225, 475, 900, 1450, 2200, 3100, 4050, 5100, 6150, 7300, 8450, 9700, 11450, 13450, 15950, 16500>>
      [] n = 17000 -> <<20, 75, 240, 500, 940, 1510, 2285, 3215, 4195, 5275, 6355, 7540, 8725, 10010, 11810, 13870, 16440, 17000>>

LargeTable(n) ==
    CASE n = 17500 -> <<20, 75, 245, 515, 970, 1555, 2350, 3305, 4315, 5430, 6545, 7765, 8985, 10310, 12165, 14280, 16920, 17500>>
      [] n = 18000 -> <<20, 75, 250, 525, 990, 1590, 2410, 3395, 4435, 5580, 6725, 7980, 9235, 10600, 12505, 14685, 17405, 18000>>
      [] n = 18500 -> <<20, 75, 260, 545, 1025, 1645, 2485, 3495, 4560, 5740, 6920, 8210, 9500, 10900, 12860, 15095, 17890, 18500>>
      [] n = 19000 -> <<20, 75, 265, 555, 1045, 1680, 2545, 3585, 4680, 5890, 7100, 8425, 9750, 11190, 13200, 15500, 18370, 19000>>
      [] n = 19500 -> <<20, 75, 270, 570, 1075, 1725, 2615, 3680, 4805, 6045, 7285, 8645, 10005, 11480, 13545, 15905, 18855, 19500>>
      [] n = 20000 -> <<20, 75, 280, 585, 1100, 1770, 2680, 3775, 4930, 6205, 7480, 8875, 10270, 11785, 13900, 16320, 19340, 20000>>

Table(n) == IF n <= 17000 THEN SmallTable(n) ELSE LargeTable(n)

(* Mutant: 5580 with two digits exchanged. *)
WomanRankingEstimationMistyped ==
    [n \in Sizes |-> IF n = 18000 THEN [Table(n) EXCEPT ![10] = 5850] ELSE Table(n)]

WomanRankingEstimation == [n \in Sizes |-> Table(n)]

(* The table of the men has the same numbers. *)
MenRankingEstimation == WomanRankingEstimation

(* The largest table that is not larger than the players; else the least. *)
GetRankingEstimationTable(totalPlayers, category) ==
    LET table == IF category = "SENIOR_MEN" THEN MenRankingEstimation
                                            ELSE WomanRankingEstimation
        fitting == {n \in DOMAIN table : n <= totalPlayers}
    IN  table[IF fitting = {} THEN Min(DOMAIN table) ELSE Max(fitting)]

(* The first letter whose last position the position does not pass. *)
EstimateLetterRanking(position, totalPlayers, category) ==
    IF position = None \/ position <= 0 THEN None
    ELSE LET last == GetRankingEstimationTable(totalPlayers, category)
             within == {i \in DOMAIN last : position <= last[i]}
         IN  IF within = {} THEN Len(Letters) ELSE Min(within)

(* A point of the import is a record: date, points, ranking (among active  *)
(* players, or None), rankingWI (among all, or None) and letter (or None). *)
ActiveNumericRanking(p) == IF p.ranking # None THEN p.ranking ELSE p.rankingWI

GetWeeklyRankingV1(points, totalPlayers, category) ==
    LET Letter(p) == IF p.letter # None THEN p.letter
                     ELSE EstimateLetterRanking(ActiveNumericRanking(p), totalPlayers, category)
    IN  [i \in DOMAIN points |->
            [numericRanking |-> ActiveNumericRanking(points[i]),
             rankingLetterEstimation |-> Letter(points[i]),   \* None shows as "-"
             numericPoints |-> points[i].points, date |-> points[i].date]]

GetActualPoints(points) ==
    SortSeq(points, LAMBDA p, q : p.date < q.date)

(* A result is a record: date, competition, memberPoints (or None) and     *)
(* toAdd.  Those of a day and a competition are one event; the events come *)
(* in the order of their keys, and each one begins where the last ended.   *)
GetResultsDetailsHistory(results) ==
    LET ordered == SortSeq(results, LAMBDA r, s : r.date < s.date)
        KeyOf(r) == <<r.date, r.competition>>
        keys == SetToSortSeq({KeyOf(results[i]) : i \in DOMAIN results}, LAMBDA k, l :
                    \/ k[1] < l[1]
                    \/ k[1] = l[1] /\ k[2] < l[2])
        Won(key) == MapThenSumSet(LAMBDA i : results[i].toAdd,
                        {i \in DOMAIN results : KeyOf(results[i]) = key})
        first == IF results = <<>> \/ ordered[1].memberPoints = None
                 THEN 0 ELSE ordered[1].memberPoints
        Until(n) == first + MapThenSumSet(LAMBDA k : Won(keys[k]), 1 .. n)
        event(n) == [date |-> keys[n][1], competition |-> keys[n][2],
                     basePoints |-> Until(n - 1), endPoints |-> Until(n)]
    IN  Reverse([n \in DOMAIN keys |-> event(n)])
===============================================================================
