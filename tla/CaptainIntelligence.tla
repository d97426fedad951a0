--------------------------- MODULE CaptainIntelligence ---------------------------
(***************************************************************************)
(* What a captain is advised for a saved line-up                           *)
(* (apps/tabt-rest/src/captain/intelligence) and what the hub shows of the *)
(* matches to come (apps/tabt-rest/src/captain/hub).                       *)
(*                                                                         *)
(* A player of a roster is a record: index, the federation's licence, and  *)
(* rankingIndex.  A row of points is one too: memberId and memberLicence,  *)
(* two columns of the federation's export, date and points.  A probability *)
(* is a number of parts of Scale; duel gives the one that a player with    *)
(* these points beats one with those, the logistic curve of                *)
(* win-probability.ts.                                                     *)
(***************************************************************************)
EXTENDS Integers, FiniteSets, Sequences, SequencesExt, FiniteSetsExt, Functions, Common

CONSTANTS
    Scale,      \* the parts of a probability
    Duel(_, _), \* of the points of two players, who wins: parts of Scale
    MaxOffered  \* the reinforcements shown

ASSUME ScaleAssumption == Scale \in Nat \ {0} /\ MaxOffered \in Nat \ {0}

-------------------------------------------------------------------------------
(* Probabilities.                                                          *)

DuelProbability(mine, theirs) == Duel(mine, theirs)

(* Of some duels, each with its probability, how many are won: dist[k] is   *)
(* the probability of k, in parts of Certainty, whatever the duels' order. *)
Successes(probs) ==
    LET counts == 0 .. Cardinality(DOMAIN probs)
        Next(d, dist) ==
            [k \in counts |-> dist[k] * (Scale - probs[d])
                                + (IF k = 0 THEN 0 ELSE dist[k - 1] * probs[d])]
    IN  FoldSet(Next, [k \in counts |-> IF k = 0 THEN 1 ELSE 0], DOMAIN probs)

Certainty(duels) == FoldSet(LAMBDA d, parts : Scale * parts, 1, duels)

ProbabilityAtLeast(probs, required) ==
    SumFunctionOnSet(Successes(probs), required .. Cardinality(DOMAIN probs))

(* Everybody meets everybody. *)
Duels(mine, theirs) == (DOMAIN mine) \X (DOMAIN theirs)

(* A strict majority of the duels wins.  None is the half that is said of  *)
(* a team of nobody.                                                       *)
TeamWinProbability(mine, theirs) ==
    LET probs == [d \in Duels(mine, theirs) |-> DuelProbability(mine[d[1]], theirs[d[2]])]
    IN  IF mine = <<>> \/ theirs = <<>> THEN None
        ELSE ProbabilityAtLeast(probs, Cardinality(DOMAIN probs) \div 2 + 1)

-------------------------------------------------------------------------------
(* The advice.                                                             *)

(* The points imported last for a memberId, which the code looks for under *)
(* a player's licence.                                                     *)
LoadPoints(rows, index) ==
    LET mine == {r \in rows : r.memberId = index}
    IN  IF mine = {} THEN None
        ELSE (CHOOSE r \in mine : \A s \in mine : s.date <= r.date).points

PointsOf(rows, p) ==
    IF LoadPoints(rows, p.index) # None THEN LoadPoints(rows, p.index)
    ELSE 2000 - p.rankingIndex * 40

Points(rows, players) == [i \in DOMAIN players |-> PointsOf(rows, players[i])]

(* The starters in their order, those of them the roster knows. *)
Starters(slots, roster) ==
    LET kept == {i \in DOMAIN slots :
            /\ slots[i].role = "TITULAIRE" /\ slots[i].orderPos <= 100
            /\ \E p \in roster : p.index = slots[i].index}
        inOrder == InOrder(kept, LAMBDA i, j :
            \/ slots[i].orderPos < slots[j].orderPos
            \/ slots[i].orderPos = slots[j].orderPos /\ i < j)
    IN  [n \in DOMAIN inOrder |-> CHOOSE p \in roster : p.index = slots[inOrder[n]].index]

(* The strongest of the opponent's club.  Ties are in the order of the     *)
(* roster: of indexes.                                                     *)
Opponents(roster, teamSize) ==
    LET sorted == InOrder(roster, LAMBDA p, q :
            \/ p.rankingIndex < q.rankingIndex
            \/ p.rankingIndex = q.rankingIndex /\ p.index < q.index)
    IN  SubSeq(sorted, 1, Min({teamSize, Len(sorted)}))

PositionalExpected(mine, theirs, rows) ==
    LET met == {i \in DOMAIN mine : i <= Len(theirs)}
    IN  SumFunctionOnSet([i \in met |-> DuelProbability(PointsOf(rows, mine[i]),
                                                       PointsOf(rows, theirs[i]))], met)

(* Every order of these players; permutations makes them in theirs, those  *)
(* that begin alike by the first place they differ at.                     *)
Orders(n) == {p \in [1 .. n -> 1 .. n] : IsInjective(p)}

Earlier(p, q) ==
    \E i \in DOMAIN p : p[i] < q[i] /\ \A j \in 1 .. i - 1 : p[j] = q[j]

Arranged(players, p) == [i \in DOMAIN players |-> players[p[i]]]

(* An order is tried: one that the rule set finds no error in (accepted)   *)
(* and that promises more replaces the best so far.  The other line-ups of *)
(* the week are not looked at.  Mutant: or one that promises as much.      *)
TryOrderLast(best, order, score, accepted) ==
    IF order \in accepted /\ score >= best.expected
    THEN [order |-> order, expected |-> score] ELSE best
TryOrder(best, order, score, accepted) ==
    IF order \in accepted /\ score > best.expected
    THEN [order |-> order, expected |-> score] ELSE best

(* All orders are tried in turn, and the given one stays if none is legal. *)
OptimalOrder(starters, opponents, rows, accepted) ==
    LET perms == InOrder(Orders(Len(starters)), Earlier)
        Score(order) == PositionalExpected(order, opponents, rows)
        Tried(n) == Arranged(starters, perms[n])
        best[n \in 0 .. Len(perms)] ==
            IF n = 0 THEN [order |-> starters, expected |-> -1]
            ELSE TryOrder(best[n - 1], Tried(n), Score(Tried(n)), accepted)
        found == best[Len(perms)]
    IN  IF found.expected < 0 THEN [order |-> starters, expected |-> Score(starters)]
        ELSE found

FaceToFace(mine, theirs, rows) ==
    LET prob(i) == IF i <= Len(theirs)
                   THEN DuelProbability(PointsOf(rows, mine[i]), PointsOf(rows, theirs[i]))
                   ELSE Scale \div 2
        edge(p) == IF 10 * p >= 6 * Scale THEN "ADVANTAGE"
                   ELSE IF 10 * p <= 4 * Scale THEN "TRAP" ELSE "TIGHT"
    IN  [i \in DOMAIN mine |->
            [position |-> i, mine |-> mine[i].index,
             theirs |-> IF i <= Len(theirs) THEN theirs[i].index ELSE None,
             edge |-> edge(prob(i)), winProbability |-> prob(i)]]

(* The place in the club that the team's last starter has. *)
LowestPlace(rank, size) == rank * size

(* Those who would raise the chance in the place of the weakest starter,   *)
(* the best ones first.  Ties are in the order of the roster: of indexes.  *)
Reinforcements(team, starters, opponents, roster, rows) ==
    LET Pts(p) == PointsOf(rows, p)
        weakest == CHOOSE i \in DOMAIN starters : \A j \in DOMAIN starters :
                       \/ Pts(starters[i]) < Pts(starters[j])
                       \/ Pts(starters[i]) = Pts(starters[j]) /\ i <= j
        theirs == Points(rows, opponents)
        base == TeamWinProbability(Points(rows, starters), theirs)
        Gain(p) == IF starters = <<>> \/ theirs = <<>> THEN 0
                   ELSE TeamWinProbability(
                            Points(rows, [starters EXCEPT ![weakest] = p]), theirs) - base
        Candidate(p) == [index |-> p.index, probabilityGain |-> Gain(p),
                         eligible |-> p.rankingIndex >= LowestPlace(team.rank, team.size)]
        gaining == {Candidate(p) : p \in {q \in roster \ Range(starters) : Gain(q) > 0}}
        sorted == SetToSortSeq(gaining, LAMBDA c, d :
                      \/ c.probabilityGain > d.probabilityGain
                      \/ c.probabilityGain = d.probabilityGain /\ c.index < d.index)
    IN  SubSeq(sorted, 1, Min({MaxOffered, Len(sorted)}))

(* probabilityDelta is the gain of all places together: the code divides   *)
(* it by the number of starters, and says 0 where there is none.           *)
GetIntelligence(team, slots, roster, theirRoster, rows, accepted) ==
    LET starters == Starters(slots, roster)
        opponents == Opponents(theirRoster, team.size)
        optimal == OptimalOrder(starters, opponents, rows, accepted)
    IN  [winProbability |-> TeamWinProbability(Points(rows, starters), Points(rows, opponents)),
         probabilityDelta |-> optimal.expected - PositionalExpected(starters, opponents, rows),
         optimalOrder |-> optimal.order,
         faceToFace |-> FaceToFace(optimal.order, opponents, rows),
         reinforcements |-> Reinforcements(team, starters, opponents, roster, rows)]

-------------------------------------------------------------------------------
(* The hub.                                                                *)

(* Of each division, the next of the club's matches; the first of those at *)
(* the same time.                                                          *)
UpcomingByDivision(matches, now) ==
    LET coming == {i \in DOMAIN matches : matches[i].at # None /\ matches[i].at >= now}
        Of(d) == {i \in coming : matches[i].division = d}
        next(d) == CHOOSE i \in Of(d) : \A j \in Of(d) :
                       \/ matches[i].at < matches[j].at
                       \/ matches[i].at = matches[j].at /\ i <= j
    IN  [d \in {matches[i].division : i \in coming} |-> matches[next(d)]]

(* What is prepared for a match: the answers to its poll, the status of    *)
(* its line-up, and whether a convocation was sent.                        *)
Prep(match, polls, lineups, convocations) ==
    LET Answers(status) == Cardinality({p \in DOMAIN polls[match] : polls[match][p] = status})
    IN  [availability |-> IF match \notin DOMAIN polls THEN None
                          ELSE [s \in {"PRESENT", "ABSENT", "PENDING"} |-> Answers(s)],
         lineupStatus |-> IF match \in DOMAIN lineups THEN lineups[match] ELSE "A_FAIRE",
         convocationSent |-> match \in convocations]

GetHub(teams, matches, now, polls, lineups, convocations) ==
    LET next == UpcomingByDivision(matches, now)
    IN  [i \in DOMAIN teams |->
            IF teams[i].division \notin DOMAIN next THEN [team |-> teams[i], match |-> None]
            ELSE [team |-> teams[i], match |-> next[teams[i].division],
                  prep |-> Prep(next[teams[i].division].id, polls, lineups, convocations)]]
===============================================================================
