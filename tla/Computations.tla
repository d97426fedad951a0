------------------------------- MODULE Computations -------------------------------
(***************************************************************************)
(* The services that compute an answer and keep nothing: the challenge's   *)
(* calculator, a member's statistics, the letters of the ranking, the      *)
(* ranking of a division's players, the next publication, a captain's      *)
(* advice and hub.  One question is asked at a time, each of the services  *)
(* answers those of its own.  What may arrive in any order the properties  *)
(* ask for again in another one.                                           *)
(***************************************************************************)
EXTENDS CaptainIntelligence, RankingTables, MatchesRanker

CONSTANTS
    ChallengeInputs, StatsInputs, TeamInputs, HistoryInputs, LetterInputs,
    RankerInputs, PublicationInputs, AdviceInputs, HubInputs,
                        \* the questions of each service, records
    LegalOrder(_, _),   \* does a rule set accept this order of players?
    Strengths           \* the points that players may have

ASSUME NoneAssumption == None \notin Int

(* Who is asked, the answer depends on. *)
ASSUME ServicesAssumption ==
    /\ \A q \in ChallengeInputs : q.service = "challenge"
    /\ \A q \in StatsInputs : q.service = "stats"
    /\ \A q \in TeamInputs : q.service = "team"
    /\ \A q \in HistoryInputs : q.service = "history"
    /\ \A q \in LetterInputs : q.service = "letter"
    /\ \A q \in RankerInputs : q.service = "ranker"
    /\ \A q \in PublicationInputs : q.service = "publication"
    /\ \A q \in AdviceInputs : q.service = "advice"
    /\ \A q \in HubInputs : q.service = "hub"

(* The federation numbers the players of its ranking from 1. *)
ASSUME LettersAssumption ==
    \A q \in LetterInputs : q.position \in Nat \ {0} /\ q.total \in Nat

(* A player is in one list of a match once; a duel is a single or a double *)
(* of players of the lists, and the sets of a duel that was played tell    *)
(* who won.                                                                *)
ASSUME RankerAssumption ==
    \A q \in RankerInputs :
        /\ q.system \in {"MOST_PLAYED", "BEST_PERF_PER_PCT", "BEST_PERF_PER_WIN"}
        /\ DOMAIN q.matches = 1 .. Len(q.matches) /\ Len(q.matches) \in Nat
        /\ \A m \in Range(q.matches) :
            /\ \A s \in Sides : DOMAIN m.players[s] = 1 .. Len(m.players[s])
                                /\ Len(m.players[s]) \in Nat
            /\ \A s, t \in Sides : \A j \in DOMAIN m.players[s], k \in DOMAIN m.players[t] :
                   m.players[s][j] = m.players[t][k] => s = t /\ j = k
            /\ DOMAIN m.results = 1 .. Len(m.results) /\ Len(m.results) \in Nat
            /\ \A r \in Range(m.results) :
                /\ \A s \in Sides : r.players[s] \subseteq Range(m.players[s])
                                    /\ r.sets[s] \in Int /\ r.forfeited[s] \in BOOLEAN
                /\ Cardinality(r.players["home"]) = Cardinality(r.players["away"])
                /\ (\A s \in Sides : ~r.forfeited[s]) => r.sets["home"] # r.sets["away"]

(* A match that is dated has a time, and so has every result. *)
ASSUME MatchesAssumption ==
    \A q \in TeamInputs :
        /\ DOMAIN q.matches = 1 .. Len(q.matches) /\ Len(q.matches) \in Nat
        /\ \A i \in DOMAIN q.matches : q.matches[i].at # None => q.matches[i].at \in Int

ASSUME ResultsAssumption ==
    \A q \in StatsInputs :
        /\ q.entries \in Seq(Range(q.entries))
        /\ \A i \in DOMAIN q.entries :
            /\ q.entries[i].at \in Int /\ q.entries[i].won \in BOOLEAN
            /\ q.entries[i].setFor \in Nat /\ q.entries[i].setAgainst \in Nat

(* Players have an index each, and a duel's chances are parts of Scale.    *)
(* Under which memberId a licence is imported is anything.                 *)
ASSUME AdviceAssumption ==
    /\ Strengths \subseteq Int
    /\ \A mine, theirs \in Strengths : Duel(mine, theirs) \in 0 .. Scale
    /\ \A q \in AdviceInputs :
        /\ q.team.size \in Nat
        /\ DOMAIN q.slots = 1 .. Len(q.slots) /\ Len(q.slots) \in Nat
        /\ \A i \in DOMAIN q.slots : q.slots[i].orderPos \in Int
        /\ IsFiniteSet(q.roster) /\ IsFiniteSet(q.opposing) /\ IsFiniteSet(q.rows)
        /\ \A players \in {q.roster, q.opposing} :
            /\ \A p \in players : p.index \in Int /\ p.rankingIndex \in Int
                                  /\ 2000 - p.rankingIndex * 40 \in Strengths
            /\ \A p, r \in players : p.index = r.index => p = r
        /\ \A r \in q.rows : r.date \in Int /\ r.points \in Strengths

VARIABLES question, reply
computations == <<question, reply>>

Calculator == INSTANCE ChallengeCalculator
Member == INSTANCE MemberStats
Publication == INSTANCE PublicationTimes

NoQuestion == [service |-> "none"]

Ask(inputs) ==
    /\ question = NoQuestion
    /\ question' \in inputs
    /\ UNCHANGED reply

Give(service, result) ==
    question.service = service /\ reply = <<>> /\ reply' = <<result>> /\ UNCHANGED question

Done == reply # <<>> /\ question' = NoQuestion /\ reply' = <<>>

Is(service) == question.service = service /\ reply # <<>>
Given == reply[1]

-------------------------------------------------------------------------------
GiveRanking ==
    Give("challenge", Calculator!Calculate(question.season, question.season.answers,
                                  question.matches, question.week))

GiveStats ==
    Give("stats", Member!GetMemberStats(question.ranking, question.history, question.entries))

GiveTeam == Give("team", Member!ComputeMyTeamSummary(question.matches, question.club))

GiveHistory ==
    Give("history", <<GetResultsDetailsHistory(question.results),
                      GetWeeklyRankingV1(GetActualPoints(question.points), question.total,
                                         question.category)>>)

GiveLetter ==
    Give("letter", EstimateLetterRanking(question.position, question.total, question.category))

GivePlayers ==
    Give("ranker", ComputeRanking(question.matches, question.system, question.keepClub))

GivePublication ==
    Give("publication", Publication!NextPublicationAt(question.dates, question.hour, question.now,
                                            question.offset))

(* The orders of some players that the rules accept. *)
Accepted(rule, players) ==
    {order \in {Arranged(players, p) : p \in Orders(Len(players))} : LegalOrder(rule, order)}

GiveAdvice ==
    LET mine == Starters(question.slots, question.roster)
    IN  Give("advice", GetIntelligence(question.team, question.slots, question.roster,
                                       question.opposing, question.rows,
                                       Accepted(question.rule, mine)))

GiveHub ==
    Give("hub", GetHub(question.teams, question.matches, question.now, question.polls,
                       question.lineups, question.convocations))

ComputationsInit == question = NoQuestion /\ reply = <<>>

ComputationsNext ==
    \/ Ask(ChallengeInputs) \/ Ask(StatsInputs) \/ Ask(TeamInputs) \/ Ask(HistoryInputs)
    \/ Ask(LetterInputs) \/ Ask(RankerInputs) \/ Ask(PublicationInputs)
    \/ Ask(AdviceInputs) \/ Ask(HubInputs)
    \/ GiveRanking \/ GiveStats \/ GiveTeam \/ GiveHistory \/ GiveLetter \/ GivePlayers
    \/ GivePublication \/ GiveAdvice \/ GiveHub
    \/ Done

ComputationsSpec == ComputationsInit /\ [][ComputationsNext]_computations

-------------------------------------------------------------------------------
(* What the order may decide: the club of a player who played for two, the *)
(* places of homonyms who made the same, and the match that an override    *)
(* replaces in a week of two.                                              *)
LeftToTheOrder(season, points, rankings) ==
    \/ \E p, q \in points : p.player = q.player /\ p.club # q.club
    \/ \E r, s \in rankings :
           /\ r.row.player < s.row.player
           /\ r.row.region = s.row.region /\ r.row.level = s.row.level
           /\ Calculator!RankingKey(r.row) = Calculator!RankingKey(s.row)
    \/ \E o \in season.overrides :
           Cardinality({p \in points : p.player = o.player /\ p.week = o.week}) > 1

(* Neither the order in which the database lists the divisions of a season *)
(* (a findUnique that names no order) nor the one in which the federation  *)
(* lists their matches shows in a calculation, but where the order is all  *)
(* that tells two candidates apart.                                        *)
RankingIsOrderless ==
    Is("challenge") =>
        LET season == [question.season EXCEPT !.divisions = Reverse(@)]
            matches == [d \in DOMAIN question.matches |-> Reverse(question.matches[d])]
            again == Calculator!Calculate(season, season.answers, matches, question.week)
        IN  IF Given = Calculator!Error THEN again = Given
            ELSE LeftToTheOrder(question.season, Given.points, Given.rankings) \/ again = Given

(* When no two results are of one time, a member's statistics are those of *)
(* the results, whatever the order they came in, but for the two dates     *)
(* that an index of 0 leaves out, and the best streak is the longest there *)
(* is between two of them; at most one streak is running (sorted,          *)
(* calculateStreaks).                                                      *)
StatsFollowTheDays ==
    Is("stats") =>
        LET entries == question.entries
            places == DOMAIN entries
            Undated(stats) == [stats EXCEPT !.seasonExtremes.firstMatch = None,
                                            !.seasonExtremes.lastMatch = None]
            Again(p) == Member!GetMemberStats(question.ranking, question.history,
                                             Arranged(entries, p))
            Between(i, j) == {k \in places : entries[i].at <= entries[k].at
                                             /\ entries[k].at <= entries[j].at}
            runs == {r \in {Between(i, j) : i, j \in places} : \A k \in r : entries[k].won}
        IN  /\ (\A i, j \in places : entries[i].at = entries[j].at => i = j) =>
                   /\ \A p \in Orders(Len(entries)) : Undated(Again(p)) = Undated(Given)
                   /\ Given.streaks.bestWin = Max({Cardinality(r) : r \in runs} \cup {0})
            /\ Given.streaks.currentWin = 0 \/ Given.streaks.currentLoss = 0

(* The member's team is the same whatever the order of the matches, unless *)
(* two teams have the most and the same latest time, or the latest matches *)
(* of a team are of two divisions (computeMyTeamSummary).                  *)
TeamFollowsTheMatches ==
    Is("team") =>
        LET matches == question.matches
            Of(i) == Member!TeamOf(matches[i], question.club)
            Rival(i, j) == /\ Member!Aggregate(matches, question.club, Of(i)).matchCount
                                = Member!Aggregate(matches, question.club, Of(j)).matchCount
                           /\ Member!Aggregate(matches, question.club, Of(i)).latest
                                = Member!Aggregate(matches, question.club, Of(j)).latest
        IN  \/ \E i, j \in DOMAIN matches :
                   /\ None \notin {Of(i), Of(j)}
                   /\ \/ Of(i) # Of(j) /\ Rival(i, j)
                      \/ /\ Of(i) = Of(j) /\ matches[i].at = matches[j].at
                         /\ matches[i].division # matches[j].division
            \/ \A p \in Orders(Len(matches)) :
                   Member!ComputeMyTeamSummary(Arranged(matches, p), question.club) = Given

(* No order that the federation lists results or matches in shows in a     *)
(* member's dashboard (getMemberStats, computeMyTeamSummary).              *)
DashboardIsOrderless == StatsFollowTheDays /\ TeamFollowsTheMatches

(* The numbers of players that are asked about. *)
PlayerCounts == {q.total : q \in LetterInputs}

(* The tables say one thing: a place further down never has the better     *)
(* letter, and the same place among more players never has the worse one.  *)
LettersFollowTables ==
    Is("letter") =>
        /\ EstimateLetterRanking(question.position + 1, question.total, question.category) >= Given
        /\ \A more \in PlayerCounts : more > question.total =>
               EstimateLetterRanking(question.position, more, question.category) <= Given

(* A division's players have won as often as they have lost, and those who *)
(* played most come first: the number the sort makes of two lets nobody    *)
(* else pass but a player who won all of a duel less.                      *)
RankerIsFair ==
    Is("ranker") =>
        /\ question.keepClub = None =>
               SumFunctionOnSet([i \in DOMAIN Given |-> Given[i].win], DOMAIN Given)
                   = SumFunctionOnSet([i \in DOMAIN Given |-> Given[i].lose], DOMAIN Given)
        /\ question.system = "MOST_PLAYED" =>
               \A i, j \in DOMAIN Given : i < j =>
                   \/ Given[i].played >= Given[j].played
                   \/ /\ Given[i].played + 1 = Given[j].played
                      /\ Given[i].winPourcentage = 100 /\ Given[j].winPourcentage = 0

(* The captain is advised an order of the players chosen and no other, one *)
(* that the rules accept when there is one, and none that they accept      *)
(* promises more; a line-up as good as any stays; no chance exceeds        *)
(* certainty.                                                              *)
AdviceIsBest ==
    Is("advice") =>
        LET mine == Starters(question.slots, question.roster)
            theirs == Opponents(question.opposing, question.team.size)
            Expected(order) == PositionalExpected(order, theirs, question.rows)
            accepted == Accepted(question.rule, mine)
        IN  /\ \E p \in Orders(Len(mine)) : Given.optimalOrder = Arranged(mine, p)
            /\ accepted # {} => Given.optimalOrder \in accepted
            /\ \A order \in accepted : Expected(order) <= Expected(Given.optimalOrder)
            /\ mine \in accepted =>
                   /\ Given.probabilityDelta >= 0
                   /\ Given.probabilityDelta = 0 => Given.optimalOrder = mine
            /\ Given.winProbability # None =>
                   Given.winProbability \in 0 .. Certainty(Duels(mine, theirs))

(* What pointsOf says it takes: "real numeric points when available".      *)
RealPoints(rows, p) ==
    LET own == {r \in rows : r.memberLicence = p.index}
    IN  IF own = {} THEN PointsOf(rows, p)
        ELSE (CHOOSE r \in own : \A s \in own : s.date <= r.date).points

(* The chance of a team is told from the points that were imported for the *)
(* licences of its players, where some were.                               *)
AdviceIsOfRealPoints ==
    Is("advice") =>
        LET mine == Starters(question.slots, question.roster)
            theirs == Opponents(question.opposing, question.team.size)
            Real(players) == [i \in DOMAIN players |-> RealPoints(question.rows, players[i])]
        IN  Given.winProbability = TeamWinProbability(Real(mine), Real(theirs))
===============================================================================
