------------------------------ MODULE MatchesRanker ------------------------------
(***************************************************************************)
(* The players of a division, club or team ranked by what they played      *)
(* (apps/tabt-rest/src/services/matches/matches-members-ranker.service.ts).*)
(*                                                                         *)
(* A match is a record: detailsCreated, club and players by side, and      *)
(* results, a sequence of [players, sets, forfeited], by side each.        *)
(***************************************************************************)
EXTENDS Integers, FiniteSets, Sequences, SequencesExt, FiniteSetsExt, Common


(* The places of the lists of the matches that count; keepClub is None for *)
(* a division.                                                             *)
Listed(matches, keepClub) ==
    {place \in UNION {[match : {i}, side : {s}, at : DOMAIN matches[i].players[s]] :
                          i \in DOMAIN matches, s \in Sides} :
        /\ matches[place.match].detailsCreated
        /\ keepClub \in {None, matches[place.match].club[place.side]}}

PlayerAt(matches, place) == matches[place.match].players[place.side][place.at]

(* The lists are read match by match, the home side first. *)
ReadBefore(x, y) ==
    \/ x.match < y.match
    \/ x.match = y.match /\ x.side = "home" /\ y.side = "away"
    \/ x.match = y.match /\ x.side = y.side /\ x.at < y.at

(* Mutant: a forfeit is a duel like the others. *)
PlayedWithForfeits(m, player) ==
    {i \in DOMAIN m.results : \E s \in Sides : player \in m.results[i].players[s]}

(* The results of a match in which the player met somebody. *)
Played(m, player) ==
    {i \in DOMAIN m.results :
        /\ \A s \in Sides : ~m.results[i].forfeited[s]
        /\ \E s \in Sides : player \in m.results[i].players[s]}

Won(m, player) ==
    {i \in Played(m, player) : \E s \in Sides :
        /\ player \in m.results[i].players[s]
        /\ m.results[i].sets[s] > m.results[i].sets[Other(s)]}

Percent(n, total) == (200 * n + total) \div (2 * total)

(* A player is counted for every list that names the player. *)
ProcessMatchPlayers(matches, listed, player) ==
    LET mine == {x \in listed : PlayerAt(matches, x) = player}
        first == CHOOSE x \in mine : \A y \in mine \ {x} : ReadBefore(x, y)
        InAll(Of(_, _)) ==
            Cardinality(UNION {{x} \X Of(matches[x.match], player) : x \in mine})
    IN  [player |-> player, club |-> matches[first.match].club[first.side], first |-> first,
         played |-> InAll(Played), win |-> InAll(Won), lose |-> InAll(Played) - InAll(Won)]

(* Which of two players the sort puts first: one number made of two. *)
SortFunction(system, a) ==
    CASE system = "MOST_PLAYED"       -> a.played * 100 + a.winPourcentage
      [] system = "BEST_PERF_PER_PCT" -> a.winPourcentage * 100 + a.played
      [] system = "BEST_PERF_PER_WIN" -> a.win

ComputePctAndSort(members, system) ==
    LET WithPct(p) == [player |-> p.player, club |-> p.club, first |-> p.first,
                       played |-> p.played, win |-> p.win, lose |-> p.lose,
                       winPourcentage |-> Percent(p.win, p.played),
                       losePourcentage |-> Percent(p.lose, p.played)]
        shown == {WithPct(p) : p \in {m \in members : m.played > 0}}
    IN  InOrder(shown, LAMBDA a, b :
            \/ SortFunction(system, a) > SortFunction(system, b)
            \/ SortFunction(system, a) = SortFunction(system, b) /\ ReadBefore(a.first, b.first))

ComputeRanking(matches, system, keepClub) ==
    LET listed == Listed(matches, keepClub)
    IN  ComputePctAndSort({ProcessMatchPlayers(matches, listed, player) :
                player \in {PlayerAt(matches, x) : x \in listed}}, system)
===============================================================================
