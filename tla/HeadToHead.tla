------------------------------- MODULE HeadToHead -------------------------------
(***************************************************************************)
(* The duels of two players                                                *)
(* (apps/tabt-rest/src/services/members/head2head.service.ts): a page of   *)
(* the federation names the matches, four workers read their details, and  *)
(* the answer is cached for the lower of the two numbers; the other player *)
(* is answered with the same data seen from the other side.                *)
(*                                                                         *)
(* A link of the page is a record: season and id, the week and number of   *)
(* the match.  The match it leads to is None (the federation has none) or  *)
(* a record: id, date, team (of "home" and "away", who played), ranking    *)
(* (of each player), forfeited, and sets: None, when the two did not meet, *)
(* or of each side its sets, which may be None.                            *)
(***************************************************************************)
EXTENDS Integers, FiniteSets, Sequences, FiniteSetsExt, Common

CONSTANT Fetchers   \* requests for details under way at once

VARIABLES
    page,       \* the links of the two players' page
    site,       \* of each link, the match the federation has
    asked,      \* who is asked about whom: <<player, opponent>>; or None
    at,         \* where the request is
    nextIndex,  \* the next link to read
    working,    \* of each worker, its link, or 0
    details,    \* of each link, what was answered, or None
    cached,     \* the data of the lower number, or None
    answer      \* of the last request: its data, Failed, or None

duelVars == <<page, site, asked, at, nextIndex, working, details, cached, answer>>

Players   == {1, 2}
Canonical == <<1, 2>>
Failed == [failed |-> TRUE]

DuelsTypeOK ==
    /\ asked \in {None, <<1, 2>>, <<2, 1>>}
    /\ at \in {"idle", "page", "details"}
    /\ nextIndex \in 1 .. Len(page) + 1
    /\ working \in [Fetchers -> 0 .. Len(page)]
    /\ details \in [1 .. Len(page) -> {None, "found", "missing", "failed"}]

-------------------------------------------------------------------------------
(* The data, from a list of the matches found, a list of links and a pair. *)

EmptyData(pair) ==
    [count |-> 0, victories |-> 0, defeats |-> 0, lastVictory |-> None,
     firstVictory |-> None, lastDefeat |-> None, history |-> <<>>, pair |-> pair]

SideOf(m, pair) == IF pair[1] \in m.team["home"] THEN "home" ELSE "away"

(* A link is told by week and number alone, so that the first one with     *)
(* them gives the season.                                                  *)
LinkedSeason(links, m) ==
    links[CHOOSE i \in DOMAIN links : /\ links[i].id = m.id
                                      /\ \A j \in 1 .. i - 1 : links[j].id # m.id].season

FindPlayer(m, player, side) == player \in m.team[side]

(* Did the two play on different sides? *)
IsDuel(m, pair) ==
    /\ FindPlayer(m, pair[1], SideOf(m, pair))
    /\ FindPlayer(m, pair[2], Other(SideOf(m, pair)))

(* Nothing, "forfait", or the sets of the player and of the opponent. *)
CalculateScore(m, side) ==
    IF m.sets = None THEN <<>>
    ELSE IF m.forfeited THEN <<"forfait">>
    ELSE IF \E s \in Sides : m.sets[s] = None THEN <<>>
    ELSE <<m.sets[side], m.sets[Other(side)]>>

IsScore(score)   == Len(score) = 2
IsVictory(score) == IsScore(score) /\ score[1] > score[2]
IsDefeat(score)  == IsScore(score) /\ score[1] < score[2]

DuelEntry(links, m, pair) ==
    [season |-> LinkedSeason(links, m), date |-> m.date, match |-> m.id,
     playerRanking |-> m.ranking[pair[1]], opponentRanking |-> m.ranking[pair[2]],
     score |-> CalculateScore(m, SideOf(m, pair))]

(* The dates of the entries with such a score. *)
Dates(history, Test(_)) ==
    {history[i].date : i \in {j \in DOMAIN history : Test(history[j].score)}}
Earliest(dates) == IF dates = {} THEN None ELSE Min(dates)
Latest(dates)   == IF dates = {} THEN None ELSE Max(dates)
Counted(history, Test(_)) ==
    Cardinality({i \in DOMAIN history : Test(history[i].score)})

CalculateHead2Head(matches, links, pair) ==
    LET shown == Picked(matches, {i \in DOMAIN matches : IsDuel(matches[i], pair)})
        history == [i \in DOMAIN shown |-> DuelEntry(links, shown[i], pair)]
    IN  [count |-> Len(matches),
         victories |-> Counted(history, IsVictory), defeats |-> Counted(history, IsDefeat),
         lastVictory |-> Latest(Dates(history, IsVictory)),
         firstVictory |-> Earliest(Dates(history, IsVictory)),
         lastDefeat |-> Latest(Dates(history, IsDefeat)),
         history |-> history, pair |-> pair]

ReverseScore(score) == IF IsScore(score) THEN <<score[2], score[1]>> ELSE score

ReverseEntry(e) ==
    [season |-> e.season, date |-> e.date, match |-> e.match,
     playerRanking |-> e.opponentRanking, opponentRanking |-> e.playerRanking,
     score |-> ReverseScore(e.score)]

(* Mutant: the first victory is not looked for again. *)
ReversePerspectiveKept(data) ==
    [data EXCEPT
        !.victories = data.defeats, !.defeats = data.victories,
        !.lastVictory = data.lastDefeat, !.lastDefeat = data.lastVictory,
        !.history = [i \in DOMAIN data.history |-> ReverseEntry(data.history[i])],
        !.pair = <<data.pair[2], data.pair[1]>>]

ReversePerspective(data) ==
    [count |-> data.count,
     victories |-> data.defeats, defeats |-> data.victories,
     lastVictory |-> data.lastDefeat,
     firstVictory |-> Earliest(Dates(data.history, IsDefeat)),
     lastDefeat |-> data.lastVictory,
     history |-> [i \in DOMAIN data.history |-> ReverseEntry(data.history[i])],
     pair |-> <<data.pair[2], data.pair[1]>>]

Shown(data, pair) == IF pair = Canonical THEN data ELSE ReversePerspective(data)

-------------------------------------------------------------------------------
(* The requests, one after the other, and their workers.                   *)

(* A player is on one side of a match, and the sets of a side are counted. *)
IsMatch(m) ==
    /\ m.team["home"] \cap m.team["away"] = {}
    /\ m.sets # None => \A s \in Sides : m.sets[s] \in Int \cup {None}

(* MC gives page and site: what the federation shows of these players. *)
DuelsInit(links, matches) ==
    /\ \A i \in DOMAIN links : matches[i] # None => IsMatch(matches[i])
    /\ page = links /\ site = matches
    /\ asked = None /\ at = "idle" /\ nextIndex = 1
    /\ working = [w \in Fetchers |-> 0]
    /\ details = [i \in DOMAIN links |-> None]
    /\ cached = None /\ answer = None

(* getHead2HeadResults: a hit is answered at once. *)
AskDuels(pair) ==
    /\ at = "idle"
    /\ asked' = pair
    /\ at' = IF cached = None THEN "page" ELSE "idle"
    /\ answer' = IF cached = None THEN None ELSE Shown(cached, pair)
    /\ UNCHANGED <<page, site, nextIndex, working, details, cached>>

End(data) ==
    /\ at' = "idle"
    /\ cached' = IF data = Failed THEN None ELSE data
    /\ answer' = IF data = Failed THEN data ELSE Shown(data, asked)
    /\ nextIndex' = 1
    /\ details' = [i \in DOMAIN page |-> None]
    /\ UNCHANGED <<page, site, asked, working>>

(* The page does not come, or names no players. *)
PageFails == at = "page" /\ End(Failed)

(* A page without matches is answered, and cached, as such. *)
GetPage ==
    /\ at = "page"
    /\ IF page = <<>> THEN End(EmptyData(Canonical))
       ELSE /\ at' = "details"
            /\ UNCHANGED <<page, site, asked, nextIndex, working, details, cached, answer>>

(* A worker takes the next link: no await between the test and the step.   *)
Take(w) ==
    /\ at = "details" /\ working[w] = 0 /\ nextIndex <= Len(page)
    /\ working' = [working EXCEPT ![w] = nextIndex]
    /\ nextIndex' = nextIndex + 1
    /\ UNCHANGED <<page, site, asked, at, details, cached, answer>>

(* getMatchDetails answers with one of three, and never throws; a request  *)
(* that takes too long, and whose late answer is dropped, has failed.      *)
GetMatchDetails(w) ==
    /\ working[w] # 0
    /\ \E outcome \in {IF site[working[w]] = None THEN "missing" ELSE "found", "failed"} :
          details' = [details EXCEPT ![working[w]] = outcome]
    /\ working' = [working EXCEPT ![w] = 0]
    /\ UNCHANGED <<page, site, asked, at, nextIndex, cached, answer>>

Found == Picked(site, {i \in DOMAIN page : details[i] = "found"})

(* One failed detail fails the request, so that no part is cached. *)
Gather ==
    IF \E i \in DOMAIN page : details[i] = "failed" THEN Failed
    ELSE IF Found = <<>> THEN EmptyData(Canonical)
    ELSE CalculateHead2Head(Found, page, Canonical)

Finish ==
    /\ at = "details" /\ nextIndex > Len(page)
    /\ \A w \in Fetchers : working[w] = 0
    /\ End(Gather)

(* The entry lives eight hours. *)
ExpireDuels ==
    /\ cached # None /\ at = "idle"
    /\ cached' = None
    /\ UNCHANGED <<page, site, asked, at, nextIndex, working, details, answer>>

DuelsNext ==
    \/ \E pair \in {<<1, 2>>, <<2, 1>>} : AskDuels(pair)
    \/ PageFails
    \/ GetPage
    \/ \E w \in Fetchers : Take(w) \/ GetMatchDetails(w)
    \/ Finish
    \/ ExpireDuels

-------------------------------------------------------------------------------
(* What the federation has of these two, in the order of the page. *)
Existing == Picked(site, {i \in DOMAIN page : site[i] # None})

(* Whoever asks, from the cache or not, and in whatever order the workers   *)
(* end, is told what the same matches say when they are counted from that  *)
(* player's own side: all of them, or that they could not be read          *)
(* (getHead2HeadResults and reversePerspective).                           *)
AnswersForBoth ==
    at = "idle" /\ answer \notin {None, Failed} =>
        answer = IF Existing = <<>> THEN EmptyData(asked)
                 ELSE CalculateHead2Head(Existing, page, asked)
===============================================================================
