-------------------------------- MODULE MCServices --------------------------------
(***************************************************************************)
(* TLC instance of the services: those that compute (MCComputations), and  *)
(* those that keep something between two steps, the configuration of the   *)
(* challenge and its pages, the duels of two players, the caches of a      *)
(* member's dashboard, the distribution of the ranking and the captains'   *)
(* accounts.  They share no state, and neither do a captain's account and  *)
(* the subscription, so that each is explored alone: side says which one,  *)
(* and the others stay as they begin.                                      *)
(***************************************************************************)
EXTENDS MCComputations, ChallengeConfig, ChallengeApi, HeadToHead, MemberDashboard,
        RankingDistribution, CaptainAccounts

CONSTANTS w1, w2, r1, r2, north, south, men, women, team

VARIABLE side

(* The rows of the weeks: the second week moves a player up and adds one.  *)
PageRow(week, key, player) == [id |-> 10 * week + player, key |-> key, player |-> player]
MCRows ==
    [w \in Weeks |->
        IF w = 1 THEN {PageRow(1, 1, 1), PageRow(1, 2, 2), PageRow(1, 2, 3), PageRow(1, 3, 4)}
        ELSE {PageRow(w, 1, 3), PageRow(w, 1, 1), PageRow(w, 2, 2), PageRow(w, 3, 4), PageRow(w, 3, 5)}]
MCFilters == {1 .. 3, {2, 3}}

-------------------------------------------------------------------------------
(* Three links, of which the last two may name one week and number in two  *)
(* seasons; behind each a single, a double, a duel that was not played, a  *)
(* forfeit, a match of others, or nothing.                                 *)

Links(twice) ==
    <<[season |-> 1, id |-> 1], [season |-> 1, id |-> 2], [season |-> 2, id |-> IF twice THEN 2 ELSE 3]>>

MatchBehind(i, home, away, forfeited, sets) ==
    [id |-> i, date |-> i, team |-> [home |-> home, away |-> away],
     ranking |-> [p \in 1 .. 2 |-> 10 * p + i], forfeited |-> forfeited, sets |-> sets]

Behind(i) ==
    {None,
     MatchBehind(i, {1}, {2}, FALSE, [home |-> 3, away |-> 1]),
     MatchBehind(i, {2, 3}, {1, 4}, FALSE, [home |-> 3, away |-> 2]),
     MatchBehind(i, {2}, {1}, TRUE, [home |-> 0, away |-> 3]),
     MatchBehind(i, {2}, {1}, FALSE, None),
     MatchBehind(i, {1}, {3}, FALSE, [home |-> 3, away |-> 0])}

InitDuels(n, twice) ==
    \E m1 \in Behind(1), m2 \in Behind(2), m3 \in Behind(IF twice THEN 2 ELSE 3) :
        DuelsInit(SubSeq(Links(twice), 1, n), SubSeq(<<m1, m2, m3>>, 1, n))

-------------------------------------------------------------------------------
(* An hour is two ticks and everything longer is three, so that each layer *)
(* is a hit at some age and the oldest answer can be as old as all its     *)
(* layers allow: eight ticks, MaxTime.  At that depth the member is in one *)
(* category; two of them, which share the club's matches and fail each     *)
(* other's answer, and two views of one are explored for a tick.           *)

MCTtl == [l \in Layers |-> IF l \in {"results", "weekly", "members"} THEN 3 ELSE 2]
MCOutages == {{}, {<<"matches", None>>}, {<<"categories", None>>, <<"points", men>>}}

KeysOfWomen == (OfCategory \X {women}) \cup ({"dashboard"} \X ({women} \X Views))
KeysOfTeam  == ({"dashboard"} \X (Categories \X {team})) \cup {<<"all", team>>}

OneCategory ==
    /\ enrolled' = {men} /\ \A k \in KeysOfWomen : entries'[k] = None
    /\ time' > 1 => \A k \in KeysOfTeam : entries'[k] = None
TwoCategories == time' <= 1 /\ \A k \in KeysOfTeam : entries'[k] = None

-------------------------------------------------------------------------------
Explored == {"computations", "configuration", "challenge", "duels", "dashboard of one",
             "dashboard of two", "distribution", "accounts", "subscription"}

MCInit ==
    /\ side \in Explored
    /\ ComputationsInit
    /\ Init /\ (side # "configuration" => ~challenge)
    /\ PagesInit
    /\ IF side = "duels" THEN \E n \in {0, 3}, twice \in BOOLEAN : InitDuels(n, twice)
       ELSE DuelsInit(<<>>, <<>>)
    /\ DashboardInit /\ (side # "dashboard of two" => enrolled = {men})
    /\ DistributionInit /\ (side # "distribution" => imports = 0)
    /\ AccountsInit /\ (side # "subscription" => ~pro)
    /\ side # "accounts" => account = None /\ member = (CHOOSE c \in Clubs : TRUE)

Challenge == <<vars, pageVars>>
Api       == <<computations, duelVars, dashboardVars, distributionVars>>

(* Imports are bounded (MaxWeek), and every process may rest. *)
Rests ==
    /\ side = "configuration" /\ season.week = MaxWeek
    /\ UNCHANGED <<side, Challenge, Api, accountVars>>

MCNext ==
    \/ side = "computations" /\ ComputationsNext
           /\ UNCHANGED <<side, Challenge, duelVars, dashboardVars, distributionVars, accountVars>>
    \/ side = "configuration" /\ Next
           /\ UNCHANGED <<side, pageVars, Api, accountVars>>
    \/ Rests
    \/ side = "challenge" /\ PagesNext
           /\ UNCHANGED <<side, vars, Api, accountVars>>
    \/ side = "duels" /\ DuelsNext
           /\ UNCHANGED <<side, Challenge, computations, dashboardVars, distributionVars, accountVars>>
    \/ side = "dashboard of one" /\ DashboardNext /\ OneCategory
           /\ UNCHANGED <<side, Challenge, computations, duelVars, distributionVars, accountVars>>
    \/ side = "dashboard of two" /\ DashboardNext /\ TwoCategories
           /\ UNCHANGED <<side, Challenge, computations, duelVars, distributionVars, accountVars>>
    \/ side = "distribution" /\ DistributionNext
           /\ UNCHANGED <<side, Challenge, computations, duelVars, dashboardVars, accountVars>>
    \/ side = "accounts" /\ Identities
           /\ UNCHANGED <<side, Challenge, Api>>
    \/ side = "subscription" /\ Subscriptions
           /\ UNCHANGED <<side, Challenge, Api>>
    \/ side \in {"accounts", "subscription"} /\ Tick
           /\ UNCHANGED <<side, Challenge, Api>>

MCSpec == MCInit /\ [][MCNext]_<<side, Challenge, Api, accountVars>>
===============================================================================
