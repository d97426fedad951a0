------------------------- MODULE MCNotificationOutbox -------------------------
(***************************************************************************)
(* NotificationOutbox for TLC: events, devices and their topics.           *)
(***************************************************************************)
EXTENDS NotificationOutboxInvariant, TLC

CONSTANTS e1, e2, d1, d2

(* Two events, for one device and for both. *)
RankingAndChallenge == (e1 :> "ranking" @@ e2 :> "challenge")
SameCompetition == [e \in {e1, e2} |-> "doubles"]
OneAndBoth == (e1 :> {d1} @@ e2 :> {d1, d2})
TwoLocales == (d1 :> "fr" @@ d2 :> "nl")
===============================================================================
