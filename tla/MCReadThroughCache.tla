-------------------------- MODULE MCReadThroughCache --------------------------
(***************************************************************************)
(* ReadThroughCache for TLC: two calls that meet in each other's getters,  *)
(* and one call through the layers of a ranking.  They share no key, so    *)
(* that each is explored alone: side says which one, and an emptying has   *)
(* the keys of the other one on its first page.                            *)
(***************************************************************************)
EXTENDS ReadThroughCache
CONSTANTS c1, c2

VARIABLE side

R(op) == [op |-> op, arg |-> "member", db |-> "aftt"]
MCHome == c1 :> "a" @@ c2 :> "a"

(* The key of matches tells no database. *)
Beside ==
    R("latest") :> {R("matches"), None}
        @@ R("matches") :> {None}
        @@ [R("matches") EXCEPT !.db = "vttl"] :> {None}

Layers ==
    R("ranking") :> {R("weekly")}
        @@ R("weekly") :> {R("points"), None}
        @@ R("points") :> {None}

MCInner == Beside @@ Layers
MCRequests == DOMAIN MCInner

Asking    == IF side = "beside" THEN DOMAIN Beside ELSE DOMAIN Layers
Answering == IF side = "beside" THEN {c1, c2} ELSE {c1}
Elsewhere == {CacheKey(r) : r \in Requests \ Asking}

mcVars == <<vars, side>>

MCInit == Init /\ side \in {"beside", "layers"}
MCNext ==
    /\ Next
    /\ \A n \in DOMAIN reads' : n.call \in Answering /\ n.path[1] \in Asking
    /\ importer = "cleaning" => sweep' \cap Elsewhere = {}
    /\ UNCHANGED side

MCSpec ==
    /\ MCInit /\ [][MCNext]_mcVars
    /\ \A c \in Calls : WF_mcVars(ServeCall(c) /\ UNCHANGED side)
===============================================================================
