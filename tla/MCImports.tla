-------------------------------- MODULE MCImports --------------------------------
(***************************************************************************)
(* TLC instance of the members' import and of the queues that it and the   *)
(* results' import run on.  What an attempt does to the tables and when    *)
(* attempts run are modelled apart: side says which of the two is explored, *)
(* and the other one stays as it begins.                                   *)
(***************************************************************************)
EXTENDS MembersImport, ImportQueue

CONSTANTS m, p, q, a, b, c

VARIABLE side

L(profile_, standing) == [member |-> m, profile |-> profile_, standing |-> standing]
(* The standings b and c differ in what no notification tells. *)
MCShows == a :> "A" @@ b :> "B" @@ c :> "B"
(* The last list has the member twice, once without points. *)
MCLists == {<<L(p, a)>>, <<L(p, b)>>, <<L(p, c), L(q, None)>>}

MCBatches == [members |-> 0, results |-> 1]

MCInit ==
    /\ side \in {"list", "queues"} /\ Init /\ QueueInit
    /\ side = "queues" => published = [date |-> None, lines |-> <<L(p, a)>>]

ListMoves(A)  == side = "list" /\ A /\ UNCHANGED <<side, queueVars>>
QueueMoves(A) == side = "queues" /\ A /\ UNCHANGED <<side, vars>>

MCNext ==
    \/ ListMoves(Next)
    \/ QueueMoves(QueueNext)

mcVars == <<side, vars, queueVars>>

(* Fairness and QueueFairness, each of its side. *)
MCSpec ==
    /\ MCInit /\ [][MCNext]_mcVars
    /\ WF_mcVars(ListMoves(Attempt))
    /\ \A n \in Members : WF_mcVars(ListMoves(Expire(n)))
    /\ \A k \in Kinds : WF_mcVars(QueueMoves(Work(k)))
    /\ WF_mcVars(QueueMoves(\E j \in Jobs : Take(j)))
    /\ WF_mcVars(QueueMoves(\E j \in Jobs : Promote(j) \/ Stall(j)))
===============================================================================
