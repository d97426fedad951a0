----------------------------- MODULE MCCaptainCalls -----------------------------
(***************************************************************************)
(* CaptainCalls for TLC.  The convocation and the poll of a match share no *)
(* state but the requests, so that each of them is explored alone.         *)
(***************************************************************************)
EXTENDS CaptainCalls

CONSTANTS r1, r2, r3, p1, p2

VARIABLE side

MCSymmetry == Permutations({r1, r2, r3}) \cup Permutations({p1, p2})

MCInit == Init /\ side \in {"convocation", "availability"}
MCNext ==
    /\ \/ side = "convocation" /\ Convocation
       \/ side = "availability" /\ Availability
       \/ Crash
    /\ UNCHANGED side

MCSpec == MCInit /\ [][MCNext]_<<vars, side>>
===============================================================================
