--------------------------- MODULE MCChallengeCycle ---------------------------
(***************************************************************************)
(* ChallengeCycle for TLC.  Workers are interchangeable: no action names   *)
(* one, so their permutations are a symmetry of the safety runs.           *)
(***************************************************************************)
EXTENDS ChallengeCycleInvariant, TLC

WorkerSymmetry == Permutations(Workers)
===============================================================================
