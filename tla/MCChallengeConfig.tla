------------------------- MODULE MCChallengeConfig -------------------------
(***************************************************************************)
(* Three configurations, one of them invalid; two importers, one activator *)
(* and one job of each type of run.                                        *)
(***************************************************************************)
EXTENDS ChallengeConfig, TLC

MCSymmetry == Permutations(Importers) \cup Permutations(Activators)
                \cup Permutations(Workers)
=============================================================================
