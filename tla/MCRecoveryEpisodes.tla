-------------------------- MODULE MCRecoveryEpisodes --------------------------
(* Instances of RecoveryEpisodes for TLC.                                    *)
EXTENDS RecoveryEpisodes, TLC

\* The workflow-state policy: a narrow recipe, then the repair.
NarrowThenRepair == <<"resync", "repair">>

\* A policy with one narrow recipe, such as upstream-dependency's.
NarrowOnly == <<"resync">>

PrintSymmetry == Permutations(Prints)
=============================================================================
