---------------------------- MODULE MCLoopSchedule ----------------------------
(* Instances of LoopSchedule for TLC.                                        *)
EXTENDS SkipPropagation, TLC

\* 2 depends on 1 and may touch the files of 3: 1 and 3 may run together.
MixedDeps == <<{}, {1}, {}>>
MixedConflicts == {<<2, 3>>}
NoNeeds3 == <<{}, {}, {}>>

\* A chain in the order of the contract.
ChainDeps == <<{}, {1}, {2}>>

\* A chain 1, 3, 2 against the order of the contract; 2 waits for an issue outside.
CrossedDeps == <<{}, {3}, {1}>>
CrossedNeeds == <<{}, {"e"}, {}>>
=============================================================================
