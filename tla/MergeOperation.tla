---------------------------- MODULE MergeOperation ----------------------------
(***************************************************************************)
(* What the squash-merge of one pull request promises, as                  *)
(* MERGE_OPERATION_INVARIANT of core/scripts/stages/merge-supervision.ts   *)
(* states it: the pipeline merges at most once, a head whose checks pass,  *)
(* with its intent on record; and the record says complete only of a merge *)
(* that the fetched base contains.  No processes, files or calls.          *)
(***************************************************************************)

VARIABLES
  merged,     \* "no", or who merged
  green,      \* the required checks of the head pass
  contained,  \* the fetched base contains the merge
  record,     \* side_effect_certainty: "known_absent", "uncertain" or "known_complete"
  excused     \* an intent was withdrawn before its effect was over

vars == <<merged, green, contained, record, excused>>

Init ==
  /\ merged = "no" /\ green = FALSE /\ contained = FALSE
  /\ record = "known_absent" /\ excused = FALSE

\* A commit arrives, or the checks of the last one finish.
Candidate ==
  /\ merged = "no" /\ green' \in BOOLEAN
  /\ UNCHANGED <<merged, contained, record, excused>>

\* The precondition, at the instant of the side effect.
Merge ==
  /\ merged = "no" /\ green
  /\ record # "known_absent" \/ excused
  /\ merged' = "pipeline"
  /\ UNCHANGED <<green, contained, record, excused>>

MergeByHand ==
  /\ merged = "no" /\ merged' = "person"
  /\ UNCHANGED <<green, contained, record, excused>>

Contain ==
  /\ merged # "no" /\ contained' = TRUE
  /\ UNCHANGED <<merged, green, record, excused>>

Intend ==
  /\ record' = "uncertain"
  /\ UNCHANGED <<merged, green, contained, excused>>

\* The postcondition is observed before it is recorded.
Confirm ==
  /\ merged # "no" /\ contained
  /\ record' = "known_complete"
  /\ UNCHANGED <<merged, green, contained, excused>>

\* The intent is withdrawn, perhaps too early.
Withdraw ==
  /\ record' = "known_absent" /\ excused' \in {excused, TRUE}
  /\ UNCHANGED <<merged, green, contained>>

\* The record is no longer written by one process at a time.
Excuse ==
  /\ excused' = TRUE
  /\ UNCHANGED <<merged, green, contained, record>>

Next ==
  \/ Candidate \/ Merge \/ MergeByHand \/ Contain
  \/ Intend \/ Confirm \/ Withdraw \/ Excuse

Spec == Init /\ [][Next]_vars
=============================================================================
