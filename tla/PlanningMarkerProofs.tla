-------------------------- MODULE PlanningMarkerProofs --------------------------
(***************************************************************************)
(* For any number of processes and faults, two runs are in the planning    *)
(* arc of an issue only after one removed the marker of the other.         *)
(***************************************************************************)
EXTENDS PlanningMarker, TLAPS

\* A step that leaves the marker alone and makes no process an owner.
LEMMA NoNewOwner ==
  ASSUME MarkerInv, TypeOK', NEW p \in Proc, NEW l \in Locations, Goto(p, l),
         l \in Planners \cup {"dropWon", "set"} => Owner(p),
         UNCHANGED <<marker, intruded>>
  PROVE  MarkerInv'
  BY DEF MarkerInv, TypeOK, Goto, Owner

\* A step after which the marker is p's, or nobody's and p owns it no more.
LEMMA MarkerWritten ==
  ASSUME MarkerInv, TypeOK', NEW p \in Proc, NEW l \in Locations, Goto(p, l),
         \/ marker' = p
         \/ marker' = NoFile /\ l \notin Planners \cup {"dropWon", "set"},
         \/ marker = NoFile /\ intruded' = intruded
         \/ Intrudes(p)
  PROVE  MarkerInv'
<1> SUFFICES ASSUME ~intruded', NEW q \in Proc, Owner(q)'
             PROVE  marker' = q
  BY DEF MarkerInv
<1>1. CASE q = p
  BY <1>1 DEF MarkerInv, TypeOK, Goto, Owner
<1>2. CASE q # p
  <2>1. pc'[q] = pc[q] /\ Owner(q) /\ pc[q] # "dead"
    BY <1>2 DEF MarkerInv, TypeOK, Goto, Owner, Planners
  <2>2. ~intruded
    BY ZenonT(60) DEF Intrudes
  <2>3. marker = q
    BY <2>1, <2>2 DEF MarkerInv
  <2>4. Live(marker) /\ marker # NoFile /\ marker # p
    BY <1>2, <2>1, <2>3, MarkerAssumption DEF Live
  <2> QED BY ZenonT(60), <2>4 DEF Intrudes
<1> QED BY <1>1, <1>2

\* Every step keeps the types.
LEMMA TypeStep ==
  ASSUME TypeOK, [Next]_vars
  PROVE  TypeOK'
<1> USE MarkerAssumption
<1>1. CASE UNCHANGED vars
  BY <1>1 DEF vars, TypeOK
<1>2. CASE Next
  <2>0. CASE Unblock \/ Readmit
    <3>1. labels' \in SUBSET Labels /\ labels' \cap Stages # {}
      BY <2>0 DEF TypeOK, Unblock, Readmit, Transition, Labels, Stages
    <3> QED BY <2>0, <3>1 DEF TypeOK, Unblock, Readmit
  <2> SUFFICES ASSUME NEW p \in Proc,
                      Run(p) \/ Refuse(p) \/ AutoRecover(p) \/ Fail(p) \/ Crash(p)
               PROVE  TypeOK'
    BY <1>2, <2>0 DEF Next
  <2>1. Run(p) \/ Refuse(p) \/ AutoRecover(p) \/ Fail(p) \/ Crash(p)
    OBVIOUS
  <2>2. ASSUME NEW l \in Locations, Goto(p, l) PROVE pc' \in [Proc -> Locations]
    BY <2>2 DEF TypeOK, Goto
  <2>3. pc' \in [Proc -> Locations]
    BY <2>1, <2>2 DEF Run, Dispatch, Claim, Probe, CleanupLock, CleanupProbe,
       CleanupUnlink, Recheck, Unlink, Recreate, DropCleanup, Check, Rollback,
       SetMarker, Plan, Deliver, ClearMarker, Fail, Crash, Admit, Reset, Refuse, AutoRecover, Locations, Planners
  <2>4. marker' \in Proc \cup {NoFile} /\ cleanup' \in Proc \cup {NoFile}
    BY <2>1 DEF TypeOK, Run, Dispatch, Claim, Probe, CleanupLock, CleanupProbe,
       CleanupUnlink, Recheck, Unlink, Recreate, DropCleanup, Check, Rollback,
       SetMarker, Plan, Deliver, ClearMarker, Fail, Crash, Admit, Reset, Refuse, AutoRecover
  <2>5. labels' \in SUBSET Labels /\ labels' \cap Stages # {}
    <3>1. ASSUME NEW from \in Stages, NEW to \in Stages, Transition(from, to)
          PROVE  labels' \in SUBSET Labels /\ labels' \cap Stages # {}
      <4>1. labels' \subseteq Labels
        BY <3>1 DEF TypeOK, Transition, Labels
      <4>2. to \in labels'
        BY <3>1 DEF Transition
      <4> QED BY <4>1, <4>2
    <3>2. ASSUME NEW l \in Labels,
                 labels' \in {labels, labels \cup {l}} \/ (labels' = labels \ {l} /\ l \notin Stages)
          PROVE  labels' \in SUBSET Labels /\ labels' \cap Stages # {}
      BY <3>2 DEF TypeOK
    <3>3. "blocked" \in Labels /\ "blocked" \notin Stages /\ "needs-spec" \in Labels
      BY DEF Labels, Stages
    <3>4. CASE UNCHANGED labels
      BY <3>4 DEF TypeOK
    <3>5. CASE Refuse(p)
      BY <3>1, <3>2, <3>3, <3>5 DEF Refuse, Stages
    <3>6. CASE AutoRecover(p) \/ Fail(p)
      BY <3>2, <3>3, <3>6 DEF AutoRecover, Fail
    <3>7. CASE Rollback(p) \/ Plan(p) \/ Deliver(p) \/ Reset(p)
      BY <3>1, <3>4, <3>7 DEF Rollback, Plan, Deliver, Reset, Stages
    <3> QED
      BY <2>1, <3>4, <3>5, <3>6, <3>7 DEF Run, Dispatch, Admit, Claim, Probe,
         CleanupLock, CleanupProbe, CleanupUnlink, Recheck, Unlink, Recreate,
         DropCleanup, Check, SetMarker, ClearMarker, Crash
  <2>6. faults' \in 0..MaxFaults
    BY <2>1 DEF TypeOK, Run, Dispatch, Claim, Probe, CleanupLock, CleanupProbe,
       CleanupUnlink, Recheck, Unlink, Recreate, DropCleanup, Check, Rollback,
       SetMarker, Plan, Deliver, ClearMarker, Fail, Crash, Admit, Reset, Refuse, AutoRecover
  <2>7. intruded' \in BOOLEAN
    BY ZenonT(60), <2>1 DEF TypeOK, Run, Dispatch, Claim, Probe, CleanupLock, CleanupProbe,
       CleanupUnlink, Recheck, Unlink, Recreate, DropCleanup, Check, Rollback,
       SetMarker, Plan, Deliver, ClearMarker, Fail, Crash, Admit, Reset, Refuse, AutoRecover, Intrudes
  <2> QED BY <2>3, <2>4, <2>5, <2>6, <2>7 DEF TypeOK
<1> QED BY <1>1, <1>2

\* Every step of every process preserves the invariant.
LEMMA MarkerInvStep ==
  ASSUME MarkerInv, [Next]_vars
  PROVE  MarkerInv'
<1>1. TypeOK'
  BY TypeStep DEF MarkerInv
<1>2. CASE UNCHANGED vars
  BY <1>1, <1>2 DEF vars, MarkerInv, Owner
<1>3. CASE Next
  <2>0. CASE Unblock \/ Readmit
    BY <1>1, <2>0 DEF Unblock, Readmit, MarkerInv, Owner
  <2> SUFFICES ASSUME NEW p \in Proc,
                      Run(p) \/ Refuse(p) \/ AutoRecover(p) \/ Fail(p) \/ Crash(p)
               PROVE  MarkerInv'
    BY <1>3, <2>0 DEF Next
  <2>2. CASE Claim(p) \/ Recreate(p)
    BY <1>1, <2>2, NoNewOwner, MarkerWritten
    DEF Claim, Recreate, Creatable, Locations, Planners
  <2>3. CASE Unlink(p) \/ ClearMarker(p)
    BY <1>1, <2>3, MarkerWritten DEF Unlink, ClearMarker, Locations, Planners
  <2>4. CASE SetMarker(p)
    BY <1>1, <2>4, MarkerWritten DEF SetMarker, Locations, Planners
  <2>5. CASE Dispatch(p) \/ Probe(p) \/ CleanupLock(p) \/ CleanupProbe(p)
    BY <1>1, <2>5, NoNewOwner
    DEF Dispatch, Probe, CleanupLock, CleanupProbe, Locations, Planners
  <2>6. CASE CleanupUnlink(p) \/ Recheck(p) \/ DropCleanup(p)
    BY <1>1, <2>6, NoNewOwner
    DEF CleanupUnlink, Recheck, DropCleanup, At, Owner, Locations, Planners
  <2>7. CASE Check(p) \/ Rollback(p) \/ Plan(p) \/ Deliver(p)
    BY <1>1, <2>7, NoNewOwner
    DEF Check, Rollback, Plan, Deliver, At, Owner, Locations, Planners
  <2>8. CASE Fail(p) \/ Crash(p)
    BY <1>1, <2>8, NoNewOwner DEF Fail, Crash, Owner, Locations, Planners
  <2>9. CASE Admit(p) \/ Reset(p) \/ Refuse(p) \/ AutoRecover(p)
    BY <1>1, <2>9, NoNewOwner DEF Admit, Reset, Refuse, AutoRecover, Locations, Planners
  <2> QED
    BY <2>9, <2>2, <2>3, <2>4, <2>5, <2>6, <2>7, <2>8 DEF Run
<1> QED BY <1>2, <1>3

\* The invariant of the marker.
LEMMA MarkerInvariant == Spec => []MarkerInv
<1>1. Init => MarkerInv
  <2> SUFFICES ASSUME Init PROVE MarkerInv
    OBVIOUS
  <2>1. pc \in [Proc -> Locations] /\ \A p \in Proc : ~Owner(p)
    BY DEF Init, Locations, Owner, Planners
  <2>2. faults \in 0..MaxFaults
    BY MarkerAssumption DEF Init
  <2>3. labels \in SUBSET Labels /\ labels \cap Stages # {}
    BY DEF Init, Labels, Stages
  <2> QED BY ZenonT(60), <2>1, <2>2, <2>3 DEF Init, MarkerInv, TypeOK
<1> QED BY <1>1, MarkerInvStep, PTL DEF Spec

\* Two runs plan an issue at once only after an intrusion on a live marker.
THEOREM OwnerUnlessIntrudedHolds == Spec => []OwnerUnlessIntruded
<1>1. MarkerInv => OwnerUnlessIntruded
  BY DEF MarkerInv, OwnerUnlessIntruded
<1> QED BY <1>1, MarkerInvariant, PTL

\* The marker files, the labels and the processes keep their types, and the
\* issue always has a stage label, for any number of processes (TypeOK).
THEOREM TypeCorrect == Spec => []TypeOK
<1>1. MarkerInv => TypeOK
  BY DEF MarkerInv
<1> QED BY <1>1, MarkerInvariant, PTL
=============================================================================
