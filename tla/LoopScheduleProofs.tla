-------------------------- MODULE LoopScheduleProofs --------------------------
(***************************************************************************)
(* For every work list, dependency graph, conflict relation and budget:    *)
(* the loop runs dependent or conflicting items side by side only after an *)
(* item re-entered in_progress past the scheduler, and the sweeps of       *)
(* propagateSkips end and skip exactly the items that can never run.       *)
(***************************************************************************)
EXTENDS SkipPropagation, FiniteSetTheorems, WellFoundedInduction, TLAPS

-----------------------------------------------------------------------------
(* Sets of items *)

\* A set of items is finite, and so are its parts.
LEMMA ItemsFinite ==
  ASSUME NEW S \in SUBSET Items
  PROVE  IsFiniteSet(S) /\ Cardinality(S) \in Nat
<1>1. IsFiniteSet(Items)
  BY SMTT(60), ScheduleAssumption, FS_Interval DEF Items
<1>2. IsFiniteSet(S)
  BY Zenon, <1>1, FS_Subset
<1> QED BY Zenon, <1>2, FS_CardinalityType

\* A part of an independent set is independent.
LEMMA IndependentSubset ==
  ASSUME NEW S \in SUBSET Items, Independent(S), NEW T \in SUBSET S
  PROVE  Independent(T)
<1>1. Cardinality(T) <= Cardinality(S)
  BY Zenon, ItemsFinite, FS_Subset
<1>2. Cardinality(T) <= Budget
  BY SMTT(60), <1>1, ItemsFinite, ScheduleAssumption DEF Independent
<1> QED BY Zenon, <1>2 DEF Independent

\* An item alone is independent.
LEMMA IndependentSingleton ==
  ASSUME NEW i
  PROVE  Independent({i})
<1>1. Cardinality({i}) = 1
  BY Zenon, FS_Singleton
<1>2. Cardinality({i}) <= Budget
  BY SMTT(60), <1>1, ScheduleAssumption
<1> QED BY Zenon, <1>2 DEF Independent

\* A set of items that is not empty has a last one.
LEMMA LastItem ==
  ASSUME NEW S \in SUBSET Items, S # {}
  PROVE  \E m \in S : \A i \in S : i <= m
<1> DEFINE T == {N - i : i \in S}
<1>1. T \subseteq Nat /\ T # {}
  <2>1. ASSUME NEW i \in S PROVE N - i \in Nat
    BY SMTT(60), ScheduleAssumption DEF Items
  <2> QED BY Zenon, <2>1
<1>2. PICK x \in T : \A y \in T : ~(<<y, x>> \in OpToRel(<, Nat))
  BY Zenon, <1>1, NatLessThanWellFounded, WFMin
<1>3. \A y \in T : ~(y < x)
  BY Zenon, <1>1, <1>2 DEF OpToRel
<1>4. PICK m \in S : x = N - m
  OBVIOUS
<1>5. ASSUME NEW i \in S PROVE i <= m
  <2>1. ~(N - i < N - m)
    BY Zenon, <1>3, <1>4
  <2>2. N \in Int /\ i \in Int /\ m \in Int
    BY SMTT(60), ScheduleAssumption DEF Items
  <2> QED BY SMTT(60), <2>1, <2>2
<1> QED BY Zenon, <1>5

\* What selectSchedulableSet admits is independent.
LEMMA SelectedIndependent ==
  ASSUME NEW S \in SUBSET Frontier, Selected(S)
  PROVE  Independent(S)
<1>1. S \subseteq Items /\ Frontier \subseteq Items
  BY Zenon DEF Frontier
<1>2. \A i, j \in S : i # j => ~Clash(i, j)
  <2> SUFFICES ASSUME NEW i \in S, NEW j \in S, i # j PROVE ~Clash(i, j)
    OBVIOUS
  <2>1. i \in Nat /\ j \in Nat
    BY SMTT(60), <1>1, ScheduleAssumption DEF Items
  <2>2. CASE j < i
    BY Zenon, <1>1, <2>2 DEF Selected
  <2>3. CASE i < j
    <3>1. ~Clash(j, i)
      BY Zenon, <1>1, <2>3 DEF Selected
    <3> QED BY Zenon, <3>1 DEF Clash
  <2> QED BY SMTT(60), <2>1, <2>2, <2>3
<1>3. Cardinality(S) <= Budget
  <2>1. CASE S = {}
    BY SMTT(60), <2>1, FS_EmptySet, ScheduleAssumption
  <2>2. CASE S # {}
    <3>1. PICK m \in S : \A i \in S : i <= m
      BY Zenon, <1>1, <2>2, LastItem
    <3> DEFINE before == {j \in S : j < m}
    <3>2. S = before \cup {m} /\ m \notin before
      <4>1. \A i \in S : i \in Nat
        BY SMTT(60), <1>1 DEF Items
      <4>2. \A i \in S : i < m \/ i = m
        BY SMTT(60), <3>1, <4>1
      <4>3. ~(m < m)
        BY SMTT(60), <4>1
      <4> QED BY Zenon, <4>2, <4>3
    <3>3. IsFiniteSet(before) /\ Cardinality(before) \in Nat
      BY Zenon, <1>1, ItemsFinite
    <3>4. Cardinality(S) = Cardinality(before) + 1
      BY Zenon, <3>2, <3>3, FS_AddElement
    <3>5. Cardinality(before) < Budget
      BY Zenon, <1>1 DEF Selected
    <3> QED BY SMTT(60), <3>3, <3>4, <3>5, ScheduleAssumption
  <2> QED BY Zenon, <2>1, <2>2
<1> QED BY Zenon, <1>2, <1>3 DEF Independent

-----------------------------------------------------------------------------
(* Types *)

\* A ledger write that is not a selection keeps the ledger's type.
LEMMA MovesTyped ==
  ASSUME LedgerOK, NEW new \in [Items -> States], Moves(new)
  PROVE  state' \in [Items -> States] /\ bypassed' \in BOOLEAN
  BY Zenon DEF LedgerOK, Moves

\* The states that reconciliation finds are states of the ledger.
LEMMA ReconciledTyped ==
  ASSUME LedgerOK, WorldOK
  PROVE  [i \in Items |-> Reconciled(i)] \in [Items -> States]
<1>1. ASSUME NEW i \in Items PROVE Reconciled(i) \in States
  <2>1. state[i] \in States /\ remote[i] \in {"none", "open", "ready"}
    BY Zenon DEF LedgerOK, WorldOK
  <2> QED BY Zenon, <2>1 DEF Reconciled, States
<1> QED BY Zenon, <1>1

\* So a reconciliation keeps the types too.
LEMMA ReconcileTyped ==
  ASSUME LedgerOK, WorldOK, ReconcileAll
  PROVE  /\ state' \in [Items -> States] /\ bypassed' \in BOOLEAN
         /\ drift' \subseteq Items
<1>3. state' \in [Items -> States] /\ bypassed' \in BOOLEAN
  BY Zenon, ReconciledTyped, MovesTyped DEF ReconcileAll
<1>4. drift' \subseteq Items
  BY Zenon DEF ReconcileAll, WorldOK
<1> QED BY Zenon, <1>3, <1>4

\* Every step keeps the ledger's type.
LEMMA LedgerStep ==
  ASSUME TypeOK, [Next]_vars
  PROVE  LedgerOK'
<1> USE DEF TypeOK
<1>1. CASE UNCHANGED vars
  BY Zenon, <1>1 DEF vars, ledger, LedgerOK
<1>2. CASE Crash \/ Outside \/ RecoverDone \/ AllDone \/ ProbeDone
           \/ PersistDone
  BY Zenon, <1>2 DEF Crash, Outside, RecoverDone, AllDone, ProbeDone,
     PersistDone, ledger, LedgerOK
<1>3. CASE Reconcile
  BY Zenon, <1>3, ReconcileTyped DEF Reconcile, LedgerOK
<1>4. CASE PropagateSkips
  BY Zenon, <1>4 DEF PropagateSkips, LedgerOK, States
<1>5. CASE Schedule
  BY Zenon, <1>5 DEF Schedule, NothingToDo, ledger, LedgerOK
<1>6. CASE PassDone
  BY Zenon, <1>6, ReconcileTyped DEF PassDone, ledger, LedgerOK
<1>7. ASSUME NEW i \in Items, Start(i) \/ Probe(i) \/ Persist(i)
      PROVE  LedgerOK'
  BY Zenon, <1>7 DEF Start, Probe, Persist, LedgerOK, States
<1>8. ASSUME NEW i \in Items, NEW o \in Outcomes, Settle(i, o)
      PROVE  LedgerOK'
  BY Zenon, <1>8 DEF Settle, ledger, LedgerOK
<1>9. ASSUME NEW P \in SUBSET active, Park(P) PROVE LedgerOK'
  BY Zenon, <1>9 DEF Park, ledger, LedgerOK
<1>10. ASSUME NEW i \in Items, NEW s \in States
       PROVE  [state EXCEPT ![i] = s] \in [Items -> States]
  BY Zenon DEF LedgerOK
<1>11. ASSUME NEW i \in Items, Recover(i) PROVE LedgerOK'
  <2>1. stop' = stop
    BY Zenon, <1>11 DEF Recover
  <2>2. state' \in [Items -> States] /\ bypassed' \in BOOLEAN
    <3>1. "in_progress" \in States /\ "abandoned" \in States
      BY Zenon DEF States
    <3>2. CASE UNCHANGED <<state, bypassed>>
      BY Zenon, <3>2 DEF LedgerOK
    <3>3. CASE ReconcileAll
      BY Zenon, <3>3, ReconcileTyped
    <3>4. CASE \E s \in {"in_progress", "abandoned"} :
                 Moves([state EXCEPT ![i] = s])
      BY Zenon, <3>1, <3>4, <1>10, MovesTyped
    <3> QED BY Zenon, <1>11, <3>2, <3>3, <3>4 DEF Recover, RecoverTyped
  <2> QED BY Zenon, <2>1, <2>2 DEF LedgerOK
<1>12. ASSUME NEW i \in Items, NEW s \in {"parked", "pending"} \cup Held,
              Enter(i, s)
       PROVE  LedgerOK'
  BY Zenon, <1>12 DEF Enter, ledger, LedgerOK, States
<1>13. ASSUME NEW i \in Items, NEW class \in {"human", "mechanical"},
              BlockAndRecover(i, class)
       PROVE  LedgerOK'
  <2>1. {"blocked", "in_progress", "abandoned"} \subseteq States
    BY Zenon DEF States
  <2>2. state' \in [Items -> States] /\ bypassed' \in BOOLEAN
    <3>1. CASE UNCHANGED <<state, bypassed>>
      BY Zenon, <3>1 DEF LedgerOK
    <3>2. CASE ReconcileAll
      BY Zenon, <3>2, ReconcileTyped
    <3>3. CASE \E s \in {"blocked", "in_progress", "abandoned"} :
                 Moves([state EXCEPT ![i] = s])
      BY Zenon, <2>1, <3>3, <1>10, MovesTyped
    <3> QED BY Zenon, <1>13, <3>1, <3>2, <3>3 DEF BlockAndRecover, ledger
  <2>3. stop' \in {"none", "dependency_deadlock", "human_authority"}
    BY Zenon, <1>13 DEF BlockAndRecover, ledger, LedgerOK
  <2> QED BY Zenon, <2>2, <2>3 DEF LedgerOK
<1>14. ASSUME NEW i \in Items, Classify(i) PROVE LedgerOK'
  BY Zenon, <1>14, <1>12, <1>13 DEF Classify, Hold, Held, ledger, LedgerOK
<1>15. ASSUME NEW R, NEW D, ReopenHolds(R, D) \/ AfterHolds(R, D)
       PROVE  LedgerOK'
  BY Zenon, <1>15 DEF ReopenHolds, AfterHolds, Reopened, LedgerOK, States
<1>16. CASE Resume
  BY Zenon, <1>16, ReconciledTyped, MovesTyped DEF Resume, LedgerOK
<1>17. CASE ResumeStopped
  BY Zenon, <1>17 DEF ResumeStopped, LedgerOK, States
<1> QED
  BY Zenon, <1>1, <1>2, <1>3, <1>4, <1>5, <1>6, <1>7, <1>8, <1>9, <1>11, <1>14,
     <1>15, <1>16, <1>17 DEF Next, Step

\* Every step keeps the types of what the supervisor observes.
LEMMA WorldStep ==
  ASSUME TypeOK, [Next]_vars
  PROVE  WorldOK'
<1> USE DEF TypeOK
<1>1. CASE UNCHANGED world
  BY Zenon, <1>1 DEF world, WorldOK
<1>2. ASSUME NEW i \in Items, NEW o \in Outcomes, Settle(i, o)
      PROVE  WorldOK'
  BY Zenon, <1>2 DEF Settle, WorldOK
<1>3. CASE Outside
  <2>1. moves' \in 0..MaxMoves
    BY SMTT(60), <1>3, ScheduleAssumption DEF Outside, WorldOK
  <2>2. /\ remote' \in [Items -> {"none", "open", "ready"}]
        /\ rebase' \subseteq Items /\ cleared' \subseteq Items
        /\ ext' \in [Ext -> Statuses]
    BY Zenon, <1>3 DEF Outside, WorldOK, Statuses, InState
  <2> QED BY Zenon, <2>1, <2>2 DEF WorldOK
<1>4. CASE UNCHANGED vars
  BY Zenon, <1>1, <1>4 DEF vars
<1>5. CASE Resume \/ ResumeStopped \/ Crash \/ Reconcile \/ PropagateSkips
           \/ RecoverDone \/ AllDone \/ Schedule \/ ProbeDone \/ PersistDone
           \/ PassDone
  BY Zenon, <1>1, <1>5 DEF Resume, ResumeStopped, Crash, Reconcile,
     PropagateSkips, RecoverDone, AllDone, Schedule, ProbeDone, PersistDone,
     PassDone
<1>6. ASSUME NEW i \in Items,
             Recover(i) \/ Start(i) \/ Probe(i) \/ Persist(i) \/ Classify(i)
      PROVE  WorldOK'
  BY Zenon, <1>1, <1>6 DEF Recover, Start, Probe, Persist, Classify
<1>7. ASSUME NEW P \in SUBSET active, Park(P) PROVE WorldOK'
  BY Zenon, <1>1, <1>7 DEF Park
<1>8. ASSUME NEW R, NEW D, ReopenHolds(R, D) \/ AfterHolds(R, D)
      PROVE  WorldOK'
  BY Zenon, <1>1, <1>8 DEF ReopenHolds, AfterHolds
<1> QED BY Zenon, <1>2, <1>3, <1>4, <1>5, <1>6, <1>7, <1>8 DEF Next, Step

\* The end of a drive keeps the types of the cycle.
LEMMA EndDriveTyped ==
  ASSUME CycleOK, NEW why \in Ends, EndDrive(why),
         why = "crash" => crashes < MaxCrashes
  PROVE  CycleOK'
<1>1. crashes' \in 0..MaxCrashes
  BY SMTT(60), ScheduleAssumption DEF EndDrive, CycleOK
<1>2. /\ outcome' \in [Items -> AllOutcomes \cup {"none"}]
      /\ active' \subseteq Items
  BY Zenon DEF EndDrive, CycleOK
<1>3. statuses' \in [Ext -> Statuses]
  BY Zenon DEF EndDrive, Statuses
<1> QED BY Zenon, <1>1, <1>2, <1>3 DEF EndDrive, CycleOK, Phases

\* So does the end of a cycle.
LEMMA EndCycleTyped ==
  ASSUME CycleOK, NEW p, EndCycle(p)
  PROVE  CycleOK'
<1>1. CASE EndDrive("watchdog") \/ EndDrive("cap")
  BY Zenon, <1>1, EndDriveTyped DEF Ends
<1>2. CASE ~(EndDrive("watchdog") \/ EndDrive("cap"))
  <2>1. idle' \in Nat /\ cycles' \in Nat
    BY SMTT(60), <1>2 DEF EndCycle, CycleOK
  <2>2. outcome' \in [Items -> AllOutcomes \cup {"none"}]
    BY Zenon, <1>2 DEF EndCycle
  <2>3. statuses' \in [Ext -> Statuses]
    BY Zenon, <1>2 DEF EndCycle, Statuses
  <2> QED BY Zenon, <1>2, <2>1, <2>2, <2>3 DEF EndCycle, CycleOK, Phases
<1> QED BY Zenon, <1>1, <1>2

\* Every step keeps the types of the cycle.
LEMMA CycleStep ==
  ASSUME TypeOK, [Next]_vars
  PROVE  CycleOK'
<1> USE DEF TypeOK
<1>1. CASE UNCHANGED vars
  BY Zenon, <1>1 DEF vars, batch, observed, drive, CycleOK
<1>2. CASE Resume \/ ResumeStopped
  BY Zenon, <1>2 DEF Resume, ResumeStopped, batch, observed, CycleOK, Phases,
     Ends
<1>3. CASE Crash
  BY Zenon, <1>3, EndDriveTyped DEF Crash, Ends
<1>4. CASE Outside
  BY Zenon, <1>4 DEF Outside, batch, observed, drive, CycleOK
<1>5. CASE Reconcile
  BY Zenon, <1>5, ReconcileTyped DEF Reconcile, batch, drive, CycleOK, Phases
<1>6. CASE PropagateSkips \/ RecoverDone \/ PersistDone
  BY Zenon, <1>6 DEF PropagateSkips, RecoverDone, PersistDone, WorldOK, batch,
     observed, drive, CycleOK, Phases
<1>7. CASE AllDone
  BY Zenon, <1>7, EndDriveTyped DEF AllDone, Ends
<1>8. CASE Schedule
  <2>1. CASE NothingToDo
    BY Zenon, <2>1, EndDriveTyped, EndCycleTyped DEF NothingToDo, Ends
  <2>2. CASE ~NothingToDo
    BY Zenon, <1>8, <2>2 DEF Schedule, InProgress, InState, Frontier, observed, drive,
       CycleOK, Phases
  <2> QED BY Zenon, <2>1, <2>2
<1>9. CASE ProbeDone
  BY <1>9, EndDriveTyped, EndCycleTyped
  DEF ProbeDone, batch, observed, drive, CycleOK, Phases, Ends
<1>10. CASE PassDone
  <2>1. CASE stop = "none" /\ InState(Held) # {}
    BY Zenon, <1>10, <2>1, ReconcileTyped DEF PassDone, batch, drive, CycleOK, Phases
  <2>2. CASE ~(stop = "none" /\ InState(Held) # {})
    BY Zenon, <1>10, <2>2, EndDriveTyped, EndCycleTyped DEF PassDone, Ends
  <2> QED BY Zenon, <2>1, <2>2
<1>11. ASSUME NEW R, NEW D, ReopenHolds(R, D) \/ AfterHolds(R, D)
       PROVE  CycleOK'
  <2>1. CASE ReopenHolds(R, D)
    BY Zenon, <2>1 DEF ReopenHolds, InState, observed, drive, CycleOK, Phases
  <2>2. CASE AfterHolds(R, D)
    BY Zenon, <2>2, EndDriveTyped, EndCycleTyped DEF AfterHolds, Ends
  <2> QED BY Zenon, <1>11, <2>1, <2>2
<1>12. ASSUME NEW i \in Items, Recover(i) PROVE CycleOK'
  <2>1. drift' \subseteq Items
    BY Zenon, <1>12, ReconcileTyped DEF Recover, RecoverTyped, CycleOK
  <2>2. wait' \in {"none", "backoff", "cooling"} /\ progress' \in BOOLEAN
    BY Zenon, <1>12 DEF Recover, RecoverTyped, CycleOK
  <2> QED BY Zenon, <1>12, <2>1, <2>2 DEF Recover, drive, CycleOK
<1>13. ASSUME NEW i \in Items, Start(i) \/ Probe(i) PROVE CycleOK'
  BY Zenon, <1>13 DEF Start, Probe, observed, drive, CycleOK, Phases
<1>14. ASSUME NEW i \in Items, Persist(i) PROVE CycleOK'
  BY Zenon, <1>14, EndDriveTyped DEF Persist, observed, drive, CycleOK, Ends
<1>15. ASSUME NEW i \in Items, NEW o \in Outcomes, Settle(i, o)
       PROVE  CycleOK'
  BY Zenon, <1>15, ScheduleAssumption DEF Settle, observed, drive, CycleOK
<1>16. ASSUME NEW P \in SUBSET active, Park(P) PROVE CycleOK'
  BY Zenon, <1>16 DEF Park, observed, drive, CycleOK, Phases
<1>17. ASSUME NEW i \in Items, NEW s, Enter(i, s) PROVE CycleOK'
  BY Zenon, <1>17, EndDriveTyped DEF Enter, Visited, drive, CycleOK, Ends
<1>18. ASSUME NEW i \in Items, NEW class, BlockAndRecover(i, class)
       PROVE  CycleOK'
  <2>1. drift' \subseteq Items
    BY Zenon, <1>18, ReconcileTyped DEF BlockAndRecover, CycleOK
  <2> QED BY Zenon, <1>18, <2>1 DEF BlockAndRecover, Visited, drive, CycleOK
<1>19. ASSUME NEW i \in Items, Classify(i) PROVE CycleOK'
  BY Zenon, <1>19, <1>17, <1>18 DEF Classify, Hold, Visited, drive, CycleOK
<1> QED
  BY Zenon, <1>1, <1>2, <1>3, <1>4, <1>5, <1>6, <1>7, <1>8, <1>9, <1>10, <1>11,
     <1>12, <1>13, <1>14, <1>15, <1>16, <1>19 DEF Next, Step

\* Every reachable ledger, observation and cycle has its type.
THEOREM TypeCorrect == Spec => []TypeOK
<1>1. Init => TypeOK
  <2> SUFFICES ASSUME Init PROVE TypeOK
    OBVIOUS
  <2>1. LedgerOK
    BY Zenon DEF Init, LedgerOK, States
  <2>2. WorldOK
    <3>1. remote \in [Items -> {"none", "open", "ready"}]
      BY Zenon, ScheduleAssumption DEF Init
    <3>2. ext \in [Ext -> Statuses]
      BY Zenon DEF Init, Statuses
    <3>3. moves \in 0..MaxMoves
      BY SMTT(60), ScheduleAssumption DEF Init
    <3> QED BY Zenon, <3>1, <3>2, <3>3 DEF Init, WorldOK
  <2>3. CycleOK
    <3>1. crashes \in 0..MaxCrashes
      BY SMTT(60), ScheduleAssumption DEF Init
    <3>2. outcome \in [Items -> AllOutcomes \cup {"none"}]
      BY Zenon DEF Init
    <3>3. statuses \in [Ext -> Statuses]
      BY Zenon DEF Init, Statuses
    <3> QED BY Zenon, <3>1, <3>2, <3>3 DEF Init, CycleOK, Phases, Ends
  <2> QED BY Zenon, <2>1, <2>2, <2>3 DEF TypeOK
<1>2. TypeOK /\ [Next]_vars => TypeOK'
  BY Zenon, LedgerStep, WorldStep, CycleStep DEF TypeOK
<1> QED BY <1>1, <1>2, PTL DEF Spec

-----------------------------------------------------------------------------
(* What runs side by side *)

\* A step that starts no item, or writes the ledger through Moves, and is not
\* the start of a batch.
LEMMA SelectionKept ==
  ASSUME LedgerOK, SelectionInv, phase' # "start",
         \/ bypassed' = bypassed /\ InProgress' \subseteq InProgress
         \/ \E new \in [Items -> States] : Moves(new)
  PROVE  SelectionInv'
<1> SUFFICES ASSUME ~bypassed' PROVE Independent(InProgress')
  BY Zenon DEF SelectionInv, IndependentUnlessBypassed, InProgressIndependent,
     Independent, Clash, Reaches
<1>1. InProgress \subseteq Items /\ InProgress' \subseteq Items
  BY Zenon DEF InProgress, InState
<1>2. bypassed \/ Independent(InProgress)
  BY Zenon DEF SelectionInv, IndependentUnlessBypassed, InProgressIndependent
<1>3. CASE bypassed' = bypassed /\ InProgress' \subseteq InProgress
  BY Zenon, <1>1, <1>2, <1>3, IndependentSubset
<1>4. CASE \E new \in [Items -> States] : Moves(new)
  <2>1. ~bypassed /\ ~Joins(state')
    BY Zenon, <1>4 DEF Moves
  <2>2. CASE InProgress' \subseteq InProgress
    BY Zenon, <1>1, <1>2, <2>1, <2>2, IndependentSubset
  <2>3. CASE ~(InProgress' \subseteq InProgress)
    <3>1. PICK i \in InProgress' : i \notin InProgress
      BY Zenon, <2>3
    <3>2. InProgress' = {i}
      BY Zenon, <2>1, <3>1 DEF Joins, InProgress, InState
    <3> QED BY Zenon, <3>2, IndependentSingleton
  <2> QED BY Zenon, <2>2, <2>3
<1> QED BY Zenon, <1>3, <1>4

\* A drive or a cycle that ends does not leave a batch half started.
LEMMA EndsOutsideStart ==
  /\ \A why : EndDrive(why) => phase' # "start"
  /\ \A p : EndCycle(p) => phase' # "start"
  BY Zenon DEF EndDrive, EndCycle

\* Reconciliation writes the ledger through Moves.
LEMMA ReconcileMoves ==
  ASSUME LedgerOK, WorldOK, ReconcileAll
  PROVE  \E new \in [Items -> States] : Moves(new)
<1>1. state' \in [Items -> States] /\ Moves(state')
  BY Zenon, ReconcileTyped DEF ReconcileAll, Moves
<1> QED BY Zenon, <1>1

\* Every step preserves the invariant of selection.
LEMMA SelectionStep ==
  ASSUME TypeOK, SelectionInv, [Next]_vars
  PROVE  SelectionInv'
<1> USE DEF TypeOK
<1>1. ASSUME UNCHANGED <<state, bypassed, phase, todo, active>>
      PROVE  SelectionInv'
  BY Zenon, <1>1 DEF SelectionInv, IndependentUnlessBypassed, InProgressIndependent,
     Independent, InProgress, InState
<1>2. ASSUME UNCHANGED <<state, bypassed>>, phase' # "start"
      PROVE  SelectionInv'
  BY Zenon, <1>2, SelectionKept DEF InProgress, InState
<1>3. CASE UNCHANGED vars \/ Outside
  BY Zenon, <1>1, <1>3 DEF vars, Outside, ledger, batch
<1>4. CASE Crash \/ RecoverDone \/ AllDone \/ ProbeDone \/ PersistDone
  BY Zenon, <1>2, <1>4, EndsOutsideStart
  DEF Crash, RecoverDone, AllDone, ProbeDone, PersistDone, ledger
<1>5. CASE Reconcile
  BY Zenon, <1>5, ReconcileMoves, SelectionKept DEF Reconcile
<1>6. CASE PropagateSkips
  <2>1. phase' # "start" /\ bypassed' = bypassed
    BY Zenon, <1>6 DEF PropagateSkips
  <2>2. InProgress' \subseteq InProgress
    BY Zenon, <1>6 DEF PropagateSkips, InProgress, InState
  <2> QED BY Zenon, <2>1, <2>2, SelectionKept
<1>7. CASE Schedule
  <2>1. CASE InProgress # {} \/ NothingToDo
    <3>1. CASE NothingToDo
      <4>1. UNCHANGED <<state, bypassed>> /\ phase' # "start"
        BY Zenon, <1>7, <3>1, EndsOutsideStart DEF Schedule, NothingToDo, ledger
      <4> QED BY Zenon, <4>1, <1>2
    <3>2. CASE InProgress # {}
      BY Zenon, <1>2, <1>7, <3>2 DEF Schedule, ledger
    <3> QED BY Zenon, <2>1, <3>1, <3>2
  <2>2. CASE InProgress = {} /\ ~NothingToDo
    <3>1. PICK S \in SUBSET Frontier :
            Selected(S) /\ active' = S /\ todo' = S
      BY Zenon, <1>7, <2>2 DEF Schedule
    <3>2. state' = state /\ bypassed' = bypassed
      BY Zenon, <1>7, <2>2 DEF Schedule, ledger
    <3>3. Independent(S) /\ InProgress' = {}
      BY Zenon, <2>2, <3>1, <3>2, SelectedIndependent DEF InProgress, InState
    <3>4. Independent({})
      BY Zenon, <3>1, <3>3, IndependentSubset DEF Frontier
    <3> QED
      BY Zenon, <3>1, <3>2, <3>3, <3>4 DEF SelectionInv, IndependentUnlessBypassed,
         InProgressIndependent, Independent, Clash, Reaches
  <2> QED BY Zenon, <2>1, <2>2
<1>8. ASSUME NEW i \in Items, Start(i) PROVE SelectionInv'
  <2>1. Independent(active) /\ InProgress \subseteq active /\ i \in active
    BY Zenon, <1>8 DEF Start, Turn, SelectionInv
  <2>2. InProgress' \subseteq active /\ active' = active /\ active \subseteq Items
    BY Zenon, <1>8, <2>1 DEF Start, InProgress, InState, LedgerOK, CycleOK
  <2>3. Independent(InProgress')
    BY Zenon, <2>1, <2>2, IndependentSubset
  <2>4. todo' \subseteq active
    BY Zenon, <1>8 DEF Start, SelectionInv
  <2> QED
    BY Zenon, <2>1, <2>2, <2>3, <2>4 DEF SelectionInv, IndependentUnlessBypassed,
       InProgressIndependent, Independent, Clash, Reaches
<1>9. ASSUME NEW i \in Items, Probe(i) \/ Persist(i) PROVE SelectionInv'
  <2>1. phase' # "start" /\ bypassed' = bypassed
    BY Zenon, <1>9, EndsOutsideStart DEF Probe, Persist
  <2>2. InProgress' \subseteq InProgress
    BY Zenon, <1>9 DEF Probe, Persist, InProgress, InState, LedgerOK
  <2> QED BY Zenon, <2>1, <2>2, SelectionKept
<1>10. ASSUME NEW i \in Items, NEW o \in Outcomes, Settle(i, o)
       PROVE  SelectionInv'
  BY Zenon, <1>2, <1>10 DEF Settle, ledger
<1>11. ASSUME NEW P \in SUBSET active, Park(P) PROVE SelectionInv'
  BY Zenon, <1>2, <1>11 DEF Park, ledger
<1>12. ASSUME NEW i \in Items, NEW s \in States,
              Moves([state EXCEPT ![i] = s])
       PROVE  \E new \in [Items -> States] : Moves(new)
  BY Zenon, <1>12 DEF LedgerOK
<1>13. {"blocked", "in_progress", "abandoned"} \subseteq States
  BY Zenon DEF States
<1>14. ASSUME NEW i \in Items, Recover(i) PROVE SelectionInv'
  <2>1. phase' # "start"
    BY Zenon, <1>14 DEF Recover
  <2>2. \/ UNCHANGED <<state, bypassed>>
        \/ \E new \in [Items -> States] : Moves(new)
    BY Zenon, <1>12, <1>13, <1>14, ReconcileMoves DEF Recover, RecoverTyped
  <2> QED BY Zenon, <2>1, <2>2, <1>2, SelectionKept
<1>15. ASSUME NEW i \in Items, phase = "pass2",
              NEW s \in {"parked", "pending"} \cup Held, Enter(i, s)
       PROVE  SelectionInv'
  <2>1. phase' # "start" /\ bypassed' = bypassed
    BY Zenon, <1>15, EndsOutsideStart DEF Enter, Visited
  <2>2. InProgress' \subseteq InProgress
    BY Zenon, <1>15 DEF Enter, Held, ledger, InProgress, InState, LedgerOK
  <2> QED BY Zenon, <2>1, <2>2, SelectionKept
<1>16. ASSUME NEW i \in Items, phase = "pass2", NEW class,
              BlockAndRecover(i, class)
       PROVE  SelectionInv'
  <2>1. phase' # "start"
    BY Zenon, <1>16 DEF BlockAndRecover, Visited
  <2>2. \/ UNCHANGED <<state, bypassed>>
        \/ \E new \in [Items -> States] : Moves(new)
    BY Zenon, <1>12, <1>13, <1>16, ReconcileMoves DEF BlockAndRecover, ledger
  <2> QED BY Zenon, <2>1, <2>2, <1>2, SelectionKept
<1>17. ASSUME NEW i \in Items, Classify(i) PROVE SelectionInv'
  BY Zenon, <1>2, <1>15, <1>16, <1>17 DEF Classify, Hold, Held, Visited, ledger
<1>18. CASE PassDone
  BY Zenon, <1>2, <1>18, ReconcileMoves, SelectionKept, EndsOutsideStart
  DEF PassDone, ledger
<1>19. ASSUME NEW R, NEW D, ReopenHolds(R, D) \/ AfterHolds(R, D)
       PROVE  SelectionInv'
  <2>1. phase' # "start" /\ bypassed' = bypassed
    BY Zenon, <1>19, EndsOutsideStart DEF ReopenHolds, AfterHolds
  <2>2. InProgress' \subseteq InProgress
    BY Zenon, <1>19 DEF ReopenHolds, AfterHolds, Reopened, InProgress, InState
  <2> QED BY Zenon, <2>1, <2>2, SelectionKept
<1>20. CASE Resume
  <2>1. phase' # "start"
    BY Zenon, <1>20 DEF Resume
  <2>2. \/ UNCHANGED <<state, bypassed>>
        \/ \E new \in [Items -> States] : Moves(new)
    BY Zenon, <1>20, ReconciledTyped DEF Resume
  <2> QED BY Zenon, <2>1, <2>2, <1>2, SelectionKept
<1>21. CASE ResumeStopped
  <2>1. phase' # "start" /\ bypassed' = bypassed
    BY Zenon, <1>21 DEF ResumeStopped
  <2>2. InProgress' \subseteq InProgress
    BY Zenon, <1>21 DEF ResumeStopped, InProgress, InState
  <2> QED BY Zenon, <2>1, <2>2, SelectionKept
<1> QED
  BY Zenon, <1>3, <1>4, <1>5, <1>6, <1>7, <1>8, <1>9, <1>10, <1>11, <1>14, <1>17,
     <1>18, <1>19, <1>20, <1>21 DEF Next, Step

\* Items in progress are independent of one another and fit in the budget,
\* unless one re-entered in_progress past the scheduler.
THEOREM IndependentUnlessBypassedHolds == Spec => []IndependentUnlessBypassed
<1>1. Init => SelectionInv
  <2> SUFFICES ASSUME Init PROVE SelectionInv
    OBVIOUS
  <2>1. InProgress = {} /\ phase # "start"
    BY Zenon DEF Init, InProgress, InState
  <2>2. Independent({})
    BY SMTT(60), FS_EmptySet, ScheduleAssumption DEF Independent
  <2> QED
    BY Zenon, <2>1, <2>2 DEF SelectionInv, IndependentUnlessBypassed,
       InProgressIndependent
<1>2. TypeOK /\ SelectionInv /\ [Next]_vars => SelectionInv'
  BY Zenon, SelectionStep
<1>3. SelectionInv => IndependentUnlessBypassed
  BY Zenon DEF SelectionInv
<1> QED BY <1>1, <1>2, <1>3, TypeCorrect, PTL DEF Spec

-----------------------------------------------------------------------------
(* Skips *)

\* The set that propagateSkips skips is closed: nothing more is lost by it.
LEMMA SkippedNowClosed ==
  ASSUME NEW seen, NEW k \in Skippable, Lost(k, SkippedNow(seen), seen)
  PROVE  k \in SkippedNow(seen)
<1> SUFFICES ASSUME NEW L \in SUBSET Skippable,
                    \A j \in Skippable : Lost(j, L, seen) => j \in L
             PROVE  k \in L
  BY Zenon DEF SkippedNow
<1>1. SkippedNow(seen) \subseteq L
  BY Zenon DEF SkippedNow
<1>2. Lost(k, L, seen)
  BY Zenon, <1>1 DEF Lost
<1> QED BY Zenon, <1>2

\* After propagateSkips no item that could be skipped has lost a dependency,
\* in any dependency graph, cyclic ones included.
THEOREM SkipsClosedHolds == Spec => []SkipsClosed
<1>1. Init => SkipsClosed
  BY Zenon DEF Init, SkipsClosed
<1>2. ASSUME TypeOK, TypeOK', SkipsClosed, [Next]_vars PROVE SkipsClosed'
  <2>1. CASE PropagateSkips
    <3> SUFFICES ASSUME NEW i \in Skippable', Lost(i, {}, statuses)'
                 PROVE  FALSE
      BY Zenon DEF SkipsClosed
    <3>1. i \in Skippable /\ i \notin SkippedNow(ext)
      BY Zenon, <2>1 DEF PropagateSkips, Skippable, InState
    <3>2. Lost(i, SkippedNow(ext), ext)
      <4>1. \A d \in Items : state'[d] \in {"abandoned", "skipped"} =>
              d \in SkippedNow(ext) \/ state[d] \in {"abandoned", "skipped"}
        BY Zenon, <2>1 DEF PropagateSkips
      <4>2. DependsOn[i] \subseteq Items
        BY Zenon, <3>1, ScheduleAssumption DEF Skippable, InState
      <4> QED BY Zenon, <2>1, <4>1, <4>2 DEF PropagateSkips, Lost
    <3> QED BY Zenon, <3>1, <3>2, SkippedNowClosed
  <2>2. CASE UNCHANGED <<state, statuses, phase>>
    <3> SUFFICES ASSUME phase' = "holds", NEW i \in Skippable',
                        Lost(i, {}, statuses)'
                 PROVE  FALSE
      BY Zenon DEF SkipsClosed
    <3>1. phase = "holds" /\ i \in Skippable
      BY Zenon, <2>2 DEF Skippable, InState
    <3>2. Lost(i, {}, statuses)
      BY Zenon, <2>2 DEF Lost
    <3> QED BY Zenon, <1>2, <3>1, <3>2 DEF SkipsClosed
  <2>3. CASE phase' # "holds"
    BY Zenon, <2>3 DEF SkipsClosed
  <2>4. \/ PropagateSkips \/ UNCHANGED <<state, statuses, phase>>
        \/ phase' # "holds"
    <3>1. \A why, p : EndDrive(why) \/ EndCycle(p) => phase' # "holds"
      BY Zenon DEF EndDrive, EndCycle
    <3>2. CASE UNCHANGED vars \/ Outside
      BY Zenon, <3>2 DEF vars, Outside, ledger, observed
    <3>3. CASE Resume \/ ResumeStopped \/ Crash \/ Reconcile \/ RecoverDone
               \/ AllDone \/ ProbeDone \/ PersistDone \/ PassDone
      BY Zenon, <3>1, <3>3 DEF Resume, ResumeStopped, Crash, Reconcile,
         RecoverDone, AllDone, ProbeDone, PersistDone, PassDone
    <3>4. CASE Schedule
      BY Zenon, <3>1, <3>4 DEF Schedule, NothingToDo
    <3>5. ASSUME NEW i \in Items,
                 Recover(i) \/ Start(i) \/ Probe(i) \/ Persist(i)
          PROVE  phase' # "holds"
      BY Zenon, <3>1, <3>5 DEF Recover, Start, Probe, Persist
    <3>6. ASSUME NEW i \in Items, Classify(i) PROVE phase' # "holds"
      BY Zenon, <3>1, <3>6 DEF Classify, Hold, Enter, BlockAndRecover, Visited
    <3>7. ASSUME NEW i \in Items, NEW o \in Outcomes, Settle(i, o)
          PROVE  phase' # "holds"
      BY Zenon, <3>7 DEF Settle
    <3>8. ASSUME NEW P \in SUBSET active, Park(P) PROVE phase' # "holds"
      BY Zenon, <3>8 DEF Park
    <3>9. ASSUME NEW R, NEW D, ReopenHolds(R, D) \/ AfterHolds(R, D)
          PROVE  phase' # "holds"
      BY Zenon, <3>1, <3>9 DEF ReopenHolds, AfterHolds
    <3> QED
      BY Zenon, <1>2, <3>2, <3>3, <3>4, <3>5, <3>6, <3>7, <3>8, <3>9 DEF Next, Step
  <2> QED BY Zenon, <2>1, <2>2, <2>3, <2>4
<1> QED BY <1>1, <1>2, TypeCorrect, PTL DEF Spec

-----------------------------------------------------------------------------
(* Stops *)

\* After every step a stopped run is idle or still in pass 2.
LEMMA StopStep ==
  ASSUME TypeOK, StopInv, [Next]_vars
  PROVE  StopInv'
<1>1. \A why : EndDrive(why) => phase' = "idle"
  BY Zenon DEF EndDrive
<1>2. CASE UNCHANGED vars \/ Outside
  BY Zenon, <1>2 DEF vars, Outside, ledger, StopInv
<1>3. CASE Resume \/ ResumeStopped \/ Crash \/ Reconcile \/ PropagateSkips
           \/ RecoverDone \/ AllDone \/ ProbeDone \/ PersistDone
  BY Zenon, <1>1, <1>3 DEF Resume, ResumeStopped, Crash, Reconcile,
     PropagateSkips, RecoverDone, AllDone, ProbeDone, PersistDone, ledger, StopInv
<1>4. CASE Schedule
  BY Zenon, <1>1, <1>4 DEF Schedule, NothingToDo, ledger, StopInv
<1>5. CASE PassDone
  BY Zenon, <1>1, <1>5 DEF PassDone, ledger, StopInv
<1>6. ASSUME NEW i \in Items,
             Recover(i) \/ Start(i) \/ Probe(i) \/ Persist(i)
      PROVE  StopInv'
  BY Zenon, <1>1, <1>6 DEF Recover, Start, Probe, Persist, StopInv
<1>7. ASSUME NEW i \in Items, Classify(i) PROVE StopInv'
  BY Zenon, <1>1, <1>7 DEF Classify, Hold, Enter, BlockAndRecover, Visited, StopInv
<1>8. ASSUME NEW i \in Items, NEW o \in Outcomes, Settle(i, o)
      PROVE  StopInv'
  BY Zenon, <1>8 DEF Settle, ledger, StopInv
<1>9. ASSUME NEW P \in SUBSET active, Park(P) PROVE StopInv'
  BY Zenon, <1>9 DEF Park, ledger, StopInv
<1>10. ASSUME NEW R, NEW D, ReopenHolds(R, D) \/ AfterHolds(R, D)
       PROVE  StopInv'
  BY Zenon, <1>1, <1>10 DEF ReopenHolds, AfterHolds, StopInv
<1> QED
  BY Zenon, <1>2, <1>3, <1>4, <1>5, <1>6, <1>7, <1>8, <1>9, <1>10 DEF Next, Step

\* A step of a stopped run keeps the stop, and records what its children
\* reported or finds items ready.
LEMMA StoppedRecords ==
  ASSUME TypeOK, StopInv, stop # "none", [Next]_vars
  PROVE  stop' = stop /\ (Records \/ CaughtUp)
<1>1. phase \in {"idle", "pass2"}
  BY Zenon DEF StopInv
<1>2. ASSUME UNCHANGED state PROVE Records
  BY Zenon, <1>2 DEF Records
<1>3. ASSUME NEW i \in Items, state[i] = "in_progress",
             NEW s \in {"pending", "blocked", "parked"},
             state' = [state EXCEPT ![i] = s]
      PROVE  Records
  BY Zenon, <1>3 DEF Records, TypeOK, LedgerOK
<1>4. CASE UNCHANGED vars \/ Outside \/ Crash \/ PassDone
  BY Zenon, <1>2, <1>4 DEF vars, Outside, Crash, PassDone, ledger
<1>5. ASSUME NEW i \in Items, Classify(i) PROVE stop' = stop /\ Records
  <2>1. CASE \E s \in {"pending", "parked"} : Enter(i, s)
    BY Zenon, <1>2, <1>3, <2>1 DEF Enter, ledger
  <2>2. CASE \E source : Hold(i, source)
    BY Zenon, <1>2, <2>2 DEF Hold, ledger
  <2>3. CASE \E class : BlockAndRecover(i, class)
    BY Zenon, <1>2, <1>3, <2>3 DEF BlockAndRecover, Moves, ledger
  <2> QED BY Zenon, <1>5, <2>1, <2>2, <2>3 DEF Classify
<1>6. CASE ResumeStopped
  <2>1. CASE UNCHANGED state
    BY Zenon, <1>2, <1>6, <2>1 DEF ResumeStopped
  <2>2. CASE state' = [i \in Items |->
                         IF remote[i] = "ready" THEN "ready" ELSE state[i]]
    BY Zenon, <1>6, <2>2 DEF ResumeStopped, CaughtUp
  <2> QED BY Zenon, <1>6, <2>1, <2>2 DEF ResumeStopped
<1> QED
  BY Zenon, <1>1, <1>4, <1>5, <1>6 DEF Next, Step, Resume, Reconcile,
     PropagateSkips, ReopenHolds, RecoverDone, AllDone, Schedule, ProbeDone,
     PersistDone, AfterHolds, Recover, Start, Probe, Persist, Settle, Park

\* Once a run has stopped, in the middle of pass 2 or not, no step starts an
\* item or replaces the stop, and none promotes an item but a resume that
\* finds its pull request ready, for any contract and any batch.
THEOREM StopFreezesHolds == Spec => StopFreezes
<1>1. Init => StopInv
  BY Zenon DEF Init, StopInv
<1>2. TypeOK /\ StopInv /\ [Next]_vars => StopInv'
  BY Zenon, StopStep
<1>3. TypeOK /\ StopInv /\ [Next]_vars =>
        [stop # "none" => stop' = stop /\ (Records \/ CaughtUp)]_vars
  BY Zenon, StoppedRecords
<1> QED BY <1>1, <1>2, <1>3, TypeCorrect, PTL DEF Spec, StopFreezes

-----------------------------------------------------------------------------
(* Induction and recursion over 0..N *)

\* A set of numbers up to N that is not empty has a least one.
LEMMA LeastNumber ==
  ASSUME NEW S \in SUBSET (0..N), S # {}
  PROVE  \E m \in S : \A k \in S : m <= k
<1>1. S \subseteq Nat /\ \A k \in S : k \in Nat
  BY SMTT(60), ScheduleAssumption
<1>2. PICK m \in S : \A k \in S : ~(<<k, m>> \in OpToRel(<, Nat))
  BY Zenon, <1>1, NatLessThanWellFounded, WFMin
<1>3. \A k \in S : ~(k < m)
  BY Zenon, <1>1, <1>2 DEF OpToRel
<1>4. \A k \in S : m <= k
  BY SMTT(60), <1>1, <1>3
<1> QED BY Zenon, <1>4

\* A set of numbers with 0 and with the successor of each is 0..N.
LEMMA UpToN ==
  ASSUME NEW S \in SUBSET (0..N), 0 \in S, \A k \in 1..N : k - 1 \in S => k \in S
  PROVE  S = 0..N
<1> SUFFICES ASSUME (0..N) \ S # {} PROVE FALSE
  OBVIOUS
<1>1. PICK m \in (0..N) \ S : \A k \in (0..N) \ S : m <= k
  BY Zenon, LeastNumber
<1>2. N \in Nat /\ m \in 1..N
  BY SMTT(60), <1>1, ScheduleAssumption
<1>3. m - 1 \in 0..N /\ ~(m <= m - 1)
  BY SMTT(60), <1>2
<1>4. m - 1 \in S
  BY Zenon, <1>1, <1>3
<1> QED BY Zenon, <1>1, <1>2, <1>4

\* The values that the steps of F make of x, one after the other.
Iterates(X, x, F) == \E f \in [0..N -> X] : f[0] = x /\ \A k \in 1..N : f[k] = F[k][f[k-1]]

\* A sequence of steps, each from the value before it, has its values.
LEMMA Iteration ==
  ASSUME NEW X, NEW x \in X, NEW F \in [1..N -> [X -> X]]
  PROVE  Iterates(X, x, F)
<1> DEFINE To(n, f) == f[0] = x /\ \A k \in 1..n : f[k] = F[k][f[k-1]]
           S == {n \in 0..N : \E f \in [0..n -> X] : To(n, f)}
<1>1. N \in Nat
  BY Zenon, ScheduleAssumption
<1>2. 0 \in S
  <2> DEFINE f == [k \in 0..0 |-> x]
  <2>1. f \in [0..0 -> X] /\ f[0] = x /\ 1..0 = {}
    OBVIOUS
  <2> HIDE DEF f
  <2>2. To(0, f)
    BY Zenon, <2>1
  <2> QED BY SMTT(60), <1>1, <2>1, <2>2
<1>3. ASSUME NEW n \in 1..N, n - 1 \in S PROVE n \in S
  <2>1. PICK g \in [0..n-1 -> X] : To(n - 1, g)
    BY Zenon, <1>3
  <2> DEFINE f == [k \in 0..n |-> IF k = n THEN F[n][g[n-1]] ELSE g[k]]
  <2>2. n \in Nat /\ n - 1 \in 0..n-1 /\ n - 1 # n
    BY SMTT(60), <1>1
  <2>3. F[n][g[n-1]] \in X
    BY Zenon, <2>2
  <2>4. \A k \in 0..n : k # n => k \in 0..n-1
    BY SMTT(60), <2>2
  <2>5. f \in [0..n -> X]
    BY Zenon, <2>3, <2>4
  <2>6. f[0] = x
    BY SMTT(60), <2>1, <2>2
  <2>7. ASSUME NEW k \in 1..n PROVE f[k] = F[k][f[k-1]]
    <3>1. CASE k = n
      BY SMTT(60), <2>2, <3>1
    <3>2. CASE k # n
      <4>1. k \in 1..n-1 /\ k - 1 \in 0..n /\ k - 1 # n /\ k \in 0..n
        BY SMTT(60), <2>2, <3>2
      <4>2. g[k] = F[k][g[k-1]]
        BY Zenon, <2>1, <4>1
      <4> QED BY Zenon, <3>2, <4>1, <4>2
    <3> QED BY Zenon, <3>1, <3>2
  <2> HIDE DEF f
  <2> QED BY SMTT(60), <2>5, <2>6, <2>7
<1>4. S = 0..N
  <2>1. S \in SUBSET (0..N)
    OBVIOUS
  <2> HIDE DEF S
  <2> QED BY Zenon, <1>2, <1>3, <2>1, UpToN
<1>5. N \in S
  BY SMTT(60), <1>1, <1>4
<1> QED BY Zenon, <1>5 DEF Iterates

-----------------------------------------------------------------------------
(* One sweep *)

\* What the visit of item k makes of the items skipped so far.
Visit(S, k, seen) == IF k \in Skippable \ S /\ Lost(k, S, seen) THEN S \cup {k} ELSE S

\* The sweep visits the items one after the other.
LEMMA SweptToVisits ==
  ASSUME NEW L \in SUBSET Skippable, NEW seen
  PROVE  /\ SweptTo(L, seen) \in [0..N -> SUBSET Skippable]
         /\ SweptTo(L, seen)[0] = L
         /\ \A k \in 1..N : SweptTo(L, seen)[k] = Visit(SweptTo(L, seen)[k-1], k, seen)
<1> DEFINE F == [k \in 1..N |-> [S \in SUBSET Skippable |-> Visit(S, k, seen)]]
           G(f) == [k \in 0..N |-> IF k = 0 THEN L
                                   ELSE IF k \in Skippable \ f[k-1] /\ Lost(k, f[k-1], seen)
                                          THEN f[k-1] \cup {k}
                                          ELSE f[k-1]]
<1>1. N \in Nat /\ \A k \in 0..N : k = 0 \/ k \in 1..N
  BY SMTT(60), ScheduleAssumption
<1>2. F \in [1..N -> [SUBSET Skippable -> SUBSET Skippable]]
  <2>1. \A k, S : S \in SUBSET Skippable => Visit(S, k, seen) \in SUBSET Skippable
    BY Zenon DEF Visit
  <2> QED BY Zenon, <2>1
<1>3. PICK f \in [0..N -> SUBSET Skippable] : f[0] = L /\ \A k \in 1..N : f[k] = F[k][f[k-1]]
  <2> DEFINE X == SUBSET Skippable
  <2>1. L \in X /\ F \in [1..N -> [X -> X]]
    BY Zenon, <1>2
  <2> HIDE DEF F, X
  <2>2. Iterates(X, L, F)
    BY Zenon, <2>1, Iteration
  <2> QED BY Zenon, <2>2 DEF Iterates, X
<1>4. \A k \in 1..N : k - 1 \in 0..N /\ k # 0 /\ k \in 0..N
  BY SMTT(60), <1>1
<1>5. \A k \in 1..N : f[k] = Visit(f[k-1], k, seen)
  BY Zenon, <1>3, <1>4
<1>6. f = G(f)
  <2>1. \A k \in 0..N : f[k] = G(f)[k]
    BY Zenon, <1>1, <1>3, <1>4, <1>5 DEF Visit
  <2> QED BY Zenon, <2>1
<1>7. SweptTo(L, seen) = G(SweptTo(L, seen))
  <2>1. SweptTo(L, seen) = CHOOSE g : g = G(g)
    BY Zenon DEF SweptTo
  <2> HIDE DEF G
  <2> QED BY Zenon, <1>6, <2>1
<1> DEFINE s == SweptTo(L, seen)
<1>8. DOMAIN s = 0..N /\ s[0] = L /\ \A k \in 1..N : s[k] = Visit(s[k-1], k, seen)
  <2> HIDE DEF s
  <2>1. s = G(s)
    BY Zenon, <1>7 DEF s
  <2>2. 0 \in 0..N
    BY SMTT(60), <1>1
  <2> QED BY Zenon, <1>4, <2>1, <2>2 DEF Visit
<1>9. \A k \in 0..N : s[k] \in SUBSET Skippable
  <2> HIDE DEF s
  <2> DEFINE S == {k \in 0..N : s[k] \in SUBSET Skippable}
  <2>1. 0 \in S
    BY SMTT(60), <1>1, <1>8
  <2>2. \A k \in 1..N : k - 1 \in S => k \in S
    BY Zenon, <1>4, <1>8 DEF Visit
  <2>3. S \in SUBSET (0..N)
    OBVIOUS
  <2> HIDE DEF S
  <2>4. S = 0..N
    BY Zenon, <2>1, <2>2, <2>3, UpToN
  <2> QED BY Zenon, <2>4 DEF S
<1>10. s = [k \in 0..N |-> s[k]]
  BY Zenon, <1>7
<1> HIDE DEF s
<1>11. s \in [0..N -> SUBSET Skippable]
  BY Zenon, <1>9, <1>10
<1> QED BY Zenon, <1>8, <1>11 DEF s

\* Losses only grow with the items that are skipped.
LEMMA LostGrows ==
  ASSUME NEW L, NEW M, L \subseteq M, NEW k, NEW seen, Lost(k, L, seen)
  PROVE  Lost(k, M, seen)
BY Zenon DEF Lost

\* The skippable items in M have every skippable item that they make lose.
Closed(M, seen) == M \subseteq Skippable /\ \A k \in Skippable : Lost(k, M, seen) => k \in M

\* A sweep keeps what was skipped, skips no item outside a closed set, and
\* changes something unless what was skipped is closed.
LEMMA SweepSkips ==
  ASSUME NEW L \in SUBSET Skippable, NEW seen
  PROVE  /\ L \subseteq Sweep(L, seen) /\ Sweep(L, seen) \subseteq Skippable
         /\ \A C : Closed(C, seen) /\ L \subseteq C => Sweep(L, seen) \subseteq C
         /\ Sweep(L, seen) = L => Closed(L, seen)
<1> DEFINE s == SweptTo(L, seen)
<1>1. /\ s \in [0..N -> SUBSET Skippable] /\ s[0] = L
      /\ \A k \in 1..N : s[k] = Visit(s[k-1], k, seen)
  BY Zenon, SweptToVisits
<1>2. Sweep(L, seen) = s[N]
  BY Zenon DEF Sweep
<1> HIDE DEF s
<1>3. N \in Nat /\ N \in 0..N /\ 0 \in 0..N /\ \A k \in 1..N : k - 1 \in 0..N /\ k \in 0..N
  BY SMTT(60), ScheduleAssumption
<1>4. \A k \in 1..N : s[k-1] \subseteq s[k]
  BY Zenon, <1>1 DEF Visit
<1>5. \A k \in 0..N : L \subseteq s[k]
  <2> DEFINE S == {k \in 0..N : L \subseteq s[k]}
  <2>1. 0 \in S /\ S \in SUBSET (0..N)
    BY Zenon, <1>1, <1>3
  <2>2. \A k \in 1..N : k - 1 \in S => k \in S
    BY Zenon, <1>3, <1>4
  <2> HIDE DEF S
  <2>3. S = 0..N
    BY Zenon, <2>1, <2>2, UpToN
  <2> QED BY Zenon, <2>3 DEF S
<1>6. ASSUME NEW C, Closed(C, seen), L \subseteq C PROVE \A k \in 0..N : s[k] \subseteq C
  <2> DEFINE S == {k \in 0..N : s[k] \subseteq C}
  <2>1. 0 \in S /\ S \in SUBSET (0..N)
    BY Zenon, <1>1, <1>3, <1>6
  <2>2. ASSUME NEW k \in 1..N, k - 1 \in S PROVE k \in S
    <3>1. s[k-1] \subseteq C /\ k \in 0..N
      BY Zenon, <1>3, <2>2
    <3>2. Lost(k, s[k-1], seen) => Lost(k, C, seen)
      BY Zenon, <3>1, LostGrows
    <3> QED BY Zenon, <1>1, <1>6, <3>1, <3>2 DEF Visit, Closed
  <2> HIDE DEF S
  <2>3. S = 0..N
    BY Zenon, <2>1, <2>2, UpToN
  <2> QED BY Zenon, <2>3 DEF S
<1>7. ASSUME s[N] = L PROVE Closed(L, seen)
  <2>1. \A j \in 0..N : s[j] \subseteq s[N]
    <3> DEFINE S == {n \in 0..N : s[N - n] \subseteq s[N]}
    <3>1. 0 \in S /\ S \in SUBSET (0..N)
      BY SMTT(60), <1>3
    <3>2. ASSUME NEW n \in 1..N, n - 1 \in S PROVE n \in S
      <4>1. N - n + 1 \in 1..N /\ N - (n - 1) = N - n + 1 /\ (N - n + 1) - 1 = N - n /\ n \in 0..N
        BY SMTT(60), <1>3
      <4>2. s[N - n] \subseteq s[N - n + 1]
        BY Zenon, <1>4, <4>1
      <4>3. s[N - n + 1] \subseteq s[N]
        BY Zenon, <3>2, <4>1
      <4> QED BY Zenon, <4>1, <4>2, <4>3
    <3> HIDE DEF S
    <3>3. S = 0..N
      BY Zenon, <3>1, <3>2, UpToN
    <3>4. ASSUME NEW j \in 0..N PROVE s[j] \subseteq s[N]
      <4>1. N - j \in 0..N /\ N - (N - j) = j
        BY SMTT(60), <1>3
      <4>2. s[N - (N - j)] \subseteq s[N]
        BY Zenon, <3>3, <4>1 DEF S
      <4> QED BY Zenon, <4>1, <4>2
    <3> QED BY Zenon, <3>4
  <2>2. \A j \in 0..N : s[j] = L
    BY Zenon, <1>5, <1>7, <2>1
  <2>3. ASSUME NEW k \in Skippable, Lost(k, L, seen) PROVE k \in L
    <3>1. k \in 1..N
      BY Zenon DEF Skippable, InState, Items
    <3>2. s[k] = L /\ s[k-1] = L
      BY Zenon, <1>3, <2>2, <3>1
    <3>3. L = Visit(L, k, seen)
      BY Zenon, <1>1, <3>1, <3>2
    <3> QED BY Zenon, <2>3, <3>3 DEF Visit
  <2> QED BY Zenon, <2>3 DEF Closed
<1>8. s[N] \subseteq Skippable
  BY Zenon, <1>1, <1>3
<1> QED BY Zenon, <1>2, <1>3, <1>5, <1>6, <1>7, <1>8

-----------------------------------------------------------------------------
(* The loop of sweeps *)

\* Each sweep goes on from what the one before it has skipped.
LEMMA SweepAfterSweep ==
  ASSUME NEW seen
  PROVE  /\ AfterSweeps(seen) \in [0..N -> SUBSET Skippable]
         /\ AfterSweeps(seen)[0] = {}
         /\ \A m \in 1..N : AfterSweeps(seen)[m] = Sweep(AfterSweeps(seen)[m-1], seen)
<1> DEFINE F == [m \in 1..N |-> [S \in SUBSET Skippable |-> Sweep(S, seen)]]
           G(f) == [m \in 0..N |-> IF m = 0 THEN {} ELSE Sweep(f[m-1], seen)]
<1>1. N \in Nat /\ \A m \in 0..N : m = 0 \/ m \in 1..N
  BY SMTT(60), ScheduleAssumption
<1>2. \A S \in SUBSET Skippable : Sweep(S, seen) \in SUBSET Skippable
  BY Zenon, SweepSkips
<1>3. PICK f \in [0..N -> SUBSET Skippable] : f[0] = {} /\ \A m \in 1..N : f[m] = F[m][f[m-1]]
  <2> DEFINE X == SUBSET Skippable
  <2>1. {} \in X /\ F \in [1..N -> [X -> X]]
    BY Zenon, <1>2
  <2> HIDE DEF F, X
  <2>2. Iterates(X, {}, F)
    BY Zenon, <2>1, Iteration
  <2> QED BY Zenon, <2>2 DEF Iterates, X
<1>4. \A m \in 1..N : m - 1 \in 0..N /\ m # 0 /\ m \in 0..N
  BY SMTT(60), <1>1
<1>5. \A m \in 1..N : f[m] = Sweep(f[m-1], seen)
  BY Zenon, <1>3, <1>4
<1>6. f = G(f)
  <2>1. \A m \in 0..N : f[m] = G(f)[m]
    BY Zenon, <1>1, <1>3, <1>4, <1>5
  <2> QED BY Zenon, <2>1
<1>7. AfterSweeps(seen) = G(AfterSweeps(seen))
  <2>1. AfterSweeps(seen) = CHOOSE g : g = G(g)
    BY Zenon DEF AfterSweeps
  <2> HIDE DEF G
  <2> QED BY Zenon, <1>6, <2>1
<1> DEFINE a == AfterSweeps(seen)
<1>8. DOMAIN a = 0..N /\ a[0] = {} /\ \A m \in 1..N : a[m] = Sweep(a[m-1], seen)
  <2> HIDE DEF a
  <2>1. a = G(a)
    BY Zenon, <1>7 DEF a
  <2>2. 0 \in 0..N
    BY SMTT(60), <1>1
  <2> QED BY Zenon, <1>4, <2>1, <2>2
<1>9. \A m \in 0..N : a[m] \in SUBSET Skippable
  <2> HIDE DEF a
  <2> DEFINE S == {m \in 0..N : a[m] \in SUBSET Skippable}
  <2>1. 0 \in S /\ S \in SUBSET (0..N)
    BY SMTT(60), <1>1, <1>8
  <2>2. \A m \in 1..N : m - 1 \in S => m \in S
    BY Zenon, <1>2, <1>4, <1>8
  <2> HIDE DEF S
  <2>3. S = 0..N
    BY Zenon, <2>1, <2>2, UpToN
  <2> QED BY Zenon, <2>3 DEF S
<1>10. a = [m \in 0..N |-> a[m]]
  BY Zenon, <1>7
<1> HIDE DEF a
<1>11. a \in [0..N -> SUBSET Skippable]
  BY Zenon, <1>9, <1>10
<1> QED BY Zenon, <1>8, <1>11 DEF a

\* The loop of propagateSkips ends: of its first N + 1 sweeps one changes
\* nothing, for every dependency graph (cycles included), every order of the
\* contract and every state of its items.
THEOREM SweepsEnd ==
  ASSUME NEW seen
  PROVE  \E m \in 0..N : Unchanged(seen, m)
<1> SUFFICES ASSUME \A m \in 0..N : ~Unchanged(seen, m) PROVE FALSE
  OBVIOUS
<1> DEFINE a == AfterSweeps(seen)
<1>1. /\ a \in [0..N -> SUBSET Skippable] /\ a[0] = {}
      /\ \A m \in 1..N : a[m] = Sweep(a[m-1], seen)
  BY Zenon, SweepAfterSweep
<1>2. \A m \in 0..N : Sweep(a[m], seen) # a[m]
  BY Zenon DEF Unchanged
<1> HIDE DEF a
<1>3. \A m \in 0..N : a[m] \subseteq Sweep(a[m], seen) /\ Sweep(a[m], seen) \subseteq Skippable
  BY Zenon, <1>1, SweepSkips
<1>4. N \in Nat /\ N \in 0..N /\ 0 \in 0..N /\ \A m \in 1..N : m - 1 \in 0..N /\ m \in 0..N
  BY SMTT(60), ScheduleAssumption
<1>5. Skippable \subseteq Items
  BY Zenon DEF Skippable, InState
<1>6. IsFiniteSet(Items) /\ Cardinality(Items) = N
  BY SMTT(60), <1>4, FS_Interval DEF Items
<1>7. \A m \in 0..N : a[m] \in SUBSET Items
  BY Zenon, <1>1, <1>5
<1>8. \A m \in 0..N : IsFiniteSet(a[m]) /\ Cardinality(a[m]) \in Nat /\ Cardinality(a[m]) <= N
  <2>1. \A m \in 0..N : IsFiniteSet(a[m]) /\ Cardinality(a[m]) <= N
    BY Zenon, <1>6, <1>7, FS_Subset
  <2> QED BY Zenon, <2>1, FS_CardinalityType
<1>9. \A m \in 0..N : m <= Cardinality(a[m])
  <2> DEFINE S == {m \in 0..N : m <= Cardinality(a[m])}
  <2>1. 0 \in S /\ S \in SUBSET (0..N)
    BY SMTT(60), <1>4, <1>8
  <2>2. ASSUME NEW m \in 1..N, m - 1 \in S PROVE m \in S
    <3>1. m - 1 \in 0..N /\ m \in 0..N /\ a[m] = Sweep(a[m-1], seen)
      BY Zenon, <1>1, <1>4
    <3>2. a[m-1] \in SUBSET a[m] /\ a[m-1] # a[m]
      BY Zenon, <1>2, <1>3, <3>1
    <3>3. IsFiniteSet(a[m])
      BY Zenon, <1>8, <3>1
    <3>4. Cardinality(a[m-1]) <= Cardinality(a[m]) /\ Cardinality(a[m]) # Cardinality(a[m-1])
      BY Zenon, <3>2, <3>3, FS_Subset
    <3>5. m - 1 <= Cardinality(a[m-1])
      BY Zenon, <2>2
    <3>6. Cardinality(a[m-1]) \in Nat /\ Cardinality(a[m]) \in Nat
      BY Zenon, <1>8, <3>1
    <3> QED BY SMTT(60), <1>4, <3>1, <3>4, <3>5, <3>6
  <2> HIDE DEF S
  <2>3. S = 0..N
    BY Zenon, <2>1, <2>2, UpToN
  <2> QED BY Zenon, <2>3 DEF S
<1>10. a[N] = Items
  <2>1. Cardinality(a[N]) = Cardinality(Items)
    BY SMTT(60), <1>4, <1>6, <1>8, <1>9
  <2> QED BY Zenon, <1>4, <1>6, <1>7, <2>1, FS_Subset
<1> DEFINE last == Sweep(a[N], seen)
<1>11. last # a[N] /\ a[N] \subseteq last /\ last \subseteq Skippable
  BY Zenon, <1>2, <1>3, <1>4
<1> HIDE DEF last
<1> QED BY Zenon, <1>5, <1>10, <1>11

\* What the loop computes is the least fixpoint, in every state.
LEMMA PropagatedIsLeast ==
  ASSUME NEW seen
  PROVE  Propagated(seen) = SkippedNow(seen)
<1> DEFINE a == AfterSweeps(seen)
           First(m) == Unchanged(seen, m) /\ \A k \in 0..m-1 : ~Unchanged(seen, k)
<1>1. /\ a \in [0..N -> SUBSET Skippable] /\ a[0] = {}
      /\ \A m \in 1..N : a[m] = Sweep(a[m-1], seen)
  BY Zenon, SweepAfterSweep
<1>2. N \in Nat /\ 0 \in 0..N /\ \A m \in 1..N : m - 1 \in 0..N /\ m \in 0..N
  BY SMTT(60), ScheduleAssumption
<1>3. \E m \in 0..N : First(m)
  <2> DEFINE S == {m \in 0..N : Unchanged(seen, m)}
  <2>1. S \in SUBSET (0..N) /\ S # {}
    BY Zenon, SweepsEnd
  <2> HIDE DEF S
  <2>2. PICK m \in S : \A k \in S : m <= k
    BY Zenon, <2>1, LeastNumber
  <2>3. m \in 0..N /\ Unchanged(seen, m)
    BY Zenon, <2>2 DEF S
  <2>4. ASSUME NEW k \in 0..m-1 PROVE ~Unchanged(seen, k)
    <3>1. k \in 0..N /\ ~(m <= k)
      BY SMTT(60), <1>2, <2>3
    <3> QED BY Zenon, <2>2, <3>1 DEF S
  <2> QED BY Zenon, <2>3, <2>4
<1>4. PICK last \in 0..N : Unchanged(seen, last) /\ Propagated(seen) = a[last]
  <2> DEFINE l == CHOOSE m \in 0..N : First(m)
  <2>1. l \in 0..N /\ First(l)
    BY Zenon, <1>3
  <2>2. Propagated(seen) = a[l]
    BY Zenon DEF Propagated
  <2> HIDE DEF l
  <2> QED BY Zenon, <2>1, <2>2
<1>5. Sweep(a[last], seen) = a[last]
  BY Zenon, <1>4 DEF Unchanged
<1> HIDE DEF a
<1>6. Closed(a[last], seen)
  BY SMTT(60), <1>1, <1>5, SweepSkips
<1>7. ASSUME NEW C, Closed(C, seen) PROVE \A m \in 0..N : a[m] \subseteq C
  <2> DEFINE S == {m \in 0..N : a[m] \subseteq C}
  <2>1. 0 \in S /\ S \in SUBSET (0..N)
    BY Zenon, <1>1, <1>2
  <2>2. ASSUME NEW m \in 1..N, m - 1 \in S PROVE m \in S
    <3>1. a[m-1] \in SUBSET Skippable /\ a[m-1] \subseteq C /\ m \in 0..N
      BY Zenon, <1>1, <1>2, <2>2
    <3>2. Sweep(a[m-1], seen) \subseteq C
      BY Zenon, <1>7, <3>1, SweepSkips
    <3> QED BY Zenon, <1>1, <3>1, <3>2
  <2> HIDE DEF S
  <2>3. S = 0..N
    BY Zenon, <2>1, <2>2, UpToN
  <2> QED BY Zenon, <2>3 DEF S
<1>8. a[last] \subseteq SkippedNow(seen)
  <2>1. a[last] \subseteq Skippable
    BY Zenon, <1>1
  <2>2. ASSUME NEW L \in SUBSET Skippable, \A k \in Skippable : Lost(k, L, seen) => k \in L
        PROVE  a[last] \subseteq L
    BY Zenon, <1>7, <2>2 DEF Closed
  <2> QED BY Zenon, <2>1, <2>2 DEF SkippedNow
<1>9. SkippedNow(seen) \subseteq a[last]
  BY Zenon, <1>6 DEF SkippedNow, Closed
<1> QED BY Zenon, <1>4, <1>8, <1>9

\* Every call of propagateSkips skips exactly the items that can never run: each
\* one however long its chain of lost dependencies and whatever the order of
\* the contract, and no other.
THEOREM SkipsExactHolds == Spec => []SkipsExact
<1>1. SkipsExact
  BY Zenon, PropagatedIsLeast DEF SkipsExact
<1> QED BY <1>1, PTL
=============================================================================
