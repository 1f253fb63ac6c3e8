----------------------------- MODULE LoopSchedule -----------------------------
(***************************************************************************)
(* A drive of a durable loop run over its work list: runSupervisorCycle    *)
(* and driveSupervisor of core/scripts/loop/supervisor.ts, with the        *)
(* decisions they call for from schedule.ts, dependencies.ts, reconcile.ts *)
(* and recovery.ts.                                                        *)
(*                                                                         *)
(* A cycle reconciles every item with its pull request, skips the          *)
(* dependents of lost items, reopens cleared holds, recovers blocked       *)
(* items, selects a batch, dispatches it, and classifies what its children *)
(* report.  Each step is one ledger write; between two of them the         *)
(* outside world moves, and the process may die.  Items are numbered in    *)
(* contract order, which is also the order of the ledger's keys.           *)
(*                                                                         *)
(* What a recovery does inside is module RecoveryEpisodes; the run's lock, *)
(* which makes the supervisor the ledger's only writer, is LoopRunLock.    *)
(* Here a recovery is reduced to how it leaves the item, and the ledger's  *)
(* Cooling record, on which a resume of a stopped run turns, to a choice.  *)
(* Items are past the backlog precondition, a pull request is never merged *)
(* under the run, and check results, the merge barrier (which nothing      *)
(* raises) and an operator's answer to a hold are left out.                *)
(***************************************************************************)
EXTENDS Naturals, FiniteSets

CONSTANTS
  N,                \* items of the contract
  DependsOn,        \* depends_on of each item
  Ext,              \* issues outside the run that items depend on
  Needs,            \* external_depends_on of each item
  Conflicts,        \* the pairs evaluateConflict does not prove disjoint
  Budget,           \* concurrency.max_concurrent
  Limit,            \* consecutive_no_progress_limit
  MaxCycles,        \* the cycle cap of one drive (MAX_CYCLES_SAFETY)
  Outcomes,         \* what a child may report
  Remotes,          \* the pull requests the outside world may show at first
  MaxCrashes,       \* bound: deaths of the supervisor
  MaxMoves          \* bound: moves of the outside world

Items == 1..N

AllOutcomes == {"ready_to_deploy", "abandoned", "blocked_recoverable",
                "blocked_needs_human", "capacity_wait", "requeue", "failed"}

ASSUME ScheduleAssumption ==
  /\ N \in Nat /\ Budget \in Nat \ {0} /\ Limit \in Nat /\ MaxCycles \in Nat
  /\ MaxCrashes \in Nat /\ MaxMoves \in Nat
  /\ DependsOn \in [Items -> SUBSET Items]
  /\ Needs \in [Items -> SUBSET Ext]
  /\ Conflicts \subseteq Items \X Items
  /\ Outcomes \subseteq AllOutcomes
  /\ Remotes \subseteq {"none", "open", "ready"}

VARIABLES
  state,     \* the ledger: each item's state
  stop,      \* the ledger: the run's stop record
  remote,    \* each item's pull request: none, open, or open and labelled ready
  rebase,    \* the items whose worktree holds an unfinished rebase
  ext,       \* the true status of each external issue
  cleared,   \* the items whose blocked label is off
  moves,     \* moves of the outside world so far
  phase,     \* where the cycle is; "idle" when no drive runs
  statuses,  \* the external statuses this cycle observed
  drift,     \* the items this cycle's reconciliation left in drift
  todo,      \* the items the current loop has still to visit
  active,    \* the items being dispatched
  outcome,   \* what each child reported
  overlap,   \* the items parked for overlapping changed files
  capacity,  \* a child found no worktree capacity
  wait,      \* what recovery waits for: none, backoff or cooling
  progress,  \* this cycle changed something
  idle,      \* consecutive cycles without progress
  cycles,    \* cycles of this drive
  crashes,   \* deaths of the supervisor so far
  ended,     \* how the last drive ended
  bypassed   \* history: an item joined others in progress unselected

ledger == <<state, stop>>
world == <<remote, rebase, ext, cleared, moves>>
batch == <<todo, active, outcome, overlap, capacity>>
observed == <<statuses, drift, wait>>
drive == <<idle, cycles, ended, crashes>>

vars == <<ledger, world, phase, batch, observed, progress, drive,
          bypassed>>

\* LoopItemState, with a block that carries no typed evidence told apart:
\* "parked" is blocked for recovery.  So are the holds: "waiting" has the
\* blocked label for its source, "asking" has no source.
Held == {"waiting", "asking"}
States == {"pending", "in_progress", "blocked", "parked", "implemented",
           "ready", "abandoned", "skipped"} \cup Held

\* DONE_STATES and TERMINAL_ITEM_STATES.
Done == {"ready"}
Terminal == {"ready", "abandoned", "skipped"}

Statuses == {"pending", "satisfied", "unsatisfiable"}
Phases == {"idle", "reconcile", "skips", "holds", "recover", "schedule",
           "start", "probe", "run", "pass1", "pass2", "after"}
Ends == {"none", "resolved", "stop", "hold", "cooling", "watchdog", "cap",
         "error", "crash"}

InState(S) == {i \in Items : state[i] \in S}
InProgress == InState({"in_progress"})

Init ==
  /\ state = [i \in Items |-> "pending"] /\ stop = "none"
  /\ remote \in [Items -> Remotes]
  /\ rebase = {} /\ ext = [e \in Ext |-> "pending"] /\ cleared = {}
  /\ moves = 0
  /\ phase = "idle" /\ statuses = [e \in Ext |-> "pending"] /\ drift = {}
  /\ todo = {} /\ active = {} /\ outcome = [i \in Items |-> "none"]
  /\ overlap = {} /\ capacity = FALSE /\ wait = "none" /\ progress = FALSE
  /\ idle = 0 /\ cycles = 0 /\ ended = "none" /\ crashes = 0
  /\ bypassed = FALSE

(* The loop over todo takes the items in order. *)
Turn(i) == i \in todo /\ \A j \in todo : i <= j

-----------------------------------------------------------------------------
(* Cycles and drives *)

\* driveSupervisor: a drive ends, and forgets the cycle it was in.
EndDrive(why) ==
  /\ phase' = "idle" /\ ended' = why
  /\ todo' = {} /\ overlap' = {} /\ capacity' = FALSE
  /\ wait' = "none" /\ progress' = FALSE /\ drift' = {}
  /\ statuses' = [e \in Ext |-> "pending"] /\ idle' = 0 /\ cycles' = 0
  /\ active' = {} /\ outcome' = [i \in Items |-> "none"]
  /\ crashes' = IF why = "crash" THEN crashes + 1 ELSE crashes

\* driveSupervisor starts the next cycle, unless the watchdog or the cycle
\* cap ends the drive in Cooling.
EndCycle(p) ==
  IF ~p /\ idle + 1 >= Limit THEN EndDrive("watchdog")
  ELSE IF cycles + 1 >= MaxCycles THEN EndDrive("cap")
  ELSE /\ phase' = "reconcile"
       /\ idle' = (IF p THEN 0 ELSE idle + 1) /\ cycles' = cycles + 1
       /\ todo' = {} /\ active' = {} /\ outcome' = [i \in Items |-> "none"]
       /\ overlap' = {} /\ capacity' = FALSE /\ wait' = "none"
       /\ progress' = FALSE /\ drift' = {}
       /\ statuses' = [e \in Ext |-> "pending"]
       /\ UNCHANGED <<ended, crashes>>

\* The process dies.
Crash ==
  /\ phase # "idle" /\ crashes < MaxCrashes
  /\ EndDrive("crash")
  /\ UNCHANGED <<ledger, world, bypassed>>

-----------------------------------------------------------------------------
(* Reconciliation *)

\* classifyDrift, verifiedForwardTarget, reconstructedLocalState and the
\* heal of an item that still needs its advance: the state that the item's
\* pull request supports.
Reconciled(i) ==
  CASE remote[i] = "ready" -> "ready"
    [] remote[i] # "ready" /\ state[i] \in Held \cup {"blocked", "parked"} ->
         state[i]
    [] remote[i] = "open"
       /\ state[i] \notin Held \cup {"blocked", "parked"}
       /\ (i \in rebase \/ state[i] \in {"ready", "implemented"}) ->
         "in_progress"
    [] remote[i] = "none" /\ state[i] = "ready" -> "implemented"
    [] OTHER -> state[i]

\* The pass records a drift for the item.
Drifted(i) ==
  i \in rebase \/ (remote[i] = "ready") # (state[i] = "ready")

\* An item enters in_progress beside another one, and not by selection.
Joins(new) ==
  \E i, j \in Items :
    /\ i # j /\ new[i] = "in_progress" /\ state[i] # "in_progress"
    /\ new[j] = "in_progress"

\* The ledger write of a step that is not a selection.
Moves(new) ==
  /\ state' = new
  /\ bypassed' = (bypassed \/ Joins(new))

\* reconcile: every item, and the drift the scheduler must respect.
ReconcileAll ==
  /\ Moves([i \in Items |-> Reconciled(i)])
  /\ drift' = {i \in rebase : remote[i] # "ready"}

\* reconcile at the head of a cycle.
Reconcile ==
  /\ phase = "reconcile"
  /\ ReconcileAll
  /\ progress' = \E i \in Items : Drifted(i)
  /\ phase' = "skips"
  /\ UNCHANGED <<stop, world, batch, statuses, wait, drive>>

\* A drive attaches to the run; one that resumes it reconciles first.
Resume ==
  /\ phase = "idle" /\ stop = "none"
  /\ \/ UNCHANGED <<state, bypassed>>
     \/ Moves([i \in Items |-> Reconciled(i)])
  /\ phase' = "reconcile" /\ ended' = "none"
  /\ UNCHANGED <<stop, world, batch, observed, progress, idle, cycles, crashes>>

\* A drive attaches to a stopped run.  With a Cooling record in the ledger,
\* left by an earlier drive or by an uncertain recovery claim, the items whose
\* pull requests prove them ready are repaired; reconcile and the first cycle
\* find the stop, which stays, and the drive ends.
ResumeStopped ==
  /\ phase = "idle" /\ stop # "none"
  /\ \/ UNCHANGED state
     \/ state' = [i \in Items |->
                    IF remote[i] = "ready" THEN "ready" ELSE state[i]]
  /\ \/ ended' = "stop"
     \/ ended' = "resolved" /\ \A i \in Items : state'[i] \in Done
  /\ UNCHANGED <<stop, world, phase, batch, observed, progress, idle, cycles,
                 crashes, bypassed>>

-----------------------------------------------------------------------------
(* Dependencies and holds *)

\* The items propagateSkips may skip.
Skippable == InState({"pending", "blocked", "parked"})

\* findSkipCause, when the items of L are skipped too.
Lost(i, L, seen) ==
  \/ \E d \in DependsOn[i] : d \in L \/ state[d] \in {"abandoned", "skipped"}
  \/ \E e \in Needs[i] : seen[e] = "unsatisfiable"

\* propagateSkips repeats until nothing changes: the items it skips are the
\* least set that no further loss enlarges.
SkippedNow(seen) ==
  {i \in Skippable :
     \A L \in SUBSET Skippable :
       (\A k \in Skippable : Lost(k, L, seen) => k \in L) => i \in L}

PropagateSkips_OldStatuses ==
  /\ phase = "skips"
  /\ statuses' = ext
  /\ state' = [i \in Items |->
                 IF i \in SkippedNow(statuses) THEN "skipped" ELSE state[i]]
  /\ progress' = (progress \/ SkippedNow(statuses) # {})
  /\ phase' = "holds"
  /\ UNCHANGED <<stop, world, batch, drift, wait, drive, bypassed>>

\* computeExternalDependencyStatuses, then propagateSkips.
PropagateSkips ==
  /\ phase = "skips"
  /\ statuses' = ext
  /\ state' = [i \in Items |->
                 IF i \in SkippedNow(ext) THEN "skipped" ELSE state[i]]
  /\ progress' = (progress \/ SkippedNow(ext) # {})
  /\ phase' = "holds"
  /\ UNCHANGED <<stop, world, batch, drift, wait, drive, bypassed>>

\* invalidateStaleAuthorityHolds and reclassifyInFlightHumanHolds: the holds
\* of R, whose candidate has moved or whose ask now settles itself.
Released(R) == InState(Held) \cap R

Reopened_Never(R, D) ==
  [i \in Items |-> IF i \in Released(R) THEN "pending" ELSE state[i]]

\* The released holds are pending, and so are, by reopenClearedBlockedHolds,
\* those that have the label for their source and are read without it; but not
\* those of D, whose label could not be read or which another process is still
\* advancing.
Reopened(R, D) ==
  [i \in Items |->
     IF \/ i \in Released(R)
        \/ state[i] = "waiting" /\ i \in cleared /\ i \notin D
     THEN "pending" ELSE state[i]]

\* The holds whose label is off.
Unlabelled == InState({"waiting"}) \cap cleared

ReopenHolds(R, D) ==
  /\ phase = "holds"
  /\ state' = Reopened(R, D)
  /\ phase' = "recover" /\ todo' = InState({"blocked", "parked"})
  /\ UNCHANGED <<stop, world, active, outcome, overlap, capacity, observed,
                 progress, drive, bypassed>>

-----------------------------------------------------------------------------
(* Recovery of blocked items *)

\* executeBlockedRecovery, by how it leaves a typed block: completed or
\* readmitted, abandoned with its issue, or still blocked.  An item whose
\* pull request already proves it ready has the whole ledger reconciled.
RecoverTyped(i) ==
  \/ /\ remote[i] = "ready"
     /\ ReconcileAll /\ UNCHANGED <<wait, progress>>
  \/ /\ remote[i] # "ready" /\ UNCHANGED drift
     /\ \/ /\ Moves([state EXCEPT ![i] = "in_progress"])
           /\ progress' = TRUE /\ UNCHANGED wait
        \/ /\ Moves([state EXCEPT ![i] = "abandoned"])
           /\ UNCHANGED <<wait, progress>>
        \/ /\ UNCHANGED <<state, bypassed>>
           /\ \/ progress' = TRUE /\ UNCHANGED wait
              \/ wait' = "backoff" /\ UNCHANGED progress
              \/ /\ wait' = (IF wait = "none" THEN "cooling" ELSE wait)
                 /\ UNCHANGED progress

\* The recovery loop.  A block without typed evidence is left alone, and so
\* is one whose issue another process is advancing.
Recover(i) ==
  /\ phase = "recover" /\ Turn(i)
  /\ \/ state[i] = "blocked" /\ RecoverTyped(i)
     \/ UNCHANGED <<state, drift, wait, progress, bypassed>>
  /\ todo' = todo \ {i}
  /\ UNCHANGED <<stop, world, phase, active, outcome, overlap, capacity,
                 statuses, drive>>

RecoverDone ==
  /\ phase = "recover" /\ todo = {}
  /\ phase' = "schedule"
  /\ UNCHANGED <<ledger, world, batch, observed, progress, drive,
                 bypassed>>

-----------------------------------------------------------------------------
(* Selection *)

\* eligibleIndependentItems, when nothing is in progress.
Frontier ==
  {i \in Items :
     /\ state[i] = "pending"
     /\ \A d \in DependsOn[i] : state[d] \in Done
     /\ \A e \in Needs[i] : statuses[e] = "satisfied"}

\* dependsTransitively, over chains of at most N dependencies.
Reaches ==
  LET Within[n \in 0..N] ==
        IF n = 0 THEN {p \in Items \X Items : p[2] \in DependsOn[p[1]]}
        ELSE Within[n - 1] \cup
             {p \in Items \X Items :
                \E d \in DependsOn[p[1]] : <<d, p[2]>> \in Within[n - 1]}
  IN  Within[N]

\* hasDependencyPath or a conflict verdict between two items.
Clash(a, b) ==
  \/ <<a, b>> \in Reaches \/ <<b, a>> \in Reaches
  \/ <<a, b>> \in Conflicts \/ <<b, a>> \in Conflicts

Selected_ConflictsIgnored(S) ==
  \A i \in Frontier :
    i \in S <=> /\ i \notin drift
                /\ Cardinality({j \in S : j < i}) < Budget

\* selectSchedulableSet walks the frontier in order and admits the items
\* that clash with none admitted before, are not in drift, and fit in the
\* budget: S is the set it admits.
Selected(S) ==
  \A i \in Frontier :
    LET before == {j \in S : j < i}
    IN  i \in S <=> /\ \A j \in before : ~Clash(i, j)
                    /\ i \notin drift
                    /\ Cardinality(before) < Budget

\* detectDependencyDeadlock, when nothing is in progress or eligible.
Gated(i) ==
  /\ state[i] \notin Terminal
  /\ \/ \E d \in DependsOn[i] : state[d] = "pending"
     \/ \E e \in Needs[i] : statuses[e] # "satisfied"

\* A cycle with nothing to dispatch waits out a backoff, ends the drive, or
\* counts towards the watchdog.
NothingToDo ==
  IF wait = "backoff" THEN EndCycle(TRUE) /\ UNCHANGED ledger
  ELSE IF wait = "cooling" THEN EndDrive("cooling") /\ UNCHANGED ledger
  ELSE IF Frontier = {} /\ \E i \in Items : Gated(i)
       THEN /\ stop' = "dependency_deadlock" /\ UNCHANGED state
            /\ EndDrive("stop")
  ELSE IF InState(Held) # {} THEN EndDrive("hold") /\ UNCHANGED ledger
  ELSE EndCycle(progress) /\ UNCHANGED ledger

AllDone ==
  /\ phase = "schedule" /\ InState(Terminal) = Items
  /\ EndDrive("resolved")
  /\ UNCHANGED <<ledger, world, bypassed>>

\* Items already in progress are dispatched as they are; otherwise the
\* scheduler selects.
Schedule ==
  /\ phase = "schedule" /\ InState(Terminal) # Items
  /\ \/ /\ InProgress # {}
        /\ active' = InProgress /\ todo' = InProgress /\ phase' = "probe"
        /\ UNCHANGED <<ledger, outcome, overlap, capacity, observed, progress,
                       drive>>
     \/ /\ InProgress = {}
        /\ \E S \in SUBSET Frontier :
             /\ Selected(S)
             /\ \/ /\ S # {}
                   /\ active' = S /\ todo' = S /\ phase' = "start"
                   /\ UNCHANGED <<ledger, outcome, overlap, capacity,
                                  observed, progress, drive>>
                \/ S = {} /\ NothingToDo
  /\ UNCHANGED <<world, bypassed>>

\* startItem, once for each selected item.
Start(i) ==
  /\ phase = "start" /\ Turn(i)
  /\ state' = [state EXCEPT ![i] = "in_progress"]
  /\ todo' = IF todo = {i} THEN active ELSE todo \ {i}
  /\ phase' = IF todo = {i} THEN "probe" ELSE "start"
  /\ UNCHANGED <<stop, world, active, outcome, overlap, capacity, observed,
                 progress, drive, bypassed>>

-----------------------------------------------------------------------------
(* Dispatch *)

\* probeLiveAdvance before a dispatch: an item another process is advancing
\* goes back to pending.
Probe(i) ==
  /\ phase = "probe" /\ Turn(i)
  /\ \/ UNCHANGED <<state, active>>
     \/ /\ state' = [state EXCEPT ![i] = "pending"]
        /\ active' = active \ {i}
  /\ todo' = todo \ {i}
  /\ UNCHANGED <<stop, world, phase, outcome, overlap, capacity, observed,
                 progress, drive, bypassed>>

ProbeDone ==
  /\ phase = "probe" /\ todo = {}
  /\ IF active # {}
     THEN /\ phase' = "run"
          /\ UNCHANGED <<batch, observed, progress, drive>>
     ELSE IF InState(Held) # {} THEN EndDrive("hold")
     ELSE EndCycle(progress)
  /\ UNCHANGED <<ledger, world, bypassed>>

\* A child ends and reports.  One that reports ready has labelled its pull
\* request; any other may have opened one.
Settle(i, o) ==
  /\ phase = "run" /\ i \in active /\ outcome[i] = "none"
  /\ outcome' = [outcome EXCEPT ![i] = o]
  /\ IF o = "ready_to_deploy"
     THEN remote' = [remote EXCEPT ![i] = "ready"]
     ELSE \/ UNCHANGED remote
          \/ remote[i] = "none" /\ remote' = [remote EXCEPT ![i] = "open"]
  \* A child that asks for a human has set the blocked label.
  /\ cleared' = IF o = "blocked_needs_human" THEN cleared \ {i} ELSE cleared
  /\ UNCHANGED <<ledger, rebase, ext, moves, phase, todo, active, overlap,
                 capacity, observed, progress, drive, bypassed>>

\* Outcomes that pass 1 persists.
Final == {"ready_to_deploy", "abandoned"}

\* All children have settled.  getChangedFiles of several items may find
\* that their changes overlap, or fail; those are parked.
Park(P) ==
  /\ phase = "run" /\ \A i \in active : outcome[i] # "none"
  /\ P # {} => Cardinality(active) > 1
  /\ overlap' = P
  /\ todo' = {i \in active \ P : outcome[i] \in Final}
  /\ phase' = "pass1"
  /\ UNCHANGED <<ledger, world, active, outcome, capacity, observed, progress,
                 drive, bypassed>>

\* Pass 1.  transitionItem observes the pull request again, and throws when
\* it no longer proves the item ready.
Persist(i) ==
  /\ phase = "pass1" /\ Turn(i)
  /\ IF outcome[i] = "ready_to_deploy" /\ remote[i] # "ready"
     THEN EndDrive("error") /\ UNCHANGED state
     ELSE /\ state' = [state EXCEPT ![i] =
                         IF outcome[i] = "abandoned" THEN "abandoned"
                         ELSE "ready"]
          /\ todo' = todo \ {i}
          /\ UNCHANGED <<phase, active, outcome, overlap, capacity, observed,
                         progress, drive>>
  /\ UNCHANGED <<stop, world, bypassed>>

PersistDone ==
  /\ phase = "pass1" /\ todo = {}
  /\ todo' = {i \in active : i \in overlap \/ outcome[i] \notin Final}
  /\ phase' = "pass2"
  /\ UNCHANGED <<ledger, world, active, outcome, overlap, capacity, observed,
                 progress, drive, bypassed>>

-----------------------------------------------------------------------------
(* Pass 2 *)

\* The rest of a step of pass 2 that does not throw.
Visited(i) ==
  /\ todo' = todo \ {i}
  /\ UNCHANGED <<phase, active, outcome, overlap, statuses, wait, progress,
                 drive>>

\* blockItem, waitItem and the reverts refuse an item that is no longer in
\* progress, and the error ends the drive.
Enter(i, s) ==
  IF state[i] = "in_progress"
  THEN /\ state' = [state EXCEPT ![i] = s]
       /\ capacity' = (capacity \/ (s = "pending" /\ outcome[i] = "capacity_wait"))
       /\ Visited(i) /\ UNCHANGED <<stop, drift, bypassed>>
  ELSE EndDrive("error") /\ UNCHANGED <<ledger, bypassed>>

Hold_LabelRecorded(i, source) ==
  IF stop = "none" THEN Enter(i, "blocked_needs_human")
  ELSE Visited(i) /\ UNCHANGED <<ledger, capacity, drift, bypassed>>

\* waitItem, unless a sibling has stopped the run.
Hold(i, source) ==
  IF stop = "none" THEN Enter(i, source)
  ELSE Visited(i) /\ UNCHANGED <<ledger, capacity, drift, bypassed>>

BlockAndRecover_StopIgnored(i, class) ==
  /\ \/ /\ state[i] \in Terminal
        /\ UNCHANGED <<ledger, drift, bypassed>>
     \/ /\ state[i] = "in_progress" /\ remote[i] = "ready"
        /\ ReconcileAll /\ UNCHANGED stop
     \/ /\ state[i] = "in_progress" /\ remote[i] # "ready"
        /\ Moves([state EXCEPT ![i] = "blocked"])
        /\ stop' = IF class = "human" THEN "human_authority" ELSE stop
        /\ UNCHANGED drift
  /\ Visited(i) /\ UNCHANGED capacity

\* blockAndExecuteRecovery with a class of the recovery policy.  An item
\* proven ready has the whole ledger reconciled, one whose issue is closed is
\* abandoned.  Any other is blocked; a class that only a human may settle
\* stops the run, and without a stop the block is recovered at once.
BlockAndRecover(i, class) ==
  /\ \/ /\ state[i] \in Terminal
        /\ UNCHANGED <<ledger, drift, bypassed>>
     \/ /\ state[i] = "in_progress" /\ stop = "none" /\ remote[i] = "ready"
        /\ ReconcileAll /\ UNCHANGED stop
     \/ /\ state[i] = "in_progress" /\ stop = "none" /\ remote[i] # "ready"
        /\ \E s \in {"blocked", "in_progress", "abandoned"} :
             /\ s = "in_progress" => class # "human"
             /\ Moves([state EXCEPT ![i] = s])
             /\ stop' = IF s = "blocked" /\ class = "human"
                        THEN "human_authority" ELSE stop
        /\ UNCHANGED drift
     \/ /\ state[i] = "in_progress" /\ stop # "none"
        /\ Moves([state EXCEPT ![i] = "blocked"])
        /\ UNCHANGED <<stop, drift>>
  /\ Visited(i) /\ UNCHANGED capacity

\* The classification of what the child reported: a child's ask for a human
\* is settled, held, recovered or, with attested authority, stops the run.  A
\* hold for authority has the blocked label for its source when that is seen
\* on the issue; one for a capability has none.
Classify(i) ==
  /\ phase = "pass2" /\ Turn(i)
  /\ \/ i \in overlap /\ Enter(i, "parked")
     \/ /\ i \notin overlap
        /\ \/ outcome[i] \notin Final /\ Enter(i, "pending")
           \/ /\ outcome[i] \in {"blocked_recoverable", "blocked_needs_human"}
              /\ Hold(i, "asking")
           \/ outcome[i] = "blocked_needs_human" /\ Hold(i, "waiting")
           \/ /\ outcome[i] = "blocked_recoverable"
              /\ BlockAndRecover(i, "human")
           \/ /\ outcome[i] \in {"failed", "blocked_recoverable",
                                 "blocked_needs_human"}
              /\ BlockAndRecover(i, "mechanical")
  /\ UNCHANGED world

\* The end of the cycle.  With a hold outstanding the ledger is reconciled
\* and the holds are looked at once more; then a child without capacity
\* cools the run, a stop ends it, and a hold with nothing pending ends it.
PassDone ==
  /\ phase = "pass2" /\ todo = {}
  /\ IF stop = "none" /\ InState(Held) # {}
     THEN /\ ReconcileAll /\ phase' = "after"
          /\ UNCHANGED <<stop, batch, statuses, wait, progress, drive>>
     ELSE /\ IF stop # "none" THEN EndDrive("stop")
             ELSE IF capacity THEN EndDrive("cooling")
             ELSE EndCycle(TRUE)
          /\ UNCHANGED <<ledger, bypassed>>
  /\ UNCHANGED world

AfterHolds(R, D) ==
  /\ phase = "after"
  /\ state' = Reopened(R, D)
  /\ IF capacity THEN EndDrive("cooling")
     ELSE IF /\ \E i \in Items : state'[i] \in Held
             /\ \A i \in Items : state'[i] # "pending"
          THEN EndDrive("hold")
     ELSE EndCycle(TRUE)
  /\ UNCHANGED <<stop, world, bypassed>>

-----------------------------------------------------------------------------
(* The outside world *)

\* People label and unlabel, close pull requests, rebase in a worktree,
\* settle the external issues and take blocked labels off.
Outside ==
  /\ moves < MaxMoves /\ moves' = moves + 1
  /\ \/ /\ \E i \in Items, r \in {"none", "open", "ready"} :
             /\ remote[i] # "none" /\ r # remote[i]
             /\ remote' = [remote EXCEPT ![i] = r]
        /\ UNCHANGED <<rebase, ext, cleared>>
     \/ /\ \E i \in Items :
             rebase' = IF i \in rebase THEN rebase \ {i} ELSE rebase \cup {i}
        /\ UNCHANGED <<remote, ext, cleared>>
     \/ /\ \E e \in Ext, s \in {"satisfied", "unsatisfiable"} :
             ext[e] = "pending" /\ ext' = [ext EXCEPT ![e] = s]
        /\ UNCHANGED <<remote, rebase, cleared>>
     \/ /\ \E i \in InState({"waiting"}) \ cleared :
             cleared' = cleared \cup {i}
        /\ UNCHANGED <<remote, rebase, ext>>
  /\ UNCHANGED <<ledger, phase, batch, observed, progress, drive,
                 bypassed>>

-----------------------------------------------------------------------------

\* What the supervisor and its children do in a drive.
Step ==
  \/ Reconcile \/ PropagateSkips \/ RecoverDone
  \/ AllDone \/ Schedule \/ ProbeDone \/ PersistDone \/ PassDone
  \/ \E R \in SUBSET InState(Held), D \in SUBSET Unlabelled :
       ReopenHolds(R, D) \/ AfterHolds(R, D)
  \/ \E i \in Items :
       \/ Recover(i) \/ Start(i) \/ Probe(i) \/ Persist(i) \/ Classify(i)
       \/ \E o \in Outcomes : Settle(i, o)
  \/ \E P \in SUBSET active : Park(P)

Next == Step \/ Resume \/ ResumeStopped \/ Crash \/ Outside

\* The label of item i is read, and no other process is advancing it.
Undeferred(i) ==
  \E R \in SUBSET InState(Held), D \in SUBSET Unlabelled :
    i \notin D /\ (ReopenHolds(R, D) \/ AfterHolds(R, D))

\* The drive and its children do not pause for ever (a child has a timeout),
\* someone drives the run again while it is unfinished, and of the looks at
\* the holds not all fail or find the same item being advanced.
Spec ==
  /\ Init /\ [][Next]_vars /\ WF_vars(Step) /\ WF_vars(Resume)
  /\ \A i \in Items : SF_vars(Undeferred(i))

-----------------------------------------------------------------------------
(* Properties *)

LedgerOK ==
  /\ state \in [Items -> States]
  /\ stop \in {"none", "dependency_deadlock", "human_authority"}
  /\ bypassed \in BOOLEAN

WorldOK ==
  /\ remote \in [Items -> {"none", "open", "ready"}]
  /\ rebase \subseteq Items /\ cleared \subseteq Items
  /\ ext \in [Ext -> Statuses] /\ moves \in 0..MaxMoves

CycleOK ==
  /\ phase \in Phases /\ statuses \in [Ext -> Statuses] /\ drift \subseteq Items
  /\ todo \subseteq Items /\ active \subseteq Items /\ overlap \subseteq Items
  /\ outcome \in [Items -> AllOutcomes \cup {"none"}] /\ capacity \in BOOLEAN
  /\ wait \in {"none", "backoff", "cooling"} /\ progress \in BOOLEAN
  /\ idle \in Nat /\ cycles \in Nat /\ ended \in Ends
  /\ crashes \in 0..MaxCrashes

\* Type correctness of the ledger and of the supervisor's state.
TypeOK == LedgerOK /\ WorldOK /\ CycleOK

\* A set of items that may run at the same time.
Independent(S) ==
  /\ Cardinality(S) <= Budget
  /\ \A i, j \in S : i # j => ~Clash(i, j)

\* No two items are in progress that depend on one another or may touch the
\* same files, nor more than the budget allows (selectSchedulableSet).
InProgressIndependent == Independent(InProgress)

\* The same, as long as every item that joined others in progress was
\* selected: across crashes between the starts of a batch, redispatch of
\* what a dead supervisor left behind, and any order of classification.
IndependentUnlessBypassed == bypassed \/ InProgressIndependent

\* While a batch is started, what is in progress is a part of it.
SelectionInv ==
  /\ IndependentUnlessBypassed
  /\ phase = "start" =>
       /\ Independent(active)
       /\ todo \subseteq active /\ InProgress \subseteq active

\* One pass of propagateSkips leaves no item behind that can never run: none
\* that is pending or blocked has a lost dependency.
SkipsClosed ==
  phase = "holds" =>
    \A i \in Skippable : ~Lost(i, {}, statuses)

\* A hold that has the blocked label for its source does not stay a hold for
\* ever once a human took the label off (reopenClearedBlockedHolds), however
\* often its reopening was put off, while the run has not stopped.
ClearedHoldRejoins ==
  \A i \in Items :
    state[i] = "waiting" /\ i \in cleared ~>
      state[i] # "waiting" \/ stop # "none"

\* The step moves items out of in_progress only, and none towards ready.
Records ==
  \A i \in Items :
    state'[i] # state[i] =>
      /\ state[i] = "in_progress"
      /\ state'[i] \in {"pending", "blocked", "parked"}

\* The step resumes the run, and an item it moves is proven ready.
CaughtUp ==
  /\ phase = "idle"
  /\ \A i \in Items :
       state'[i] # state[i] => remote[i] = "ready" /\ state'[i] = "ready"

\* A stopped run starts nothing and keeps the cause of its stop.  Pass 2 still
\* records how each child of the batch ended, but an item may only leave
\* in_progress there, and never towards ready (blockAndExecuteRecovery under
\* allowAlreadyStopped); a later drive can only find an item ready by its own
\* pull request (resumeRecoveryExhaustedTerminalCatchUp).
StopFreezes == [][stop # "none" => stop' = stop /\ (Records \/ CaughtUp)]_vars

\* A run is stopped in pass 2 or by the end of a drive, and no other phase of
\* a cycle is entered with the stop set.
StopInv == stop # "none" => phase \in {"idle", "pass2"}

\* The run stops for a dependency deadlock only when no item that could
\* still resolve, by a recovery or a human, holds up the others
\* (detectDependencyDeadlock).
DeadlockGenuine ==
  stop = "dependency_deadlock" =>
    InState(Held \cup {"blocked", "parked"}) = {}
=============================================================================
