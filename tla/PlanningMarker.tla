----------------------------- MODULE PlanningMarker -----------------------------
(***************************************************************************)
(* The repo-stable live-planning marker (core/scripts/lock.ts) and the two *)
(* ways a run enters the planning arc under it (dispatchStageHandler of    *)
(* pipeline-run.ts and dispatchResume and advance of stages/planning.ts).  *)
(* An issue on ready passes the issue-readiness gate, where that is        *)
(* enabled, and is claimed with tryAcquireLivePlanningMarker.  An issue    *)
(* found on planning, plan-review or implementing is taken for             *)
(* crash-stranded when no live process owns the marker: it is rolled back  *)
(* to ready and planned again, or resumed where it was, or, when commits   *)
(* prove the implementation, delivered without a marker.  A failed attempt *)
(* leaves the blocked label, and a run stops at it.                        *)
(*                                                                         *)
(* The processes run under different domains, so each holds its own issue  *)
(* lock.  A process stands for its process id: one that dies does not      *)
(* start again, and ids are not reused.  The three stages of the planning  *)
(* arc are one label, and everything behind it is done.  The gate's swap   *)
(* of ready for needs-spec is one step; its attestation stage is left out. *)
(***************************************************************************)
EXTENDS Naturals

CONSTANTS
  Proc,      \* process ids
  NoFile,
  MaxFaults  \* bound: planning attempts that fail, refused admissions, processes that die

ASSUME MarkerAssumption == NoFile \notin Proc /\ MaxFaults \in Nat

VARIABLES
  marker,    \* the process named by the marker, or NoFile
  cleanup,   \* the process named by its cleanup lock, or NoFile
  labels,    \* stage labels of the issue, and blocked
  pc,
  faults,
  intruded   \* history: a process removed or replaced the marker of another live one

vars == <<marker, cleanup, labels, pc, faults, intruded>>

Stages == {"needs-spec", "ready", "planning", "done"}
Labels == Stages \cup {"blocked"}
Planners == {"planning", "resumed", "implementing", "clear"}
Locations ==
  {"idle", "gate", "reset", "claim", "probe", "cleanup", "cleanupProbe", "cleanupUnlink",
   "cleanupRetry", "recheck", "unlink", "recreate", "dropWon", "dropLost",
   "set", "check", "rollback", "restart", "resume", "unmarked", "dead"} \cup Planners

Init ==
  /\ marker = NoFile /\ cleanup = NoFile
  /\ labels = {"ready"}
  /\ pc = [p \in Proc |-> "idle"]
  /\ faults = 0 /\ intruded = FALSE

At(p, l) == pc[p] = l
Goto(p, l) == pc' = [pc EXCEPT ![p] = l]

Live_Unprobed(f) == f # NoFile

\* isLivePlanningActive and isFilePidAlive: a missing file is not alive.
Live(f) == f # NoFile /\ pc[f] # "dead"

\* pickStage: the furthest-along label.
Stage == IF "done" \in labels THEN "done"
         ELSE IF "planning" \in labels THEN "planning"
         ELSE IF "ready" \in labels THEN "ready" ELSE "needs-spec"

Transition_AddFailed(from, to) == labels' = labels \ {from}

\* transition: the label it moves from need not be there any more.
Transition(from, to) == labels' = (labels \ {from}) \cup {to}

\* What p does to the marker file of another live process.
Intrudes(p) == intruded' = (intruded \/ (marker # p /\ Live(marker)))

\* A run reads the labels, stops at blocked, and dispatches the handler of the
\* stage; a run whose configuration disables the gate goes straight to the claim.
Dispatch(p) ==
  /\ At(p, "idle") /\ "blocked" \notin labels
  /\ \/ Stage = "ready" /\ (Goto(p, "gate") \/ Goto(p, "claim"))
     \/ Stage = "planning" /\ Goto(p, "check")
  /\ UNCHANGED <<marker, cleanup, labels, faults, intruded>>

\* evaluateIssueReadiness admits the issue, or finds that its stage has moved.
Admit(p) ==
  /\ At(p, "gate")
  /\ Goto(p, IF Stage = "ready" THEN "claim" ELSE "idle")
  /\ UNCHANGED <<marker, cleanup, labels, faults, intruded>>

\* The gate refuses the issue, is unavailable, or fails between its two label
\* writes.
Refuse(p) ==
  /\ At(p, "gate") /\ Goto(p, "idle")
  /\ labels \ {"needs-spec", "blocked"} = {"ready"}
  /\ Transition("ready", "needs-spec") \/ labels' \in {labels, labels \cup {"needs-spec"}}
  /\ faults < MaxFaults /\ faults' = faults + 1
  /\ UNCHANGED <<marker, cleanup, intruded>>

\* tryAutoRecover on an issue blocked at implementing: where the worktree has
\* no commits and retries are left the run lifts the label, then resets the
\* issue to ready, whether or not the marker is live.
AutoRecover(p) ==
  /\ At(p, "idle") /\ "blocked" \in labels /\ Stage = "planning"
  /\ labels' = labels \ {"blocked"} /\ Goto(p, "reset")
  /\ UNCHANGED <<marker, cleanup, faults, intruded>>

Reset(p) ==
  /\ At(p, "reset")
  /\ Transition("planning", "ready") /\ Goto(p, "idle")
  /\ UNCHANGED <<marker, cleanup, faults, intruded>>

\* A person, or a run's auto-loop, lifts the blocked label.
Unblock ==
  /\ "blocked" \in labels /\ labels' = labels \ {"blocked"}
  /\ UNCHANGED <<marker, cleanup, pc, faults, intruded>>

\* A person re-admits the issue (pipeline triage --stage ready).
Readmit ==
  /\ Stage = "needs-spec" /\ Transition("needs-spec", "ready")
  /\ UNCHANGED <<marker, cleanup, pc, faults, intruded>>

-----------------------------------------------------------------------------
(* tryAcquireLivePlanningMarker: each step is one file operation.            *)

Creatable_Overwrites(f) == TRUE

\* tryExclCreate: link fails when the file exists.
Creatable(f) == f = NoFile

Claim(p) ==
  /\ At(p, "claim")
  /\ IF Creatable(marker) THEN marker' = p /\ Goto(p, "set")
                          ELSE Goto(p, "probe") /\ UNCHANGED marker
  /\ UNCHANGED <<cleanup, labels, faults, intruded>>

\* A live owner: the run reports that it waits.
Probe(p) ==
  /\ At(p, "probe")
  /\ Goto(p, IF Live(marker) THEN "idle" ELSE "cleanup")
  /\ UNCHANGED <<marker, cleanup, labels, faults, intruded>>

CleanupLock(p) ==
  /\ \/ At(p, "cleanup") /\ ~Creatable(cleanup) /\ Goto(p, "cleanupProbe") /\ UNCHANGED cleanup
     \/ At(p, "cleanupRetry") /\ ~Creatable(cleanup) /\ Goto(p, "idle") /\ UNCHANGED cleanup
     \/ /\ pc[p] \in {"cleanup", "cleanupRetry"} /\ Creatable(cleanup)
        /\ cleanup' = p /\ Goto(p, "recheck")
  /\ UNCHANGED <<marker, labels, faults, intruded>>

CleanupProbe(p) ==
  /\ At(p, "cleanupProbe")
  /\ Goto(p, IF Live(cleanup) THEN "idle" ELSE "cleanupUnlink")
  /\ UNCHANGED <<marker, cleanup, labels, faults, intruded>>

\* The cleanup lock of a dead reclaimer is unlinked by name.
CleanupUnlink(p) ==
  /\ At(p, "cleanupUnlink")
  /\ cleanup' = NoFile /\ Goto(p, "cleanupRetry")
  /\ UNCHANGED <<marker, labels, faults, intruded>>

Recheck(p) ==
  /\ At(p, "recheck")
  /\ Goto(p, IF Live(marker) THEN "dropLost" ELSE "unlink")
  /\ UNCHANGED <<marker, cleanup, labels, faults, intruded>>

Unlink(p) ==
  /\ At(p, "unlink")
  /\ marker' = NoFile /\ Intrudes(p) /\ Goto(p, "recreate")
  /\ UNCHANGED <<cleanup, labels, faults>>

Recreate(p) ==
  /\ At(p, "recreate")
  /\ IF Creatable(marker) THEN marker' = p /\ Goto(p, "dropWon")
                          ELSE Goto(p, "dropLost") /\ UNCHANGED marker
  /\ UNCHANGED <<cleanup, labels, faults, intruded>>

DropCleanup(p) ==
  /\ \/ At(p, "dropWon") /\ Goto(p, "set")
     \/ At(p, "dropLost") /\ Goto(p, "idle")
  /\ cleanup' = NoFile
  /\ UNCHANGED <<marker, labels, faults, intruded>>

-----------------------------------------------------------------------------
(* The stranded stages, then the planning arc.                               *)

Check(p) ==
  /\ At(p, "check")
  /\ Goto(p, IF Live(marker) THEN "idle" ELSE "rollback")
  /\ UNCHANGED <<marker, cleanup, labels, faults, intruded>>

\* Without a plan or commits the issue is planned again; with them advance is
\* called to resume; resumeFromImplementing delivers proven commits.
Rollback(p) ==
  /\ At(p, "rollback")
  /\ \/ Transition("planning", "ready") /\ Goto(p, "restart")
     \/ UNCHANGED labels /\ (Goto(p, "resume") \/ Goto(p, "unmarked"))
  /\ UNCHANGED <<marker, cleanup, faults, intruded>>

\* advance overwrites the marker (setLivePlanningMarker).
SetMarker(p) ==
  /\ \/ pc[p] \in {"set", "restart"} /\ Goto(p, "planning")
     \/ At(p, "resume") /\ Goto(p, "resumed")
  /\ marker' = p /\ Intrudes(p)
  /\ UNCHANGED <<cleanup, labels, faults>>

\* runPlanningPhases: a resumed plan-review moves on to implementing, and a
\* resumed implementation writes no label.
Plan(p) ==
  /\ \/ At(p, "planning") /\ Transition("ready", "planning")
     \/ At(p, "resumed") /\ (Transition("planning", "planning") \/ UNCHANGED labels)
  /\ Goto(p, "implementing")
  /\ UNCHANGED <<marker, cleanup, faults, intruded>>

Deliver(p) ==
  /\ \/ At(p, "implementing") /\ Goto(p, "clear")
     \/ At(p, "unmarked") /\ Goto(p, "idle")
  /\ Transition("planning", "done")
  /\ UNCHANGED <<marker, cleanup, faults, intruded>>

\* The arc ends without a deliverable: setBlocked, or a call that throws.
Fail(p) ==
  /\ \/ pc[p] \in Planners \ {"clear"} /\ Goto(p, "clear")
     \/ pc[p] \in {"rollback", "unmarked", "reset"} /\ Goto(p, "idle")
  /\ labels' \in {labels, labels \cup {"blocked"}}
  /\ faults < MaxFaults /\ faults' = faults + 1
  /\ UNCHANGED <<marker, cleanup, intruded>>

\* clearLivePlanningMarker unlinks the marker, whosever it is.
ClearMarker(p) ==
  /\ At(p, "clear")
  /\ marker' = NoFile /\ Intrudes(p) /\ Goto(p, "idle")
  /\ UNCHANGED <<cleanup, labels, faults>>

Crash(p) ==
  /\ pc[p] \notin {"idle", "dead"} /\ faults < MaxFaults
  /\ Goto(p, "dead") /\ faults' = faults + 1
  /\ UNCHANGED <<marker, cleanup, labels, intruded>>

-----------------------------------------------------------------------------
Run(p) ==
  \/ Dispatch(p) \/ Admit(p) \/ Reset(p) \/ Claim(p) \/ Probe(p) \/ CleanupLock(p) \/ CleanupProbe(p)
  \/ CleanupUnlink(p) \/ Recheck(p) \/ Unlink(p) \/ Recreate(p)
  \/ DropCleanup(p) \/ Check(p) \/ Rollback(p) \/ SetMarker(p) \/ Plan(p)
  \/ Deliver(p) \/ ClearMarker(p)

Next ==
  \/ \E p \in Proc : Run(p) \/ Refuse(p) \/ AutoRecover(p) \/ Fail(p) \/ Crash(p)
  \/ Unblock \/ Readmit

\* Runs are started again until the issue is done, and none of them hangs.
\* Nobody has to lift a hold.
Spec == Init /\ [][Next]_vars /\ \A p \in Proc : WF_vars(Run(p))

-----------------------------------------------------------------------------
\* Types of the marker files, the labels and the processes.
TypeOK ==
  /\ marker \in Proc \cup {NoFile} /\ cleanup \in Proc \cup {NoFile}
  /\ labels \in SUBSET Labels /\ labels \cap Stages # {}
  /\ pc \in [Proc -> Locations]
  /\ faults \in 0..MaxFaults /\ intruded \in BOOLEAN

\* A process that tryAcquireLivePlanningMarker returned true to, or that has
\* set the marker itself.
Owner(p) == pc[p] \in Planners \cup {"dropWon", "set"}

\* Two runs are in the planning arc at once only after one of them removed or
\* replaced the marker of the other while that was alive: the exclusive link
\* is enough for the rest, reclaiming the marker of a dead process included.
OwnerUnlessIntruded ==
  ~intruded => \A p \in Proc : Owner(p) => marker = p /\ \A q \in Proc : Owner(q) => q = p

\* The inductive invariant: it is enough that the marker of an owner is its own.
MarkerInv == TypeOK /\ (~intruded => \A p \in Proc : Owner(p) => marker = p)

\* What a run does not get past by itself.
Held == "blocked" \in labels \/ Stage = "needs-spec"

\* A dead planner, or a dead reclaimer of its marker, never blocks the issue:
\* while a run is left to start, the arc completes or the issue comes to rest
\* under a label that tells a person what it waits for, and once that is lifted
\* the same holds again.
IssueDelivered == <>[](Stage = "done" \/ Held \/ \A p \in Proc : pc[p] = "dead")
=============================================================================
