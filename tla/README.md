# TLA+ models of agent-pipeline

agent-pipeline drives GitHub issues through a pipeline of agent stages
(planning, plan review, implementation, review and fix rounds, pre-merge gates)
and, above single issues, runs durable loops over work lists of issues. This
directory models the parts of it in which processes, crashes and the outside
world meet: the locks that keep two processes off the same issue or run, the
detached launcher, the recovery of blocked items, the supervisor cycle that
schedules a work list, and the merge of an exact candidate.

TLC checks the models on small instances; TLAPS proves the most important
invariants for every value of the constants. `PROJECT.json` lists the
components, the runs, the mutants that show each property can fail, the source
lines behind every definition, the hazards of the code, the findings and the
theorems.

## The system and its parts

| Part | Source (`core/scripts/`) | Module | Status |
| --- | --- | --- | --- |
| Per-issue run lock | `lock.ts` | `IssueRunLock` | modelled |
| Detached launcher | `detach.ts`, `lock.ts` | `DetachedRun` | modelled |
| Live-planning marker, stranded-stage recovery | `lock.ts`, `pipeline-run.ts`, `stages/planning.ts`, `issue-readiness.ts`, `stages/auto_recover.ts`, `gh.ts` | `PlanningMarker` | modelled |
| Loop run lock, ledger writes under its token | `loop/store.ts` | `LoopRunLock` | modelled |
| Recovery episodes of a blocked item | `loop/recovery-episodes.ts`, `loop/recovery.ts`, `loop/supervisor.ts`, `loop/store.ts` | `RecoveryEpisodes` | partly |
| Supervisor cycle and scheduler | `loop/supervisor.ts`, `loop/schedule.ts`, `loop/dependencies.ts`, `loop/reconcile.ts` | `LoopSchedule`, `SkipPropagation` | partly |
| Reconciliation classifier, file ownership, holds | `loop/reconcile.ts`, `loop/ownership.ts`, `loop/pause.ts` | in `LoopSchedule` | partly |
| Exact-candidate merge and its supervision | `stages/merge.ts`, `stages/merge-supervision.ts` | `MergeAttempt`, `MergeOperation` | partly |
| Lifecycle ownership, stage-attempt ledger, worktrees | `recovery-lifecycle-ownership.ts`, `stage-attempt-ledger.ts`, `worktree.ts` | – | not modelled |
| Stage machine, review and fix rounds, pre-merge | `pipeline-run.ts`, `stages/review*.ts`, `stages/fix.ts`, `stages/pre-merge-*.ts` | – | not modelled, but for planning |
| Merge queue, train, release, ship, engine pin | `stages/merge-queue.ts`, `stages/merge_queue.ts`, `stages/train.ts`, `stages/release.ts`, `stages/ship*.ts`, `production-engine-pin.ts` | – | not modelled |
| Handoffs and parked-run recovery | `human-question-handoff.ts`, `typed-request-*.ts`, `recover-parked.ts` | – | not modelled, but for the label writes of `tryAutoRecover` |
| Configuration, CLI, prompts, reports, evals | `config.ts`, `pipeline.ts`, `prompts/`, `scoreboard.ts`, `evals/` | – | not modelled: text, parsing and arithmetic without concurrent or durable state |

How they interact: a command on one issue takes the per-issue run lock of its
domain and then dispatches the stage its labels name. Runs of different domains
do not share that lock, so the planning arc is guarded by a marker of the
repository. A loop run is driven by one supervisor, the holder of the run lock;
all writes of its ledger carry the lock's token. In each cycle the supervisor
reconciles the ledger with GitHub, recovers blocked items, selects a batch,
dispatches it to child processes (each of which takes the issue's own lock), and
records the results. A detached command is a wrapper process that holds the
issue's lock for the pipeline it spawns. A ready pull request is merged by
whichever process gets to it; what they share is a claim file per candidate.

## The modules

### IssueRunLock (`lock.ts`, class `PipelineLock` and `withLock`)

`file` is what is at the lock path (its creator and its body), `pc` where each
process is; `live` and `recycled` are the process table. Each action is one
system call: `Open` (`open(wx)`), `WriteMarker`, `ReadExisting`, `Probe`
(`kill(pid, 0)`; a reused pid counts as alive), `RemoveStale`, `Retry` and
`GiveUp` (`acquireWithTimeout`), `Release`. `Former` are processes that died
earlier, one of which may have left its lock file, written or not. `Crash` and `Recycle` are the host's.

### DetachedRun (`detach.ts`) over IssueRunLock

Extends the lock with the processes that use it: foreground runs (`Foreground`,
which is `withLock`) and wrappers. `launch` is the launcher (`Launch`, `Answer`
of the handshake or its deadline, `KillGroup`), `mark` the handshake file, `run`
how far the wrapper is, `inner` and `workers` which inner pipelines and which of
their detached process groups live, `sentinel` the file `sentinel.json`. The
wrapper acquires (`Acquire`, `Refused`), reports (`Handshake`), spawns (`Spawn`),
and ends by `ChildClosed`, or by `Shutdown` and `SoftExit`, or `GraceOver`,
`KillDescendants` and `HardExit`; then the exit handler, `ExitSentinel` and
`ExitRelease`. The inner pipeline skips the lock. SIGTERM obliges nobody; SIGKILL
to the inner pipeline takes effect some time later. A worker is found in the
process table only while its parent lives (`Descendants`). `cut` and `orphaned`
are history variables for the exceptions of the properties. Every step is a step
of `IssueRunLock` or leaves the lock alone.

### PlanningMarker (`lock.ts`, `pipeline-run.ts`, `stages/planning.ts`)

`marker` and `cleanup` are the two files, `labels` the stage labels of the issue
(planning, plan-review and implementing are one label, everything behind them is
`done`) and `blocked`. `Dispatch` reads the labels and stops at `blocked`; a ready
issue passes the readiness gate where that is enabled (`Admit`, or `Refuse`,
which leaves `needs-spec`). `AutoRecover` and `Reset` are the two label writes of
`tryAutoRecover`, `Unblock` and `Readmit` what a person does. `Claim` to `DropCleanup` are the file operations of
`tryAcquireLivePlanningMarker`; `Check` and `Rollback` the way in through a
stranded stage, which re-plans, resumes, or delivers proven commits without a
marker; `SetMarker`, `Plan`, `Deliver`, `Fail` and `ClearMarker` the arc itself
(`advance` with its `finally`); a failure blocks the issue, or throws. A label transition removes the label it knows and
adds the next one, so labels can pile up as they do on GitHub.

### LoopRunLock (`loop/store.ts`)

`file` is the token in `lock.json`, `written` the tokens whose record is complete
(the file is created first and written then), `dead` the tokens whose process is
gone. `Attach` and `Recheck` read the lock (`attachSupervisor`, `recoverLock`);
`RenameAway`, `Compare` and `Restore` are the three steps of
`removeFileIfMatches`; `CheckToken` and `Publish` the two halves of `writeLedger`.

### RecoveryEpisodes (`loop/recovery-episodes.ts`, `loop/recovery.ts`, `executeBlockedRecovery`)

One run, one item, one pull request, one blocker class. `ledger` is the document
a process would read back: `WriteLedger` publishes a document, or, when the
authority check of `readLedger` rejects it, leaves the last valid one. Rows are
recovery attempts with the episode fields they carry (counts, cursor, skipped
recipes). An iteration of `executeBlockedRecovery` is the choice of
`ProvenForward`, `AbandonClosed`, `Readmit`, `SupersedeStale`, `Replay`,
`ReplayUnobserved`, `Skip`, `Claim` or `Cool`, then `Defer`, `Execute`,
`Complete`; between any two of them the pull request moves (`MoveHead`,
`ChangeLabel`, `CloseIssue`) or the process dies, and `Takeover` is what the next
one does with a started claim. `ReplayUnobserved` replays a started claim when the
head of the pull request cannot be read, so the claim may be of a candidate that
is gone; `strayed` remembers the claims that last ran on another candidate, until
a takeover's observer vouches for one. `NeverStarted` are
the fingerprints of a preflight that never started, to which no recipe applies:
every recipe is skipped, and the block is deferred in each cycle without cooling.

### LoopSchedule (`runSupervisorCycle` and `driveSupervisor`)

`state` and `stop` are the ledger; `remote`, `rebase`, `ext` and `cleared` the
outside world; the rest is the cycle in memory. `phase` follows the function from
top to bottom: `Reconcile`, `PropagateSkips`, `ReopenHolds`, `Recover`,
`AllDone` or `Schedule` (with `NothingToDo` for its early returns), `Start`,
`Probe`, `Settle`, `Park`, `Persist` (pass 1), `Classify` (pass 2), `PassDone`,
`AfterHolds`. `EndCycle` is the watchdog and the cycle cap, `EndDrive` every way
out including a thrown error. `Resume` starts the next drive and may reconcile
first, as an attach does; `ResumeStopped` is the drive of a stopped run, which
returns its stop, except that the catch-up
(`resumeRecoveryExhaustedTerminalCatchUp`) may find items ready whose pull requests
prove it. Whether it applies turns on the Cooling record, a choice here.

A hold is `waiting` when the blocked label is its source, `asking` when it has
none (`Hold`). `Reopened(R, D)` is the three writes that end holds: those of `R`
are released because their candidate has moved or their ask now settles itself,
and `waiting` ones whose label is off rejoin unless they are in `D`, the items
whose label cannot be read or that another process is still advancing. A recovery is one
step here (`RecoverTyped`): what it may leave the item in is what
`RecoveryEpisodes` details. `parked` is a blocked item without typed evidence,
the state that overlap parking leaves.

The least set of skips (`SkippedNow`) is defined as a fixpoint. `SkipPropagation`
is the loop of `propagateSkips`: `SweptTo` follows one sweep in contract order,
`AfterSweeps` the sweeps, and `Propagated` takes what stands when one has changed
nothing. `SkipsExact` compares the two in every state in which it is called.

### MergeAttempt (`runMergeAttempt`, `fileMergeClaimStore`, `withClaimCasLock`)

One pull request, any number of processes that try to merge it. `claim` is the
claim file and `lock` the caslock file of its compare-and-swap, each of which is
created empty and written later. `merged`, `head` and `green` are GitHub's:
`green` says that the checks gate has been passable for the present head (its
checks passed, or none is reported). `contained` says that the fetched base
contains the merge. `current` is the set of processes that hold what the claim
file holds now, which is what a compare finds out. A process loads the claim
and replays it (`Begin`, `Observe` with `Decision`, `Save`), inspects candidate,
checks and stage (`Inspect`, `Checks`, `Stage`), binds a started claim (`Reload`,
`Create`, `Fill`, `Raced`), reads the candidate afresh (`Fresh`), swaps the claim
to `submitted` (`OpenLock` to `Unlock`) and sends the merge (`SendMerge`);
`Failed`, `Settle`, `Record` and `Doubt` follow the answer. A call
outlives its sender: a timed-out or orphaned call is in `lost` and may still
execute (`AnswerLost`). `Cool` lets the cooling time of a claim pass, also while
its call is under way, since `MERGE_COOLING_MS` (15 s) is less than the 60 s for
which gh is waited (`stages/merge.ts:144`).
`hasty` and `stolen` remember a claim reset under a live call and a caslock taken
from a live process. Pids are not reused. All processes work on the same base and scope; re-reads of
an UNKNOWN merge state are part of the refusal they end in.

### MergeOperation

What the merge promises, without processes, files and calls: the pipeline merges
at most once, a green head, with its intent on record, and `known_complete` is
recorded only of a merge that the fetched base contains.
`MergeAttempt` implements it with `record <- Certainty` (what the claim file
says) and `excused <- Excused` (`hasty` or `stolen`): `ImplementsOperation`.

## What is checked

Passing runs (bounds in the `.cfg` files):

| Run | Instance | Shows |
| --- | --- | --- |
| `issue_run_lock` | a wrapper and a foreground run after a process that died, any crashes and pid reuse; 85,603 states | two processes hold the lock only after `removeStale` unlinked the file of a live one; a live process leaves no lock file behind; a stale lock is reclaimed; two pipelines work on the issue only after such a steal or when a wrapper is gone or gave up; a wrapper that ends has left one sentinel, kept for good; nothing of a refused launch runs; a worker survives a shutdown only as an orphan; a shutdown ends |
| `loop_run_lock` | 3 processes, 3 tokens, 2 crashes; 29,425 states | one holder, whose file is in place also between check and write, unless a removal moved another record away; a dead record is removed |
| `planning_marker` | 3 runs, 3 faults; 591,370 states | two runs plan an issue only after one removed or replaced the other's live marker; the issue is delivered, or comes to rest under a label that tells a person what it waits for |
| `recovery_episodes` | 2 recipes, bound 2, 2 heads, 2 fingerprints, 1 crash; 1,410,583 states | claims are durable, one is outstanding at most and can be completed, strategies keep their bound and order, rows are never lost |
| `recovery_episodes_revisits` | the head or label may return once; 187,359 states | bounds hold over returns; until one, a recipe that ran on another candidate than its claim's is not recorded as a recovery |
| `recovery_episodes_liveness` | 2 recipes, bound 1, backoff, 1 crash, one fingerprint of a never-started preflight; 42,585 states | a block is resolved, superseded, left cooling, or deferred as a preflight that never started |
| `loop_schedule` | 3 items, a dependency, a conflict, budget 2, 6 outcomes, 1 crash, 1 outside move; 3,270,259 states | what is in progress together was proven independent unless an item got there without selection; a stopped run keeps its stop and starts nothing: pass 2 records reports, a resume finds ready what its pull request proves |
| `loop_schedule_holds` | a chain of 3 against the contract's order, an external dependency, 2 outcomes, 2 moves; 276,047 states | the sweeps of `propagateSkips` give the least fixpoint, which leaves no item with a lost dependency; a hold whose label is off rejoins, however often that is put off |
| `merge_attempt` | 2 processes, 2 heads, 1 lost call, 1 crash; 1,912,612 states | only a head that could pass its checks is merged; a call is made under its claim, and one at a time, unless a claim was reset under its call or a caslock stolen; every step is one of `MergeOperation` |
| `merge_attempt_liveness` | the same with 1 head; 265,427 states | a pending claim is settled; a merge the base contains ends up recorded for good |

Why the bounds are enough for the cases of interest: in the run lock and the
marker, three processes are a dead holder and two contenders, the least for each
of the races below. In the issue lock the dead holder is there from the start and
the contenders are a detached and a foreground run, because the wrapper's children
multiply the states; everything it checks but
liveness is proved for any number. Two merging processes are the least for a swap that
loses and a lock that is stolen, two heads the least for a push between check and
merge (the liveness run, where pushes would only add attempts, has one). In the
recovery, two heads with a return are the least for an episode to be left and re-entered; three items
are the least for a chain behind a held item, and for a batch beside an item
that must not join it. The no-progress
limit (5 in the code) and the cycle cap (10,000) are 1 or 2 here, since what
happens at the limit does not depend on its value; `MaxCrashes`, `MaxMoves`,
`MaxFaults`, `MaxTokens`, `MaxRevisits` and `MaxLost` bound what would make the instances infinite.
Fingerprints are symmetric in two runs (only safety properties are checked there).

Deadlock is checked in the merge runs, where an attempt can always be made, and
in the scheduling runs, where a drive can always be resumed. The other systems may
stop, as a finished issue, a closed item, or a host on which every process has died.

Every property has a mutant in `PROJECT.json`: a plausible slip in the code (a
missing exclusive flag, an off-by-one bound, an ignored conflict, one round of
propagation instead of a fixpoint) that makes TLC report it violated.

### Fairness

- `IssueRunLock`: weak fairness of the system calls of an attempt. `acquire` is
  synchronous code; nothing is assumed of starting, retrying or releasing.
- `DetachedRun`: the same for foreground runs, and weak fairness of a wrapper's
  next step: its timers fire and its handlers run. Nobody has to obey SIGTERM,
  and the wrapper's SIGKILL need not have taken effect when it exits.
- `LoopRunLock`: weak fairness of attaching, recovering and creating. Somebody
  attaches again to an unfinished run.
- `PlanningMarker`: weak fairness of each run. Runs are started again
  while the issue is neither done nor held, and none hangs (stages have timeouts).
  Nobody has to lift a hold.
- `RecoveryEpisodes`: weak fairness of the supervisor's iteration, strong
  fairness of `Execute` and `Complete`, which a failing observation may disable
  again and again: observations eventually succeed.
- `LoopSchedule`: weak fairness of the steps of a drive (children have timeouts)
  and of `Resume` (an unfinished run is driven again); strong fairness, for each
  item, of reading its holds without deferring it (`Undeferred`): its label is
  readable some time and the other process's advance ends.
- `MergeAttempt`: weak fairness of beginning an attempt and of its steps, of the
  end of a call that is waited for, and of cooling; strong fairness of `Observe`,
  which a failing read may prevent again and again. Attempts are repeated by the
  operator, the queue or the train. Neither checks nor merge have to succeed.

## Where the code and its documents differ

Two runs are expected to violate their property; `PROJECT.json` quotes the
sentence each one contradicts.

| Run | Property | What happens |
| --- | --- | --- |
| `recovery_episodes_claim` | `ClaimDurable` | a claim after a superseded one carries counts the authority check does not derive, and the ledger with it is quarantined |
| `loop_schedule_deadlock` | `DeadlockGenuine` | a chain behind a waiting item stops the run as a dependency deadlock |

`ClaimDurable` is violated only when the pull request returns to a head or label
it had before. `recovery_episodes` and `recovery_episodes_liveness` exclude returns
for that reason. `BlockResolves` fails with it: the claim that is dropped is made
again in every cycle. A return of the label also breaks `OneOutstandingClaim` and
`StartedClaimCompletable`, in another way: a crash after the item was recorded
ready leaves its claim started, and when the label goes, reconciliation takes the
item back to progress with that claim, beside which the next block makes another.
What holds in spite of returns is in `recovery_episodes_revisits`.

Where a promise has an exception in the code, the property names the exception
and holds; the models reach each of these cases.

- Issue lock (`MutexUntilSteal`): two contenders judge the same dead holder, and
  the second unlinks the lock the first has created (`lock.ts:226`); or one reads
  the file before its creator has written it (`lock.ts:143`) and takes it for stale.
  `openspec/specs/issue-run-lock/spec.md:27` rules out concurrent ownership.
- Run lock (`HolderUnlessDisplaced`): compare-and-delete (`loop/store.ts:1275`)
  moves the new holder's record away while it compares, and a third process
  acquires the free name.
- Marker (`OwnerUnlessIntruded`): it is unlinked by name after the re-check
  (`lock.ts:420`), overwritten by a restarted stage (`lock.ts:318`), and cleared
  whosever it is (`lock.ts:438`).
- Detached run (`OneWorking`, with `cut`): a wrapper that is killed leaves its
  inner pipeline working without a lock, and the "unconfirmed" end of a shutdown
  releases the lock beside an inner pipeline that may live, where `detach.ts:648`
  says never to release it before the children are terminated.
- Detached run (`WorkersReaped`, with `orphaned`): workers are looked up through
  their parents, so those whose inner pipeline is gone are not found: always on
  the soft path (`detach.ts:245`), and on the hard path when the SIGKILL of line
  250 acts before line 251 reads the process table. The sentinel is written
  before any of this, although `openspec/specs/detached-launcher/spec.md:104`
  wants no descendant alive after it and lines 43-45 no sentinel during a run.
- Merge (`OneCall`, `CallUnderClaim`, with `hasty` and `stolen`): a claim cools
  while its call is under way and is then reset; a caslock is unlinked by name,
  by a contender that saw a dead pid in its predecessor or by a former owner.
- Merge (`PendingSettles`, with `Wedged`): a crash between creation and writing
  leaves an empty claim or caslock file that no attempt removes.
- Scheduling (`IndependentUnlessBypassed`): reconciliation and recovery bring
  items to `in_progress` past the scheduler (`loop/supervisor.ts:3177`).

Further behaviours of the models, which no property restricts, deserve attention:
a takeover's wait for an uncertain claim names no item, so the action is replayed
(`loop/supervisor.ts:4684`, against
`openspec/specs/recovery-episodes/spec.md:224`); reconciliation moves skipped
items on (`loop/reconcile.ts:586`) and promotes overlap-parked ones; it drives an
item in an unfinished rebase whatever its external dependencies
(`loop/reconcile.ts:533`); a throw in pass 1 leaves the results of later siblings
unpersisted (`loop/supervisor.ts:3734`); an item with a live advance elsewhere is
selected again in each cycle until the watchdog ends the drive
(`loop/supervisor.ts:3424`); and a head for which no check is reported yet passes
the merge's checks gate (`stages/merge.ts:541`).

## What is proved

All proofs hold for any sets of processes, any contract and any bounds; they
assume only the named `ASSUME`s of the modules (types of the constants, and that
absent values differ from present ones).

- `DetachedRunProofs`, of the lock: `MutexUntilStealHolds`, `NoAbandonedFileHolds`. The
  inductive invariant `LockInv` adds to mutual exclusion that, while nothing
  live was unlinked, a process past `open(wx)` owns the file at the path: mutual
  exclusion alone says nothing about the process that opened and has not written.
  Of the runs: `DetachTypeCorrect`, `OneWorkingHolds`, `EndedOnRecordHolds`,
  `RefusedStaysDownHolds`, `WorkersReapedHolds`, `SentinelFinalHolds` and
  `DetachedMutex`. `StepsOfLock` shows that every step is one of the lock, so
  `LockInv` carries over. `DetachInv` adds that a live wrapper holds the lock from
  handshake to release and that an inner pipeline not cut off lives within that
  time (`HeldInv`): two pipelines would be two holders. `RecordInv` and
  `WorkerInv` say the same of sentinel and workers, stage by stage.
- `LoopRunLockProofs`: `TypeCorrect`, `HolderUnlessDisplacedHolds`. `LockInv` follows a token
  from creation to removal: it is its process's own and not dead; a process
  about to rename has read a dead record or its own; and until a record is
  displaced, the file of an owner is in place.
- `PlanningMarkerProofs`: `TypeCorrect`, `OwnerUnlessIntrudedHolds`. `MarkerInv` says that
  the marker of an owner is its own until an intrusion; uniqueness follows,
  since the marker names one process.
- `LoopScheduleProofs`: `TypeCorrect`, `IndependentUnlessBypassedHolds`,
  `SkipsClosedHolds` and `StopFreezesHolds`. `SelectionInv` carries, through the writes that start
  a batch one item at a time, that the batch is independent and that whatever is
  in progress belongs to it; that a selection is independent rests on
  the greedy choice in contract order (`SelectedIndependent`). `SkipsClosed` is
  shown for the least fixpoint directly: an item that could still be skipped
  would be in it. The action property `StopFreezes` follows from `StopInv`: a
  stopped run is idle or in pass 2, whose steps are then looked at one by one, the
  resume of a stopped run among them.
  Of `SkipPropagation`: `SweepsEnd` and `SkipsExactHolds`, in every
  state, for every dependency graph and order of the contract. `Iteration` and
  `UpToN` replace induction: the values of a bounded recursion exist, and a set of
  numbers with 0 and all successors is `0..N`. A sweep keeps what was skipped, stays
  inside every closed set, and leaves a set alone only if it is closed
  (`SweepSkips`). Each sweep that changes something adds an item, so one of the
  first N + 1 does not (`SweepsEnd`), and where it stops is the least closed set.
- `MergeAttemptProofs`: `TypeCorrect`, `GreenMerges`, `CallsUnderClaim`, `SingleCall` and
  `Refinement` (`ImplementsOperation`). `IInv` joins who is inside the caslock
  (`LockInv`), what claim a process holds at each place (`HoldInv`), the first
  write of the claim (`FirstInv`), that an inspected head still current past the
  checks is green (`HeadInv`), and that calls are single and marked (`CallInv`).
  The last needs the processes about to send, too: a claim is `submitted` before
  its call exists, and a second swap is excluded only by the compare under the
  lock.
- The recovery proofs are three modules, each extending the one before, and hold
  for any recipes, bounds, fingerprints, heads and crashes. `LedgerStep` reduces
  every action to one of three changes of the rows: none, closing started ones, or
  adding the selected recipe's.
  - `RecoveryEpisodesProofs`: `TypeCorrect` and `HistoryGrowsHolds`, from
    `TypeInv` and `LedgerStep`.
  - `RecoveryRowsProofs`: `ProductionOrderHolds` and `ClaimBoundHolds`. `OrderInv`:
    ids are unique, each row stands at its cursor, and no row of an episode lies
    behind the cursor of an earlier one. `ProductionOrder` alone is not inductive,
    since the next row is placed by the cursor of the latest. `BoundInv`: the latest
    row of an episode counts all its claims, superseded ones included (`Counted`),
    so budgets are kept in every behaviour.
  - `RecoveryClaimsProofs`: `ClaimDurableForward`, `OneOutstandingForward`,
    `StartedCompletableForward`, `StrategyBoundHolds`, `StrayedNotRecoveredHolds`
    and `ClaimKeptHolds`.
    `ClaimsOK`: at most one claim is started, it is of the latest block, and
    superseded ones are of candidates that the pull request has left, unless the
    item is done. `DurableInv` and `DeferredInv`: claims that are executed or waited
    for are rows. `StrayInv`: a claim that strayed is of an earlier candidate than
    the present one, so the check of the head after its execution fails; and a
    claim being carried out has not recovered the item before.

  `ClaimsOK`, `DeferredInv` and `StrayInv` need that the pull request does not return to an
  earlier head or label (`revisits = 0`), and the `...Forward` theorems state it:
  all three fail otherwise (as told above, under the violated runs).
  `StrayedNotRecovered` has the condition in it.
  `ClaimKeptHolds` says without that condition what losing a claim needs: a superseded
  latest row of the candidate is the only reason for which a claim is quarantined.
  `StrategyBoundHolds` needs `revisits = 0` or `Backoff`: with a backoff, only claims
  read back from the ledger are executed; without one, a claim that the quarantine
  drops is executed at once, and two returns to the same head are enough to exceed a
  bound of 2.

Every safety property that a passing run checks has a theorem. Only model-checked
are the liveness properties (`ShutdownEnds`, `StaleLockReclaimed`,
`StaleLockRecovered`, `IssueDelivered`, `BlockResolves`, `ClearedHoldRejoins`,
`MergeRecorded`, `PendingSettles`): fairness and `ENABLED` are out of the
prover's reach.

## Not modelled

Within the modelled parts: the review-findings preparation of a recovery, backoff
arithmetic (a deadline may be past or future), pipeline-internal commits (which
move the head but not the candidate), claims made while the head cannot be read,
backlog preconditions, when a hold's authority has gone stale (a free choice in
`LoopSchedule`), and the lifecycle record beside the stop; of the planning arc,
the attestation stage of the readiness gate and the retry bound of
`tryAutoRecover`; of the detached run, the
environment that is handed on and failing writes in the run directory; of the
merge, the path without supervision, which no caller takes, and the text of
observations. Pid reuse is modelled for the issue lock only.

Parts without a module, with the reasons in `PROJECT.json`: merge queue, train,
release and ship are sequences of git and GitHub calls by one process, whose
shared step is the merge of `MergeAttempt`; review, fix and pre-merge stages
decide from the text of comments and model verdicts; handoffs are mostly parsing
and validation, and the loop's side of them is the hold in `LoopSchedule`; the
glob intersection of `loop/ownership.ts` works on strings, and `LoopSchedule` takes
its answer as a constant; the stage-attempt ledger and the parked-run recovery
that depends on it are left out, but for the labels it writes, as is the human side of
`loop/pause.ts` (resume, abandon, handoff). The models cover the code in which
processes meet, which is a small part of the repository's lines.
