------------------------- MODULE DetachedRunProofs --------------------------
(***************************************************************************)
(* Proofs about the issue-run mutex, and about the detached and foreground *)
(* runs that use it, for any number of each.  Every step of a run is a     *)
(* step of the lock, so what is proved of the lock holds of the runs; the  *)
(* rest follows from where a wrapper stands while its inner pipeline lives.*)
(***************************************************************************)
EXTENDS DetachedRun, TLAPS

-----------------------------------------------------------------------------
(* The lock *)

\* While nothing was stolen, whoever is past open(wx) owns the file at the path.
OwnsWhatItOpened ==
    \A p \in Proc : ~stolen /\ p \in live /\ pc[p] \in {"opened", "held"}
                       => file # NoFile /\ file.owner = p

LockInv == TypeOK /\ NoAbandonedFile /\ OwnsWhatItOpened

\* A record is not the value NoFile: the path holds a file or it does not.
LEMMA FileCases ==
    ASSUME TypeOK, file # NoFile
    PROVE  file.owner \in Proc /\ file.body \in Proc \cup {Empty}
  BY Zenon DEF TypeOK, Files

\* The invariant holds before any process has started.
LEMMA LockInvInit == Init => LockInv
  BY Zenon, ProcAssumption DEF Init, LockInv, TypeOK, Locations, NoAbandonedFile, OwnsWhatItOpened

\* Every system call of every process, and every death, preserves the invariant.
LEMMA LockInvStep == LockInv /\ [Next]_vars => LockInv'
<1> SUFFICES ASSUME LockInv, [Next]_vars PROVE LockInv'
  OBVIOUS
<1> USE ProcAssumption DEF LockInv, TypeOK, Locations, NoAbandonedFile, OwnsWhatItOpened, At, Goto
<1>1. CASE UNCHANGED vars
  BY Zenon, <1>1 DEF vars
<1>2. ASSUME NEW p \in Proc, Begin(p) PROVE LockInv'
  BY Zenon, <1>2 DEF Begin
<1>3. ASSUME NEW p \in Proc, Open(p) PROVE LockInv'
  <2>1. CASE file = NoFile
    <3> DEFINE f == [owner |-> p, body |-> Empty]
    <3>1. file' = f /\ f \in Files /\ f.owner = p
      BY Zenon, <1>3, <2>1 DEF Open, Creatable, Files
    <3>2. TypeOK'
      BY Zenon, <1>3, <2>1, <3>1 DEF Open, Creatable
    <3>3. pc'[p] = "opened" /\ \A q \in Proc \ {p} : pc'[q] = pc[q]
      BY Zenon, <1>3, <2>1 DEF Open, Creatable
    <3> QED
      BY Zenon, <1>3, <2>1, <3>1, <3>2, <3>3 DEF Open, Creatable
  <2>2. CASE file # NoFile
    BY SMTT(60), <1>3, <2>2 DEF Open, Creatable
  <2> QED
    BY Zenon, <2>1, <2>2
<1>4. ASSUME NEW p \in Proc, WriteMarker(p) PROVE LockInv'
  <2>1. CASE file # NoFile /\ file.owner = p
    <3>1. file' \in Files /\ file'.owner = p
      BY SMTT(60), <1>4, <2>1 DEF WriteMarker, Files
    <3> QED
      BY Zenon, <1>4, <2>1, <3>1, FileCases DEF WriteMarker
  <2>2. CASE ~(file # NoFile /\ file.owner = p)
    BY Zenon, <1>4, <2>2 DEF WriteMarker
  <2> QED
    BY Zenon, <2>1, <2>2
<1>5. ASSUME NEW p \in Proc, ReadExisting(p) PROVE LockInv'
  <2>1. file # NoFile /\ file.body # Empty => file.body \in Proc
    BY Zenon, FileCases
  <2> QED
    BY <1>5, <2>1 DEF ReadExisting, Garbage
<1>6. ASSUME NEW p \in Proc, Probe(p) PROVE LockInv'
  BY Zenon, <1>6 DEF Probe
<1>7. ASSUME NEW p \in Proc, RemoveStale(p) PROVE LockInv'
  <2>1. ASSUME ~stolen', NEW q \in Proc, q \in live', pc'[q] \in {"opened", "held"}
        PROVE  FALSE
    <3>1. ~stolen /\ q \in live /\ pc[q] \in {"opened", "held"}
      BY Zenon, <1>7, <2>1 DEF RemoveStale
    <3>2. file # NoFile /\ file.owner = q
      BY Zenon, <3>1
    <3> QED BY Zenon, <1>7, <2>1, <3>1, <3>2 DEF RemoveStale
  <2> QED
    BY Zenon, <1>7, <2>1 DEF RemoveStale
<1>8. ASSUME NEW p \in Proc, Retry(p) PROVE LockInv'
  BY Zenon, <1>8 DEF Retry
<1>9. ASSUME NEW p \in Proc, GiveUp(p) PROVE LockInv'
  BY Zenon, <1>9 DEF GiveUp
<1>10. ASSUME NEW p \in Proc, Release(p) PROVE LockInv'
  BY Zenon, <1>10 DEF Release
<1>11. ASSUME NEW p \in Proc, Crash(p) PROVE LockInv'
  BY Zenon, <1>11 DEF Crash
<1>12. ASSUME NEW p \in Proc, Recycle(p) PROVE LockInv'
  BY Zenon, <1>12 DEF Recycle
<1> QED
  BY Zenon, <1>1, <1>2, <1>3, <1>4, <1>5, <1>6, <1>7, <1>8, <1>9, <1>10, <1>11, <1>12 DEF Next

\* LockInv holds in every reachable state.
LEMMA LockInvariant == Spec => []LockInv
  BY LockInvInit, LockInvStep, PTL DEF Spec

\* Until removeStale unlinks the lock file of a live process, at most one live
\* process holds the lock, whatever dies and whichever stale locks are removed.
THEOREM MutexUntilStealHolds == Spec => []MutexUntilSteal
<1>1. LockInv => MutexUntilSteal
  BY Zenon DEF LockInv, OwnsWhatItOpened, MutexUntilSteal, MutualExclusion, Holders, TypeOK
<1> QED
  BY <1>1, LockInvariant, PTL

\* A live process never leaves its own lock file behind: release() and the
\* finally of withLock cover every way out of the critical section.
THEOREM NoAbandonedFileHolds == Spec => []NoAbandonedFile
<1>1. LockInv => NoAbandonedFile
  BY Zenon DEF LockInv
<1> QED
  BY <1>1, LockInvariant, PTL

-----------------------------------------------------------------------------
(* The runs *)

\* The wrapper has the lock from the handshake to its release.
Tenure == {"up", "running", "term", "killed", "wait", "exit", "release"}

DetachTypes ==
    /\ launch \in [Wrappers -> Launches]
    /\ mark \in [Wrappers -> {"none", "acquired", "failed"}]
    /\ run \in [Wrappers -> Runs]
    /\ inner \subseteq Wrappers /\ workers \subseteq Wrappers
    /\ sentinel \in [Wrappers -> Causes \cup {"none", "exited"}]
    /\ cut \subseteq Wrappers /\ orphaned \subseteq Wrappers

\* A live wrapper keeps the lock for its tenure, and its inner pipeline lives
\* within it, unless the wrapper is gone or gave up on it.
HeldInv ==
    /\ \A w \in Wrappers : w \in live /\ run[w] \in Tenure => pc[w] = "held"
    /\ \A w \in inner \ cut : w \in live /\ run[w] \in {"running", "term", "killed", "wait"}

\* There is a sentinel from the moment the exit handler has run, and none
\* before a shutdown or the exit handler.
RecordInv ==
    \A w \in Wrappers :
        /\ run[w] \in {"release", "done"} => sentinel[w] # "none"
        /\ run[w] \in {"none", "acquire", "refused", "up", "running"} => sentinel[w] = "none"

\* Nothing runs before it was spawned, and a worker without an inner pipeline
\* is an orphan until the wrapper has looked at the process table for the last time.
WorkerInv ==
    \A w \in Wrappers :
        /\ run[w] \in {"none", "acquire", "refused", "up"} => w \notin inner \cup workers
        /\ run[w] \in {"running", "term", "killed"} /\ w \in workers
             => w \in inner \cup orphaned
        /\ run[w] \in {"wait", "exit", "release", "done"} /\ w \in workers
           /\ sentinel[w] \in Causes => w \in orphaned

DetachInv ==
    LockInv /\ DetachTypes /\ HeldInv /\ RecordInv /\ WorkerInv /\ RefusedStaysDown

\* What a step of one process does to the others.
Others(p) ==
    /\ \A q \in Proc \ {p} : pc'[q] = pc[q] /\ (q \in live' <=> q \in live)
    /\ live' \subseteq live

\* A step of one process on the lock leaves the others where they are.
LEMMA OwnStep ==
    ASSUME LockInv, NEW p \in Proc,
           Begin(p) \/ Attempt(p) \/ Retry(p) \/ GiveUp(p) \/ Release(p) \/ Crash(p)
    PROVE  Others(p)
  BY SMTT(60) DEF LockInv, TypeOK, Begin, Attempt, Open, WriteMarker, ReadExisting, Probe, RemoveStale,
         Retry, GiveUp, Release, Crash, Goto, Others

\* Every step of the composition is a step of the lock or leaves it alone.
LEMMA StepsOfLock == [DetachNext]_allVars => [Next]_vars
<1> SUFFICES ASSUME [DetachNext]_allVars PROVE [Next]_vars
  OBVIOUS
<1> USE WrappersAssumption
<1>1. CASE UNCHANGED allVars
  BY Zenon, <1>1 DEF allVars
<1>2. ASSUME NEW w \in Wrappers,
             Launch(w) \/ Acquire(w) \/ Refused(w) \/ ExitRelease(w) \/ Gone(w) \/ WrapperDies(w)
      PROVE  Next
  <2>1. w \in Proc
    OBVIOUS
  <2>2. Begin(w) \/ Attempt(w) \/ Retry(w) \/ GiveUp(w) \/ Release(w) \/ Crash(w)
    BY Zenon, <1>2 DEF Launch, Acquire, Refused, ExitRelease, Gone, WrapperDies, Killed
  <2> QED
    BY Zenon, <2>1, <2>2 DEF Next, Attempt
<1>3. ASSUME NEW w \in Wrappers, KillGroup(w) PROVE [Next]_vars
  <2>1. w \in Proc
    OBVIOUS
  <2> QED
    BY Zenon, <1>3, <2>1 DEF KillGroup, Next
<1>4. ASSUME NEW w \in Wrappers,
             \/ Answer(w) \/ LauncherDies(w) \/ Handshake(w) \/ Spawn(w) \/ StartWorker(w)
             \/ WorkerEnds(w) \/ InnerEnds(w) \/ ChildClosed(w) \/ SoftExit(w) \/ GraceOver(w)
             \/ KillDescendants(w) \/ HardExit(w) \/ ExitSentinel(w)
             \/ \E cause \in Causes : Shutdown(w, cause)
      PROVE  UNCHANGED vars
  BY Zenon, <1>4 DEF Answer, LauncherDies, Handshake, Spawn, StartWorker, WorkerEnds, InnerEnds,
              ChildClosed, SoftExit, GraceOver, KillDescendants, HardExit, ExitSentinel, Shutdown
<1>5. ASSUME NEW p \in Proc \ Wrappers, Foreground(p) PROVE Next
  BY Zenon, <1>5 DEF Foreground, Next, Attempt
<1>6. ASSUME NEW p \in Proc, Recycle(p) PROVE Next
  BY Zenon, <1>6 DEF Next
<1> QED
  BY Zenon, <1>1, <1>2, <1>3, <1>4, <1>5, <1>6 DEF DetachNext

\* The invariant holds before any launch.
LEMMA DetachInitHolds == DetachInit => DetachInv
<1> SUFFICES ASSUME DetachInit PROVE DetachInv
  OBVIOUS
<1>1. LockInv
  BY Zenon, LockInvInit DEF DetachInit
<1> QED
  BY Zenon, <1>1 DEF DetachInit, DetachInv, DetachTypes, HeldInv, RecordInv, WorkerInv,
              RefusedStaysDown, Launches, Runs, Causes, Tenure

\* The launcher's steps.
LEMMA LauncherSteps ==
    ASSUME DetachInv, NEW w \in Wrappers,
           Launch(w) \/ Answer(w) \/ KillGroup(w) \/ LauncherDies(w)
    PROVE  DetachTypes' /\ HeldInv' /\ RecordInv' /\ WorkerInv' /\ RefusedStaysDown'
<1> USE WrappersAssumption DEF DetachInv, DetachTypes, HeldInv, RecordInv, WorkerInv,
        RefusedStaysDown, Launches, Runs, Causes, Tenure, To, In
<1>0. w \in Proc /\ pc \in [Proc -> Locations]
  BY Zenon DEF LockInv, TypeOK
<1>1. CASE Launch(w)
  <2>1. Others(w) /\ At(w, "idle") /\ live' = live
    BY Zenon, <1>0, <1>1, OwnStep DEF Launch, Begin
  <2> HIDE DEF Others
  <2> QED
    BY SMTT(60), <1>0, <1>1, <2>1 DEF Launch, Others, At
<1>2. CASE Answer(w)
  BY Zenon, <1>2 DEF Answer, vars
<1>3. CASE KillGroup(w)
  <2>1. CASE w \in live /\ Crash(w)
    <3>1. Others(w) /\ w \notin live'
      BY Zenon, <1>0, <2>1, OwnStep DEF Crash
    <3> QED
      BY <1>0, <1>3, <3>1 DEF KillGroup, Others
  <2>2. CASE w \notin live /\ UNCHANGED vars
    BY Zenon, <1>3, <2>2 DEF KillGroup, vars
  <2> QED
    BY Zenon, <1>3, <2>1, <2>2 DEF KillGroup
<1>4. CASE LauncherDies(w)
  BY Zenon, <1>4 DEF LauncherDies, vars
<1> HIDE DEF DetachInv, DetachTypes, HeldInv, RecordInv, WorkerInv, RefusedStaysDown
<1> QED
  BY Zenon, <1>1, <1>2, <1>3, <1>4

\* The wrapper's steps up to the inner pipeline, and its death.
LEMMA WrapperStarts ==
    ASSUME DetachInv, NEW w \in Wrappers,
           \/ Acquire(w) \/ Refused(w) \/ Handshake(w) \/ Spawn(w)
           \/ ExitRelease(w) \/ Gone(w) \/ WrapperDies(w)
    PROVE  DetachTypes' /\ HeldInv' /\ RecordInv' /\ WorkerInv' /\ RefusedStaysDown'
<1> USE WrappersAssumption DEF DetachInv, DetachTypes, HeldInv, RecordInv, WorkerInv,
        RefusedStaysDown, Launches, Runs, Causes, Tenure, To, In
<1>0. w \in Proc
  OBVIOUS
<1>1. CASE Acquire(w)
  <2>1. Others(w)
    BY Zenon, <1>0, <1>1, OwnStep DEF Acquire
  <2> QED
    BY Zenon, <1>0, <1>1, <2>1 DEF Acquire, Others, detachVars
<1>2. CASE Refused(w)
  <2>1. Others(w)
    BY Zenon, <1>0, <1>2, OwnStep DEF Refused
  <2> QED
    BY SMTT(60), <1>0, <1>2, <2>1 DEF Refused, Others
<1>3. CASE Handshake(w)
  BY SMTT(60), <1>3 DEF Handshake, vars
<1>4. CASE Spawn(w)
  BY SMTT(60), <1>4 DEF Spawn, vars
<1>5. CASE ExitRelease(w)
  <2>1. Others(w)
    BY Zenon, <1>0, <1>5, OwnStep DEF ExitRelease
  <2> QED
    BY SMTT(60), <1>0, <1>5, <2>1 DEF ExitRelease, Others
<1>6. CASE Gone(w)
  <2>1. Others(w) /\ w \notin live'
    BY Zenon, <1>0, <1>6, OwnStep DEF Gone, Crash
  <2> QED
    BY Zenon, <1>0, <1>6, <2>1 DEF Gone, Others, detachVars
<1>7. CASE WrapperDies(w)
  <2>1. Others(w) /\ w \notin live'
    BY Zenon, <1>0, <1>7, OwnStep DEF WrapperDies, Killed, Crash
  <2> QED
    BY Zenon, <1>0, <1>7, <2>1 DEF WrapperDies, Killed, Others
<1> HIDE DEF DetachInv, DetachTypes, HeldInv, RecordInv, WorkerInv, RefusedStaysDown
<1> QED
  BY Zenon, <1>1, <1>2, <1>3, <1>4, <1>5, <1>6, <1>7

\* The inner pipeline, its workers, and the wrapper's way to its exit.
LEMMA WrapperEnds ==
    ASSUME DetachInv, NEW w \in Wrappers,
           \/ StartWorker(w) \/ WorkerEnds(w) \/ InnerEnds(w) \/ ChildClosed(w)
           \/ \E cause \in Causes : Shutdown(w, cause)
           \/ SoftExit(w) \/ GraceOver(w) \/ KillDescendants(w) \/ HardExit(w) \/ ExitSentinel(w)
    PROVE  DetachTypes' /\ HeldInv' /\ RecordInv' /\ WorkerInv' /\ RefusedStaysDown'
<1> USE DEF DetachInv, DetachTypes, HeldInv, RecordInv, WorkerInv,
        RefusedStaysDown, Launches, Runs, Causes, Tenure, To, In, vars
<1>1. CASE StartWorker(w)
  BY Zenon, <1>1 DEF StartWorker
<1>2. CASE WorkerEnds(w)
  BY Zenon, <1>2 DEF WorkerEnds
<1>3. CASE InnerEnds(w)
  BY Zenon, <1>3 DEF InnerEnds
<1>4. CASE ChildClosed(w)
  BY SMTT(60), <1>4 DEF ChildClosed
<1>5. ASSUME NEW cause \in Causes, Shutdown(w, cause)
      PROVE  DetachTypes' /\ HeldInv' /\ RecordInv' /\ WorkerInv' /\ RefusedStaysDown'
  BY <1>5 DEF Shutdown, Sentinel
<1>6. CASE SoftExit(w)
  BY SMTT(60), <1>6 DEF SoftExit, Descendants
<1>7. CASE GraceOver(w)
  BY SMTT(60), <1>7 DEF GraceOver
<1>8. CASE KillDescendants(w)
  BY SMTT(60), <1>8 DEF KillDescendants, Descendants
<1>9. CASE HardExit(w)
  BY SMTT(60), <1>9 DEF HardExit
<1>10. CASE ExitSentinel(w)
  BY SMTT(60), <1>10 DEF ExitSentinel, Sentinel
<1> HIDE DEF DetachInv, DetachTypes, HeldInv, RecordInv, WorkerInv, RefusedStaysDown
<1> QED
  BY Zenon, <1>1, <1>2, <1>3, <1>4, <1>5, <1>6, <1>7, <1>8, <1>9, <1>10

\* Foreground runs, and the reuse of pids, leave the wrappers alone.
LEMMA OtherSteps ==
    ASSUME DetachInv, UNCHANGED detachVars,
           \/ \E p \in Proc \ Wrappers : Foreground(p)
           \/ \E p \in Proc : Recycle(p)
           \/ UNCHANGED vars
    PROVE  DetachTypes' /\ HeldInv' /\ RecordInv' /\ WorkerInv' /\ RefusedStaysDown'
<1> USE WrappersAssumption DEF DetachInv, DetachTypes, HeldInv, RecordInv, WorkerInv,
        RefusedStaysDown, detachVars
<1> DEFINE Same == \A w \in Wrappers : pc'[w] = pc[w] /\ (w \in live' <=> w \in live)
<1>1. Same
  <2>1. ASSUME NEW p \in Proc \ Wrappers, Foreground(p) PROVE Same
    BY Zenon, <2>1, OwnStep DEF Foreground, Others
  <2>2. ASSUME NEW p \in Proc, Recycle(p) PROVE Same
    BY Zenon, <2>2 DEF Recycle
  <2>3. CASE UNCHANGED vars
    BY Zenon, <2>3 DEF vars
  <2> QED
    BY Zenon, <2>1, <2>2, <2>3
<1> QED
  BY Zenon, <1>1

\* Every step of launchers, wrappers, inner pipelines, workers and foreground
\* runs preserves the invariant.
LEMMA DetachInductive == DetachInv /\ [DetachNext]_allVars => DetachInv'
<1> SUFFICES ASSUME DetachInv, [DetachNext]_allVars PROVE DetachInv'
  OBVIOUS
<1>1. LockInv'
  BY Zenon, StepsOfLock, LockInvStep DEF DetachInv
<1> DEFINE Rest == DetachTypes /\ HeldInv /\ RecordInv /\ WorkerInv /\ RefusedStaysDown
<1>2. ASSUME NEW w \in Wrappers, Launch(w) \/ Answer(w) \/ KillGroup(w) \/ LauncherDies(w)
      PROVE  Rest'
  BY Zenon, <1>2, LauncherSteps
<1>3. ASSUME NEW w \in Wrappers,
             \/ Acquire(w) \/ Refused(w) \/ Handshake(w) \/ Spawn(w)
             \/ ExitRelease(w) \/ Gone(w) \/ WrapperDies(w)
      PROVE  Rest'
  BY Zenon, <1>3, WrapperStarts
<1>4. ASSUME NEW w \in Wrappers,
             \/ StartWorker(w) \/ WorkerEnds(w) \/ InnerEnds(w) \/ ChildClosed(w)
             \/ \E cause \in Causes : Shutdown(w, cause)
             \/ SoftExit(w) \/ GraceOver(w) \/ KillDescendants(w) \/ HardExit(w) \/ ExitSentinel(w)
      PROVE  Rest'
  BY Zenon, <1>4, WrapperEnds
<1>5. ASSUME \/ \E p \in Proc \ Wrappers : Foreground(p)
             \/ \E p \in Proc : Recycle(p) /\ UNCHANGED detachVars
             \/ UNCHANGED allVars
      PROVE  Rest'
  <2>1. UNCHANGED detachVars
    BY Zenon, <1>5 DEF Foreground, allVars
  <2> QED
    BY Zenon, <1>5, <2>1, OtherSteps DEF allVars
<1>6. Rest'
  <2> HIDE DEF Rest
  <2> QED
    BY Zenon, <1>2, <1>3, <1>4, <1>5 DEF DetachNext
<1> QED
  BY Zenon, <1>1, <1>6 DEF DetachInv

\* The inductive invariant, for any number of wrappers and foreground runs.
THEOREM DetachInvariance == DetachSpec => []DetachInv
  BY DetachInitHolds, DetachInductive, PTL DEF DetachSpec

\* Two pipelines work on an issue together only after a live lock was unlinked,
\* or when the wrapper of one is gone or gave up on it (runWrapper, withLock):
\* without that, both are holders of the lock, and the lock has one.
THEOREM OneWorkingHolds == DetachSpec => []OneWorking
<1>1. DetachInv => OneWorking
  <2> SUFFICES ASSUME DetachInv, NEW p \in Working, NEW q \in Working,
                      ~stolen, p \notin cut, q \notin cut
               PROVE  p = q
    BY Zenon DEF OneWorking
  <2>1. p \in Holders /\ q \in Holders
    BY Zenon DEF Working, DetachInv, HeldInv, DetachTypes, Holders, Tenure
  <2>2. MutexUntilSteal
    BY Zenon DEF DetachInv, LockInv, OwnsWhatItOpened, MutexUntilSteal, MutualExclusion, Holders, TypeOK
  <2> QED
    BY Zenon, <2>1, <2>2 DEF MutexUntilSteal, MutualExclusion
<1> QED
  BY <1>1, DetachInvariance, PTL

\* A wrapper that ran to its end left a sentinel, and its inner pipeline had
\* ended or was given up on (the exit handler of runWrapper).
THEOREM EndedOnRecordHolds == DetachSpec => []EndedOnRecord
<1>1. DetachInv => EndedOnRecord
  BY Zenon DEF DetachInv, HeldInv, RecordInv, EndedOnRecord
<1> QED
  BY <1>1, DetachInvariance, PTL

\* Nothing of a refused launch runs (spawnDetached).
THEOREM RefusedStaysDownHolds == DetachSpec => []RefusedStaysDown
<1>1. DetachInv => RefusedStaysDown
  BY Zenon DEF DetachInv
<1> QED
  BY <1>1, DetachInvariance, PTL

\* A worker outlives a shutdown only as an orphan (terminateWrapperChildren).
THEOREM WorkersReapedHolds == DetachSpec => []WorkersReaped
<1>1. DetachInv => WorkersReaped
  BY Zenon DEF DetachInv, DetachTypes, WorkerInv, WorkersReaped
<1> QED
  BY <1>1, DetachInvariance, PTL

\* The composition keeps the promise of the lock: two processes hold it only
\* after the file of a live one was unlinked (removeStale).
THEOREM DetachedMutex == DetachSpec => []MutexUntilSteal
<1>1. DetachInv => MutexUntilSteal
  BY Zenon DEF DetachInv, LockInv, OwnsWhatItOpened, MutexUntilSteal, MutualExclusion, Holders, TypeOK
<1> QED
  BY <1>1, DetachInvariance, PTL

\* A sentinel that was written is never replaced (doWriteSentinel).
THEOREM SentinelFinalHolds == DetachSpec => SentinelFinal
<1> DEFINE Final == \A w \in Wrappers : sentinel[w] # "none" => sentinel'[w] = sentinel[w]
<1>1. ASSUME DetachInv, [DetachNext]_allVars PROVE Final
  <2>1. ASSUME NEW w \in Wrappers, \E cause \in Causes : Shutdown(w, cause) PROVE Final
    BY Zenon, <1>1, <2>1 DEF Shutdown, Sentinel, DetachInv, DetachTypes
  <2>2. ASSUME NEW w \in Wrappers, ExitSentinel(w) PROVE Final
    BY Zenon, <1>1, <2>2 DEF ExitSentinel, Sentinel, DetachInv, DetachTypes
  <2>3. ASSUME NEW w \in Wrappers,
               \/ Launch(w) \/ Answer(w) \/ KillGroup(w) \/ LauncherDies(w)
               \/ Acquire(w) \/ Refused(w) \/ Handshake(w) \/ Spawn(w)
               \/ StartWorker(w) \/ WorkerEnds(w) \/ InnerEnds(w)
               \/ ChildClosed(w) \/ SoftExit(w) \/ GraceOver(w) \/ KillDescendants(w)
               \/ HardExit(w) \/ ExitRelease(w) \/ Gone(w) \/ WrapperDies(w)
        PROVE  Final
    <3>1. UNCHANGED sentinel
      BY Zenon, <2>3 DEF Launch, Answer, KillGroup, LauncherDies, Acquire, Refused, Handshake,
         Spawn, StartWorker, WorkerEnds, InnerEnds, ChildClosed, SoftExit, GraceOver,
         KillDescendants, HardExit, ExitRelease, Gone, WrapperDies, detachVars
    <3> QED
      BY Zenon, <3>1
  <2>4. ASSUME \/ \E p \in Proc \ Wrappers : Foreground(p)
               \/ \E p \in Proc : Recycle(p) /\ UNCHANGED detachVars
               \/ UNCHANGED allVars
        PROVE  Final
    BY Zenon, <2>4 DEF Foreground, detachVars, allVars
  <2> HIDE DEF Final
  <2> QED
    BY Zenon, <1>1, <2>1, <2>2, <2>3, <2>4 DEF DetachNext
<1> QED
  BY <1>1, DetachInvariance, PTL DEF DetachSpec, SentinelFinal

\* The wrappers' launches, marks, runs and sentinels keep their types, as do the
\* lock and the pids under them, for any number of processes (DetachTypeOK).
THEOREM DetachTypeCorrect == DetachSpec => []DetachTypeOK
<1>1. DetachInv => DetachTypeOK
  BY Zenon DEF DetachInv, LockInv, DetachTypes, DetachTypeOK
<1> QED
  BY <1>1, DetachInvariance, PTL
=============================================================================
