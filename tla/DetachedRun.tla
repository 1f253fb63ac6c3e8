---------------------------- MODULE DetachedRun -----------------------------
(***************************************************************************)
(* The detached launcher of core/scripts/detach.ts over the issue-run lock *)
(* of module IssueRunLock: spawnDetached, runWrapper and its termination   *)
(* of children, together with foreground runs under withLock.              *)
(*                                                                         *)
(* A launcher spawns a wrapper.  The wrapper takes the lock, reports it in *)
(* a handshake file, and spawns the inner pipeline in its own process      *)
(* group.  The inner pipeline does not lock again; it starts workers       *)
(* (harnesses, setup commands) that lead process groups of their own.      *)
(* Every step is a step of the lock, or leaves the lock alone.             *)
(***************************************************************************)
EXTENDS IssueRunLock

CONSTANT Wrappers    \* the processes that are wrappers; the others run in the foreground

ASSUME WrappersAssumption == Wrappers \subseteq Proc

VARIABLES
    launch,    \* what each wrapper's launcher is doing
    mark,      \* the handshake file in the run directory
    run,       \* how far each wrapper is
    inner,     \* the wrappers whose inner pipeline lives
    workers,   \* the wrappers a worker of whose inner pipeline lives
    sentinel,  \* sentinel.json in the run directory
    cut,       \* history: wrappers gone although their inner pipeline lived
    orphaned   \* history: wrappers whose inner pipeline left a worker behind that
               \* the wrapper's later looks at the process table do not find

detachVars == <<launch, mark, run, inner, workers, sentinel, cut, orphaned>>
allVars == <<vars, detachVars>>

(***************************************************************************)
(* acquire: until the lock is held; up: handshake written; running: inner  *)
(* spawned, handlers set; term: children told to stop; killed: the inner   *)
(* sent SIGKILL; wait: the descendants found sent it too; exit, release:   *)
(* the exit handler; done, refused: the process only has to end.           *)
(***************************************************************************)
Runs == {"none", "acquire", "refused", "up", "running", "term", "killed", "wait",
         "exit", "release", "done"}

Launches == {"none", "waiting", "killing", "started", "refused", "gone"}
Causes == {"terminated", "timedOut"}

\* Types of the launchers, wrappers and run directories.
DetachTypeOK ==
    /\ TypeOK
    /\ launch \in [Wrappers -> Launches]
    /\ mark \in [Wrappers -> {"none", "acquired", "failed"}]
    /\ run \in [Wrappers -> Runs]
    /\ inner \subseteq Wrappers /\ workers \subseteq Wrappers
    /\ sentinel \in [Wrappers -> Causes \cup {"none", "exited"}]
    /\ cut \subseteq Wrappers /\ orphaned \subseteq Wrappers

DetachInit ==
    /\ Init
    /\ launch = [w \in Wrappers |-> "none"]
    /\ mark = [w \in Wrappers |-> "none"]
    /\ run = [w \in Wrappers |-> "none"]
    /\ inner = {} /\ workers = {}
    /\ sentinel = [w \in Wrappers |-> "none"]
    /\ cut = {} /\ orphaned = {}

In(w, r) == w \in live /\ run[w] = r
To(w, r) == run' = [run EXCEPT ![w] = r]
-----------------------------------------------------------------------------
(* The launcher *)

\* spawnDetached makes a fresh run directory and spawns the wrapper.
Launch(w) ==
    /\ run[w] = "none" /\ Begin(w)
    /\ To(w, "acquire")
    /\ launch' = [launch EXCEPT ![w] = "waiting"]
    /\ UNCHANGED <<mark, inner, workers, sentinel, cut, orphaned>>

\* awaitLockHandshake: the run is reported as started, or the wrapper refused,
\* or the deadline passed without an answer.
Answer(w) ==
    /\ launch[w] = "waiting"
    /\ launch' = [launch EXCEPT ![w] = IF mark[w] = "acquired" THEN "started" ELSE "killing"]
    /\ UNCHANGED <<vars, mark, run, inner, workers, sentinel, cut, orphaned>>

\* The process is gone without a word; what it started is not.
Killed(w) ==
    /\ Crash(w)
    /\ cut' = cut \cup ({w} \cap inner)

\* Before it throws, the launcher sends SIGKILL to the wrapper's process group:
\* the wrapper and its inner pipeline, if they are there, but no worker.
KillGroup_WrapperOnly(w) ==
    /\ launch[w] = "killing"
    /\ launch' = [launch EXCEPT ![w] = "refused"]
    /\ (w \in live /\ Killed(w)) \/ (w \notin live /\ UNCHANGED <<vars, cut>>)
    /\ UNCHANGED <<mark, run, inner, workers, sentinel, orphaned>>

KillGroup(w) ==
    /\ launch[w] = "killing"
    /\ launch' = [launch EXCEPT ![w] = "refused"]
    /\ (w \in live /\ Crash(w)) \/ (w \notin live /\ UNCHANGED vars)
    /\ inner' = inner \ {w}
    /\ orphaned' = orphaned \cup ({w} \cap inner \cap workers)
    /\ UNCHANGED <<mark, run, workers, sentinel, cut>>

\* The launcher dies while it waits; the wrapper goes on.
LauncherDies(w) ==
    /\ launch[w] \in {"waiting", "killing"}
    /\ launch' = [launch EXCEPT ![w] = "gone"]
    /\ UNCHANGED <<vars, mark, run, inner, workers, sentinel, cut, orphaned>>
-----------------------------------------------------------------------------
(* The wrapper, up to the inner pipeline *)

\* acquireWithTimeout: try, and try again until the deadline.
Acquire(w) ==
    /\ run[w] = "acquire"
    /\ Attempt(w) \/ Retry(w)
    /\ UNCHANGED detachVars

\* The deadline passed: .lock-failed is written, then the wrapper exits.
Refused(w) ==
    /\ run[w] = "acquire" /\ GiveUp(w)
    /\ mark' = [mark EXCEPT ![w] = "failed"]
    /\ To(w, "refused")
    /\ UNCHANGED <<launch, inner, workers, sentinel, cut, orphaned>>

\* The lock is held: .lock-acquired is written.
Handshake_NotAwaited(w) ==
    /\ In(w, "acquire")
    /\ mark' = [mark EXCEPT ![w] = "acquired"]
    /\ To(w, "up")
    /\ UNCHANGED <<vars, launch, inner, workers, sentinel, cut, orphaned>>

Handshake(w) ==
    /\ In(w, "acquire") /\ pc[w] = "held"
    /\ mark' = [mark EXCEPT ![w] = "acquired"]
    /\ To(w, "up")
    /\ UNCHANGED <<vars, launch, inner, workers, sentinel, cut, orphaned>>

\* Handlers and watchdog are set and the inner pipeline spawned, in one turn of
\* the event loop.
Spawn(w) ==
    /\ In(w, "up")
    /\ inner' = inner \cup {w}
    /\ To(w, "running")
    /\ UNCHANGED <<vars, launch, mark, workers, sentinel, cut, orphaned>>
-----------------------------------------------------------------------------
(* The inner pipeline and its workers *)

\* A stage starts a harness or a setup command in a process group of its own.
\* withLock runs it at once: the parent holds the lock.
StartWorker(w) ==
    /\ w \in inner \ workers /\ run[w] \in {"running", "term"}
    /\ workers' = workers \cup {w}
    /\ UNCHANGED <<vars, launch, mark, run, inner, sentinel, cut, orphaned>>

WorkerEnds(w) ==
    /\ w \in workers
    /\ workers' = workers \ {w}
    /\ UNCHANGED <<vars, launch, mark, run, inner, sentinel, cut, orphaned>>

\* The inner pipeline finishes, fails or obeys a signal.
InnerEnds(w) ==
    /\ w \in inner
    /\ inner' = inner \ {w}
    /\ orphaned' = IF run[w] \in {"running", "term", "killed"}
                     THEN orphaned \cup ({w} \cap workers) ELSE orphaned
    /\ UNCHANGED <<vars, launch, mark, run, workers, sentinel, cut>>
-----------------------------------------------------------------------------
(* The wrapper, from the inner pipeline to its exit *)

\* doWriteSentinel: the first one is kept.
Sentinel_Last(w, s) == sentinel' = [sentinel EXCEPT ![w] = s]
Sentinel(w, s) ==
    sentinel' = IF sentinel[w] = "none" THEN [sentinel EXCEPT ![w] = s] ELSE sentinel

\* "close" or "error" of the child, when no shutdown is under way: process.exit.
ChildClosed(w) ==
    /\ In(w, "running") /\ w \notin inner
    /\ To(w, "exit")
    /\ UNCHANGED <<vars, launch, mark, inner, workers, sentinel, cut, orphaned>>

\* beginAbnormalShutdown, by a signal, an exception or the watchdog: the
\* sentinel, then SIGTERM to the inner pipeline and to its workers, who may
\* obey it or not.
Shutdown(w, cause) ==
    /\ In(w, "running")
    /\ Sentinel(w, cause)
    /\ To(w, "term")
    /\ UNCHANGED <<vars, launch, mark, inner, workers, cut, orphaned>>

\* descendantProcessGroups finds a worker by its chain of parents, which the
\* death of the inner pipeline cuts.
Descendants(w) == {w} \cap inner \cap workers

\* waitForClose within the grace, then SIGKILL for the descendants found.
SoftExit(w) ==
    /\ In(w, "term") /\ w \notin inner
    /\ workers' = workers \ Descendants(w)
    /\ To(w, "exit")
    /\ UNCHANGED <<vars, launch, mark, inner, sentinel, cut, orphaned>>

\* The grace is over: SIGKILL to the inner pipeline, which takes effect later ...
GraceOver(w) ==
    /\ In(w, "term") /\ w \in inner
    /\ To(w, "killed")
    /\ UNCHANGED <<vars, launch, mark, inner, workers, sentinel, cut, orphaned>>

\* ... and then to the descendants a new process table shows.
KillDescendants_Skipped(w) ==
    /\ In(w, "killed")
    /\ To(w, "wait")
    /\ UNCHANGED <<vars, launch, mark, inner, workers, sentinel, cut, orphaned>>

KillDescendants(w) ==
    /\ In(w, "killed")
    /\ workers' = workers \ Descendants(w)
    /\ To(w, "wait")
    /\ UNCHANGED <<vars, launch, mark, inner, sentinel, cut, orphaned>>

\* The second wait ends with the child's exit or without it ("unconfirmed").
HardExit_Unbounded(w) ==
    /\ In(w, "wait") /\ w \notin inner
    /\ To(w, "exit")
    /\ UNCHANGED <<vars, launch, mark, inner, workers, sentinel, cut, orphaned>>

HardExit(w) ==
    /\ In(w, "wait")
    /\ To(w, "exit")
    /\ cut' = cut \cup ({w} \cap inner)
    /\ UNCHANGED <<vars, launch, mark, inner, workers, sentinel, orphaned>>

\* The exit handler: the sentinel, unless there is one ...
ExitSentinel_Omitted(w) ==
    /\ In(w, "exit")
    /\ To(w, "release")
    /\ UNCHANGED <<vars, launch, mark, inner, workers, sentinel, cut, orphaned>>

ExitSentinel(w) ==
    /\ In(w, "exit")
    /\ Sentinel(w, "exited")
    /\ To(w, "release")
    /\ UNCHANGED <<vars, launch, mark, inner, workers, cut, orphaned>>

\* ... then the lock.
ExitRelease(w) ==
    /\ In(w, "release") /\ Release(w)
    /\ To(w, "done")
    /\ UNCHANGED <<launch, mark, inner, workers, sentinel, cut, orphaned>>

\* The process that has nothing left to do is gone.
Gone(w) ==
    /\ run[w] \in {"refused", "done"} /\ Crash(w)
    /\ UNCHANGED detachVars

\* A wrapper dies anywhere before that: killed, or by SIGTERM while it has no
\* handler yet.
WrapperDies(w) ==
    /\ run[w] \notin {"none", "refused", "done"} /\ Killed(w)
    /\ UNCHANGED <<launch, mark, run, inner, workers, sentinel, orphaned>>

WrapperStep(w) ==
    \/ Acquire(w) \/ Handshake(w) \/ Spawn(w) \/ ChildClosed(w)
    \/ SoftExit(w) \/ GraceOver(w) \/ KillDescendants(w) \/ HardExit(w)
    \/ ExitSentinel(w) \/ ExitRelease(w) \/ Gone(w)

\* withLock in the foreground: no retry, and the lock is the process's own.
Foreground(p) ==
    /\ Begin(p) \/ Attempt(p) \/ GiveUp(p) \/ Release(p) \/ Crash(p)
    /\ UNCHANGED detachVars

DetachNext ==
    \/ \E w \in Wrappers :
         \/ Launch(w) \/ Answer(w) \/ KillGroup(w) \/ LauncherDies(w)
         \/ Acquire(w) \/ Refused(w) \/ Handshake(w) \/ Spawn(w)
         \/ StartWorker(w) \/ WorkerEnds(w) \/ InnerEnds(w)
         \/ ChildClosed(w) \/ SoftExit(w) \/ GraceOver(w) \/ KillDescendants(w)
         \/ HardExit(w) \/ ExitSentinel(w) \/ ExitRelease(w) \/ Gone(w)
         \/ WrapperDies(w)
         \/ \E cause \in Causes : Shutdown(w, cause)
    \/ \E p \in Proc \ Wrappers : Foreground(p)
    \/ \E p \in Proc : Recycle(p) /\ UNCHANGED detachVars

(***************************************************************************)
(* acquire runs on, and a wrapper whose child closed or whose timer fired  *)
(* runs on.  No one else is obliged to do anything.                        *)
(***************************************************************************)
DetachSpec ==
    /\ DetachInit /\ [][DetachNext]_allVars
    /\ \A w \in Wrappers : WF_allVars(WrapperStep(w))
    /\ \A p \in Proc \ Wrappers : WF_allVars(Attempt(p) /\ UNCHANGED detachVars)
-----------------------------------------------------------------------------
\* Who is working on the issue: foreground runs that hold the lock, and inner pipelines.
Working == (Holders \ Wrappers) \cup inner

\* Two pipelines work on the issue at the same time only after a live lock was
\* unlinked, or once the wrapper of one of them is gone or gave up on it: no
\* order of handshake, signals, timers and exits lets a second one in (runWrapper).
OneWorking == \A p, q \in Working : p = q \/ stolen \/ {p, q} \cap cut # {}

\* A wrapper that ran to its end, on whichever path, left a sentinel, and its
\* inner pipeline had ended or was given up on (the exit handler of runWrapper).
EndedOnRecord ==
    \A w \in Wrappers : run[w] = "done" => sentinel[w] # "none" /\ (w \in inner => w \in cut)

\* When the launcher reports that the issue is already running, nothing of its own
\* launch runs or will run, even if the lock came just after the deadline (spawnDetached).
RefusedStaysDown ==
    \A w \in Wrappers : launch[w] = "refused" => w \notin live /\ w \notin inner

\* A worker outlives a shutdown only as an orphan, its inner pipeline having died
\* before the wrapper looked for descendants (terminateWrapperChildren).
WorkersReaped ==
    \A w \in workers : run[w] = "done" /\ sentinel[w] \in Causes => w \in orphaned

\* A sentinel that was written is never replaced: a run that timed out is not
\* later recorded as one that exited (doWriteSentinel).
SentinelFinal ==
    [][\A w \in Wrappers : sentinel[w] # "none" => sentinel'[w] = sentinel[w]]_allVars

\* A wrapper that was told to stop is gone in the end, whatever its children do,
\* and unless it was killed its lock is released (beginAbnormalShutdown).
ShutdownEnds ==
    \A w \in Wrappers :
        In(w, "term") ~>
            /\ w \notin live
            /\ run[w] = "done" => file = NoFile \/ file.owner # w
=============================================================================
