---------------------------- MODULE IssueRunLock ----------------------------
(***************************************************************************)
(* The host-local issue-run mutex of core/scripts/lock.ts: the class       *)
(* PipelineLock and withLock, for one lock path.                           *)
(*                                                                         *)
(* The lock is a file.  open(path, "wx") creates it empty, a later write   *)
(* puts the creator's pid in it, and anybody may unlink the path.  Every   *)
(* system call is one action, so two processes interleave between calls.   *)
(* A write goes to the descriptor: once the path was unlinked by another   *)
(* process it changes nothing at the path.                                 *)
(***************************************************************************)
EXTENDS Naturals, FiniteSets

CONSTANTS Proc,      \* process instances; each lives once and has its own pid
          Former,    \* those that died before; one may have left its lock file
          NoFile,    \* the lock path does not exist
          Empty      \* the body of a lock file that was created, not yet written

\* A lock file: who created it, and the pid written in it.
Files == [owner : Proc, body : Proc \cup {Empty}]

ASSUME ProcAssumption == NoFile \notin Files /\ Empty \notin Proc /\ Former \subseteq Proc

VARIABLES
    file,      \* NoFile, or [owner, body]: the file at the lock path
    pc,        \* where each process is
    seen,      \* the pid a process read from the file and is about to probe, else its own
    live,      \* the processes that have not died
    recycled,  \* dead pids the host has given to an unrelated process
    stolen     \* history: has removeStale unlinked the lock file of a live process

vars == <<file, pc, seen, live, recycled, stolen>>

(***************************************************************************)
(* idle: no attempt; open: about to call open; opened: created, marker not *)
(* yet written; exists: open failed with EEXIST; probe: about to signal    *)
(* the pid read; unlink: judged the lock stale; sleep: refused by a live   *)
(* holder, before the next try; held: this.acquired.                       *)
(***************************************************************************)
Locations == {"idle", "open", "opened", "exists", "probe", "unlink", "sleep", "held"}

\* Types of the lock file and of the processes.
TypeOK ==
    /\ file \in Files \cup {NoFile}
    /\ pc \in [Proc -> Locations]
    /\ seen \in [Proc -> Proc]
    /\ live \subseteq Proc
    /\ recycled \subseteq Proc \ live
    /\ stolen \in BOOLEAN

Init ==
    /\ file \in {f \in Files : f.owner \in Former /\ f.body \in {f.owner, Empty}} \cup {NoFile}
    /\ pc = [p \in Proc |-> "idle"]
    /\ seen = [p \in Proc |-> p]
    /\ live = Proc \ Former
    /\ recycled = {}
    /\ stolen = FALSE

At(p, l) == p \in live /\ pc[p] = l
Goto(p, l) == pc' = [pc EXCEPT ![p] = l]

\* process.kill(pid, 0): it succeeds, or fails with EPERM, for any running process.
Alive_EveryErrorHeld(p) == TRUE
Alive(p) == p \in live \cup recycled

\* withLock or the detach wrapper starts an attempt.
Begin(p) ==
    /\ At(p, "idle")
    /\ Goto(p, "open")
    /\ UNCHANGED <<file, seen, live, recycled, stolen>>

\* openSync(path, "wx"): atomic create-or-fail.
Creatable_NotExclusive == TRUE
Creatable == file = NoFile
Open(p) ==
    /\ At(p, "open")
    /\ \/ /\ Creatable
          /\ file' = [owner |-> p, body |-> Empty]
          /\ Goto(p, "opened")
       \/ /\ ~Creatable
          /\ Goto(p, "exists")
          /\ UNCHANGED file
    /\ UNCHANGED <<seen, live, recycled, stolen>>

\* writeSync to the descriptor, closeSync, then this.acquired = true.
WriteMarker(p) ==
    /\ At(p, "opened")
    /\ IF file # NoFile /\ file.owner = p
         THEN file' = [file EXCEPT !.body = p]
         ELSE UNCHANGED file
    /\ Goto(p, "held")
    /\ UNCHANGED <<seen, live, recycled, stolen>>

\* A body whose first token is not a pid is garbage.
Garbage_Unchecked(body) == FALSE
Garbage(body) == body = Empty

\* handleExistingLock reads the file: ENOENT tries again, a body without a pid is stale.
ReadExisting(p) ==
    /\ At(p, "exists")
    /\ \/ /\ file = NoFile
          /\ Goto(p, "open")
          /\ UNCHANGED seen
       \/ /\ file # NoFile /\ Garbage(file.body)
          /\ Goto(p, "unlink")
          /\ UNCHANGED seen
       \/ /\ file # NoFile /\ ~Garbage(file.body)
          /\ seen' = [seen EXCEPT ![p] = file.body]
          /\ Goto(p, "probe")
    /\ UNCHANGED <<file, live, recycled, stolen>>

Probe(p) ==
    /\ At(p, "probe")
    /\ Goto(p, IF Alive(seen[p]) THEN "sleep" ELSE "unlink")
    /\ seen' = [seen EXCEPT ![p] = p]
    /\ UNCHANGED <<file, live, recycled, stolen>>

\* removeStale unlinks the path, whatever is there now, and acquire runs again.
RemoveStale(p) ==
    /\ At(p, "unlink")
    /\ file' = NoFile
    /\ stolen' = (stolen \/ (file # NoFile /\ file.owner \in live))
    /\ Goto(p, "open")
    /\ UNCHANGED <<seen, live, recycled>>

\* acquireWithTimeout tries again after 200 ms.
Retry(p) ==
    /\ At(p, "sleep")
    /\ Goto(p, "open")
    /\ UNCHANGED <<file, seen, live, recycled, stolen>>

\* withLock throws on the first refusal, acquireWithTimeout after its deadline.
GiveUp(p) ==
    /\ At(p, "sleep")
    /\ Goto(p, "idle")
    /\ UNCHANGED <<file, seen, live, recycled, stolen>>

\* The finally of withLock: release unlinks the path.
Release_FileKept(p) ==
    /\ At(p, "held")
    /\ Goto(p, "idle")
    /\ UNCHANGED <<file, seen, live, recycled, stolen>>

Release(p) ==
    /\ At(p, "held")
    /\ file' = NoFile
    /\ Goto(p, "idle")
    /\ UNCHANGED <<seen, live, recycled, stolen>>

\* The process dies, anywhere; its memory is gone and the file stays.
Crash(p) ==
    /\ p \in live
    /\ live' = live \ {p}
    /\ Goto(p, "idle")
    /\ seen' = [seen EXCEPT ![p] = p]
    /\ UNCHANGED <<file, recycled, stolen>>

\* The host gives a dead process's pid to an unrelated one.
Recycle(p) ==
    /\ p \notin live \cup recycled
    /\ recycled' = recycled \cup {p}
    /\ UNCHANGED <<file, pc, seen, live, stolen>>

\* The next system call of an attempt in progress.
Attempt(p) == Open(p) \/ WriteMarker(p) \/ ReadExisting(p) \/ Probe(p) \/ RemoveStale(p)

Next == \E p \in Proc :
    \/ Begin(p) \/ Open(p) \/ WriteMarker(p) \/ ReadExisting(p) \/ Probe(p) \/ RemoveStale(p)
    \/ Retry(p) \/ GiveUp(p) \/ Release(p) \/ Crash(p) \/ Recycle(p)

(***************************************************************************)
(* acquire is synchronous code: an attempt in progress runs on unless the  *)
(* process dies.  Nothing obliges anyone to start, retry or release.       *)
(***************************************************************************)
Spec == Init /\ [][Next]_vars /\ \A p \in Proc : WF_vars(Attempt(p))
-----------------------------------------------------------------------------
Holders == {p \in live : pc[p] = "held"}

\* Two live processes never both believe they hold the issue-run lock.
MutualExclusion == \A p, q \in Holders : p = q

\* Two processes hold the lock only after removeStale unlinked the file of a
\* live one: reclaiming the lock of a dead holder, or of a pid that was reused,
\* lets no second process in by itself.
MutexUntilSteal == stolen \/ MutualExclusion

\* A live process never leaves a lock file of its own behind: whenever the path
\* holds a file created by a live process, that process is between open and release.
NoAbandonedFile ==
    file # NoFile /\ file.owner \in live => pc[file.owner] \in {"opened", "held"}

Stale(d) == file # NoFile /\ file.owner = d /\ d \notin live \cup recycled

\* An attempt that finds the lock of a dead process, written or not, gets rid of it
\* (unless the attempt dies too, or the pid comes back to life): a crash never
\* wedges the issue.
StaleLockReclaimed ==
    \A d, p \in Proc :
        (Stale(d) /\ At(p, "exists")) ~> (~Stale(d) \/ p \notin live)
=============================================================================
