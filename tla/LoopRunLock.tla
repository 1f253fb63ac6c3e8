------------------------------ MODULE LoopRunLock ------------------------------
(***************************************************************************)
(* The exclusive lock of a loop run: acquireLock, requireToken,            *)
(* releaseLock and recoverLock of core/scripts/loop/store.ts with the file *)
(* operations they are built on, as attachSupervisor (supervisor.ts) and   *)
(* the writes of a running supervisor call them.                           *)
(*                                                                         *)
(* Every acquisition makes a fresh token, and the file it creates keeps    *)
(* that identity when it is renamed or linked; a token stands for its lock *)
(* file.  The file is created empty and its record written afterwards.     *)
(* removeFileIfMatches is not atomic: it renames the file to a private     *)
(* name, compares, and links it back when it is not the expected one.  All *)
(* processes run on one host and attach with --resume; forced recovery and *)
(* process-id reuse are left out.                                          *)
(***************************************************************************)
EXTENDS Naturals

CONSTANTS
  Proc,       \* supervisor processes; one that exits may start again
  MaxTokens,  \* bound: acquisitions
  MaxCrashes  \* bound: processes that die

ASSUME LockAssumption == MaxTokens \in Nat /\ MaxCrashes \in Nat

VARIABLES
  file,      \* the token whose record is lock.json, or NoLock
  written,   \* the tokens whose record has been written into their file
  dead,      \* the tokens whose process has exited
  next,      \* the last token made
  pc,        \* where each process is
  my,        \* the token each process acquired, or NoLock
  seen,      \* the record each process is about to remove
  claimed,   \* the file each process has renamed away
  crashes,   \* processes that have died
  displaced  \* history: a process renamed away another record than it had read

vars == <<file, written, dead, next, pc, my, seen, claimed, crashes,
          displaced>>

NoLock == 0
Tokens == 1..MaxTokens

Locations == {"idle", "recover", "rename", "compare", "restore", "create",
              "opened", "held", "writing"}

Init ==
  /\ file = NoLock /\ written = {} /\ dead = {} /\ next = 0
  /\ pc = [p \in Proc |-> "idle"]
  /\ my = [p \in Proc |-> NoLock]
  /\ seen = [p \in Proc |-> NoLock]
  /\ claimed = [p \in Proc |-> NoLock]
  /\ crashes = 0 /\ displaced = FALSE

At(p, l) == pc[p] = l
Goto(p, l) == pc' = [pc EXCEPT ![p] = l]

\* readLock: an absent file and an empty one both read as no lock.
Readable == file \in written

Stale_NeverProven == FALSE

\* classifyStaleness, for a lock of this host.
Stale == Readable /\ file \in dead

\* attachSupervisor reads the lock.  A live holder refuses it.
Attach(p) ==
  /\ At(p, "idle")
  /\ \/ ~Readable /\ Goto(p, "create")
     \/ Stale /\ Goto(p, "recover")
  /\ UNCHANGED <<file, written, dead, next, my, seen, claimed, crashes, displaced>>

\* recoverLock reads it again before it removes it.
Recheck(p) ==
  /\ At(p, "recover")
  /\ \/ ~Readable /\ Goto(p, "create") /\ UNCHANGED seen
     \/ Stale /\ Goto(p, "rename") /\ seen' = [seen EXCEPT ![p] = file]
     \/ Readable /\ ~Stale /\ Goto(p, "idle") /\ UNCHANGED seen
  /\ UNCHANGED <<file, written, dead, next, my, claimed, crashes, displaced>>

-----------------------------------------------------------------------------
(* removeFileIfMatches, for a recovery (my = NoLock) or a release.  The      *)
(* recovering process goes on to acquire; the releasing one is done.         *)

Ended_Unconditionally(p) == {my[p]}

\* The token whose process is done, if it has one.
Ended(p) == {my[p]} \ {NoLock}

AfterRemoval(p) ==
  /\ Goto(p, IF my[p] = NoLock THEN "create" ELSE "idle")
  /\ my' = [my EXCEPT ![p] = NoLock]
  /\ seen' = [seen EXCEPT ![p] = NoLock]
  /\ claimed' = [claimed EXCEPT ![p] = NoLock]
  /\ dead' = dead \cup Ended(p)

RenameAway(p) ==
  /\ At(p, "rename")
  /\ IF file = NoLock
     THEN AfterRemoval(p) /\ UNCHANGED <<file, displaced>>
     ELSE /\ Goto(p, "compare")
          /\ claimed' = [claimed EXCEPT ![p] = file]
          /\ file' = NoLock
          /\ displaced' = (displaced \/ file # seen[p])
          /\ UNCHANGED <<my, seen, dead>>
  /\ UNCHANGED <<written, next, crashes>>

\* The record read from the renamed file is the expected one: it is removed.
Compare(p) ==
  /\ At(p, "compare")
  /\ IF claimed[p] = seen[p]
     THEN AfterRemoval(p)
     ELSE Goto(p, "restore") /\ UNCHANGED <<my, seen, claimed, dead>>
  /\ UNCHANGED <<file, written, next, crashes, displaced>>

\* It is not: the file is linked back unless a newer one is there.
Restore(p) ==
  /\ At(p, "restore")
  /\ file' = IF file = NoLock THEN claimed[p] ELSE file
  /\ AfterRemoval(p)
  /\ UNCHANGED <<written, next, crashes, displaced>>

-----------------------------------------------------------------------------
Creatable_NotExclusive == TRUE

\* open with the exclusive flag
Creatable == file = NoLock

\* acquireLock, createFileExclusive: the file, then the record.
Create(p) ==
  /\ At(p, "create")
  /\ IF Creatable
     THEN /\ next < MaxTokens /\ next' = next + 1 /\ file' = next'
          /\ my' = [my EXCEPT ![p] = next'] /\ Goto(p, "opened")
     ELSE Goto(p, "idle") /\ UNCHANGED <<next, file, my>>
  /\ UNCHANGED <<written, dead, seen, claimed, crashes, displaced>>

WriteRecord(p) ==
  /\ At(p, "opened")
  /\ written' = written \cup {my[p]}
  /\ Goto(p, "held")
  /\ UNCHANGED <<file, dead, next, my, seen, claimed, crashes, displaced>>

\* requireToken
HoldsToken(p) == Readable /\ file = my[p]

\* writeLedger: the token is checked, then the document is published.
CheckToken(p) ==
  /\ At(p, "held") /\ HoldsToken(p)
  /\ Goto(p, "writing")
  /\ UNCHANGED <<file, written, dead, next, my, seen, claimed, crashes, displaced>>

Publish(p) ==
  /\ At(p, "writing")
  /\ Goto(p, "held")
  /\ UNCHANGED <<file, written, dead, next, my, seen, claimed, crashes, displaced>>

\* releaseLock
Release(p) ==
  /\ At(p, "held") /\ HoldsToken(p)
  /\ Goto(p, "rename") /\ seen' = [seen EXCEPT ![p] = file]
  /\ UNCHANGED <<file, written, dead, next, my, claimed, crashes, displaced>>

Exit(p) ==
  /\ Goto(p, "idle")
  /\ dead' = dead \cup Ended(p)
  /\ my' = [my EXCEPT ![p] = NoLock]
  /\ seen' = [seen EXCEPT ![p] = NoLock]
  /\ claimed' = [claimed EXCEPT ![p] = NoLock]
  /\ UNCHANGED <<file, written, next, displaced>>

\* requireToken throws: the drive ends, and its release is refused as well.
Refused(p) == At(p, "held") /\ ~HoldsToken(p) /\ Exit(p) /\ UNCHANGED crashes

\* The process dies; a file it had renamed away is never linked back.
Crash(p) ==
  /\ ~At(p, "idle") /\ crashes < MaxCrashes
  /\ Exit(p)
  /\ crashes' = crashes + 1

-----------------------------------------------------------------------------
Recover(p) ==
  \/ Attach(p) \/ Recheck(p) \/ RenameAway(p) \/ Compare(p) \/ Restore(p)

Step(p) ==
  \/ Recover(p) \/ Create(p) \/ WriteRecord(p) \/ CheckToken(p) \/ Publish(p)
  \/ Release(p) \/ Refused(p) \/ Crash(p)

Next == \E p \in Proc : Step(p)

\* Runs are resumed, and a process that recovers a lock keeps running.
Spec == Init /\ [][Next]_vars /\ \A p \in Proc : WF_vars(Recover(p)) /\ WF_vars(Create(p))

-----------------------------------------------------------------------------
\* Types of the lock file and of the processes.
TypeOK ==
  /\ file \in Tokens \cup {NoLock}
  /\ written \subseteq Tokens /\ dead \subseteq Tokens /\ next \in 0..MaxTokens
  /\ pc \in [Proc -> Locations]
  /\ my \in [Proc -> Tokens \cup {NoLock}]
  /\ seen \in [Proc -> Tokens \cup {NoLock}]
  /\ claimed \in [Proc -> Tokens \cup {NoLock}]
  /\ crashes \in 0..MaxCrashes /\ displaced \in BOOLEAN

Holder(p) == pc[p] \in {"held", "writing"}

\* The store's promise: of the processes that attach to a run, acquireLock has
\* returned a token to at most one that is still running.
OneHolder == \A p, q \in Proc : Holder(p) /\ Holder(q) => p = q

\* As long as no removal has renamed away another record than the one it had
\* read, there is one holder, and the lock file is its own from the time
\* acquireLock returns to its release, between the check of requireToken and
\* the write it guards included.
HolderUnlessDisplaced ==
  ~displaced => /\ OneHolder
                /\ \A p \in Proc : Holder(p) => Readable /\ file = my[p]

\* The inductive invariant: a process owns its token from the creation of the
\* file to its removal; the token is its own and not that of a dead process; a
\* process removes a record of a dead process or its own; and until a record
\* is displaced, the file of an owner is in place.
Owner(p) ==
  \/ pc[p] \in {"opened", "held", "writing"}
  \/ pc[p] = "rename" /\ my[p] # NoLock

LockInv ==
  /\ TypeOK
  /\ \A t \in dead : t <= next
  /\ \A p \in Proc :
       /\ my[p] <= next /\ my[p] \notin dead
       /\ pc[p] \in {"idle", "recover", "create"} => my[p] = NoLock
       /\ pc[p] \in {"opened", "held", "writing"} => my[p] # NoLock
       /\ Holder(p) => my[p] \in written
       /\ pc[p] = "rename" => IF my[p] = NoLock THEN seen[p] \in dead
                                                ELSE seen[p] = my[p]
  /\ \A p, q \in Proc : my[p] = my[q] /\ my[p] # NoLock => p = q
  /\ ~displaced => \A p \in Proc : /\ Owner(p) => file = my[p]
                                   /\ pc[p] = "compare" => claimed[p] = seen[p]
                                   /\ pc[p] # "restore"

\* A record whose process has died is removed by the processes that attach
\* (recoverLock), so the run can be taken over.
StaleLockRecovered == \A t \in Tokens : t \in written \cap dead ~> file # t
=============================================================================
