--------------------------- MODULE LoopRunLockProofs ---------------------------
(***************************************************************************)
(* For any number of processes, acquisitions and crashes, the run lock of  *)
(* the loop store has one holder until a removal displaces a record that   *)
(* it had not read.                                                        *)
(***************************************************************************)
EXTENDS LoopRunLock, TLAPS

\* The freshly initialised run satisfies the invariant.
LEMMA LockInvInit == Init => LockInv
<1> SUFFICES ASSUME Init PROVE LockInv
  OBVIOUS
<1>1. TypeOK
  <2>1. next \in 0..MaxTokens /\ crashes \in 0..MaxCrashes
    BY LockAssumption DEF Init
  <2>2. pc \in [Proc -> Locations]
    BY DEF Init, Locations
  <2> QED BY ZenonT(60), <2>1, <2>2 DEF Init, TypeOK
<1>2. \A p \in Proc : pc[p] = "idle" /\ my[p] = NoLock
  BY DEF Init
<1> QED
  BY <1>1, <1>2 DEF Init, LockInv, Owner, Holder, NoLock

\* A process that gives up its token, at the end of a removal or of its life,
\* leaves the others as they were.
LEMMA TokenGivenUp ==
  ASSUME LockInv, NEW p \in Proc, NEW l \in {"idle", "create"},
         pc' = [pc EXCEPT ![p] = l],
         my' = [my EXCEPT ![p] = NoLock],
         seen' = [seen EXCEPT ![p] = NoLock],
         claimed' = [claimed EXCEPT ![p] = NoLock],
         dead' = dead \cup Ended(p),
         UNCHANGED <<written, next, displaced>>,
         crashes' \in 0..MaxCrashes,
         file' \in Tokens \cup {NoLock},
         ~displaced => file' = file
  PROVE  LockInv'
<1>1. TypeOK' /\ \A t \in dead' : t <= next'
  BY ZenonT(60), LockAssumption DEF Ended, LockInv, TypeOK, Locations, Tokens, NoLock
<1>2. /\ pc'[p] = l /\ my'[p] = NoLock
      /\ \A q \in Proc \ {p} : /\ pc'[q] = pc[q] /\ my'[q] = my[q]
                               /\ seen'[q] = seen[q]
                               /\ claimed'[q] = claimed[q]
  BY DEF LockInv, TypeOK
<1>3. \A q \in Proc : my'[q] \notin dead'
  BY <1>2 DEF Ended, LockInv, TypeOK, Tokens, NoLock
<1> QED
  BY <1>1, <1>2, <1>3, LockAssumption DEF LockInv, TypeOK, Owner, Holder, NoLock

\* Every step of every process preserves the invariant.
LEMMA LockInvStep ==
  ASSUME LockInv, [Next]_vars
  PROVE  LockInv'
<1> USE LockAssumption
<1>1. CASE UNCHANGED vars
  BY <1>1 DEF vars, LockInv, TypeOK, Owner, Holder
<1>2. CASE Next
  <2>1. PICK p \in Proc : Step(p)
    BY <1>2 DEF Next
  <2>2. CASE Attach(p)
    BY <2>2 DEF LockInv, TypeOK, Attach, At, Goto, Owner, Holder, Locations
  <2>3. CASE Recheck(p)
    BY <2>3 DEF LockInv, TypeOK, Recheck, At, Goto, Owner, Holder, Locations,
                Stale, Readable
  <2>4. CASE RenameAway(p)
    <3>1. CASE file = NoLock
      BY <2>4, <3>1, TokenGivenUp DEF RenameAway, AfterRemoval, Goto, LockInv, TypeOK
    <3>2. CASE file # NoLock
      <4>1. TypeOK'
        BY <2>4, <3>2 DEF RenameAway, Goto, LockInv, TypeOK, Locations
      <4>2. /\ pc'[p] = "compare" /\ claimed'[p] = file
            /\ \A q \in Proc \ {p} : pc'[q] = pc[q] /\ claimed'[q] = claimed[q]
        BY <2>4, <3>2 DEF RenameAway, Goto, LockInv, TypeOK
      <4>3. ~displaced' => \A q \in Proc : /\ Owner(q)' => file' = my'[q]
                                           /\ pc'[q] = "compare" => claimed'[q] = seen'[q]
                                           /\ pc'[q] # "restore"
        <5> SUFFICES ASSUME ~displaced', NEW q \in Proc
                     PROVE  /\ Owner(q)' => file' = my'[q]
                            /\ pc'[q] = "compare" => claimed'[q] = seen'[q]
                            /\ pc'[q] # "restore"
          OBVIOUS
        <5>1. ~displaced /\ file = seen[p] /\ my' = my /\ seen' = seen
          BY ZenonT(60), <2>4, <3>2 DEF RenameAway
        <5>2. CASE q = p
          BY <4>2, <5>1, <5>2 DEF Owner
        <5>3. CASE q # p
          BY <2>4, <4>2, <5>1, <5>3 DEF RenameAway, At, Owner, LockInv, TypeOK, NoLock
        <5> QED BY <5>2, <5>3
      <4> QED
        BY <2>4, <3>2, <4>1, <4>2, <4>3 DEF RenameAway, LockInv, TypeOK, Holder, NoLock
    <3> QED BY <3>1, <3>2
  <2>5. CASE Compare(p)
    <3>1. CASE claimed[p] = seen[p]
      BY SMTT(60), <2>5, <3>1, TokenGivenUp DEF Compare, AfterRemoval, Goto, LockInv, TypeOK
    <3>2. CASE claimed[p] # seen[p]
      BY <2>5, <3>2 DEF Compare, At, Goto, LockInv, TypeOK, Owner, Holder,
                        Locations, NoLock
    <3> QED BY <3>1, <3>2
  <2>6. CASE Restore(p)
    BY ZenonT(60), <2>6, TokenGivenUp DEF Restore, AfterRemoval, At, Goto, LockInv, TypeOK
  <2>7. CASE Create(p)
    BY <2>7 DEF Create, Creatable, At, Goto, LockInv, TypeOK, Owner, Holder,
                Locations, Tokens, NoLock
  <2>8. CASE WriteRecord(p)
    BY ZenonT(60), <2>8 DEF WriteRecord, At, Goto, LockInv, TypeOK, Owner, Holder,
                Locations, Tokens, NoLock
  <2>9. CASE CheckToken(p)
    BY <2>9 DEF CheckToken, At, Goto, LockInv, TypeOK, Owner, Holder, Locations
  <2>10. CASE Publish(p)
    BY <2>10 DEF Publish, At, Goto, LockInv, TypeOK, Owner, Holder, Locations
  <2>11. CASE Release(p)
    BY <2>11 DEF Release, HoldsToken, At, Goto, LockInv, TypeOK, Owner, Holder,
                 Locations, NoLock
  <2>12. ASSUME Exit(p), crashes' \in 0..MaxCrashes PROVE LockInv'
    BY ZenonT(60), <2>12, TokenGivenUp DEF Exit, Goto, LockInv, TypeOK
  <2>13. CASE Refused(p)
    BY <2>12, <2>13 DEF Refused, LockInv, TypeOK
  <2>14. CASE Crash(p)
    BY <2>12, <2>14 DEF Crash, LockInv, TypeOK
  <2> QED
    BY <2>1, <2>2, <2>3, <2>4, <2>5, <2>6, <2>7, <2>8, <2>9, <2>10, <2>11,
       <2>13, <2>14 DEF Step, Recover
<1> QED BY <1>1, <1>2

\* The invariant of the run lock.
LEMMA LockInvariant == Spec => []LockInv
  BY LockInvInit, LockInvStep, PTL DEF Spec

\* Until a record is displaced, acquireLock has one holder, and the lock file
\* is that holder's whenever it writes.
THEOREM HolderUnlessDisplacedHolds == Spec => []HolderUnlessDisplaced
<1>1. LockInv => HolderUnlessDisplaced
  BY DEF LockInv, HolderUnlessDisplaced, OneHolder, Owner, Holder, Readable
<1> QED BY <1>1, LockInvariant, PTL

\* The lock file, the tokens and the processes' locals keep their types, for any
\* number of processes and crashes (TypeOK).
THEOREM TypeCorrect == Spec => []TypeOK
<1>1. LockInv => TypeOK
  BY DEF LockInv
<1> QED BY <1>1, LockInvariant, PTL
=============================================================================
