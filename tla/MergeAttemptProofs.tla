--------------------------- MODULE MergeAttemptProofs ---------------------------
(***************************************************************************)
(* Proofs about MergeAttempt for any set of processes and any bounds.      *)
(***************************************************************************)
EXTENDS MergeAttempt, TLAPS

Locking == {"lock", "holder", "steal", "relock", "pid", "compare", "swap"}
Critical == {"pid", "compare", "swap", "unlock"}

(***************************************************************************)
(* The caslock.  Its creator is inside the critical section, and while no  *)
(* running process has lost its file, nobody else is.                      *)
(***************************************************************************)
LockInv ==
  /\ lock.owner \in Proc => pc[lock.owner] \in Critical
  /\ ~stolen => \A p \in Proc : pc[p] \in Critical => lock.owner = p

\* What a process holds, by where it is.
HoldInv ==
  \A p \in Proc :
    /\ p \in current => have[p] = claim
    /\ have[p].outcome # "empty"
    /\ cont[p] # "idle" => pc[p] \in Locking \cup {"unlock"}
    /\ pc[p] \in Locking /\ cont[p] # "inspect" =>
         cont[p] # "idle" /\ have[p].outcome = "started"
    /\ pc[p] \in Locking /\ cont[p] = "inspect" => Pending(have[p])
    /\ At(p, "unlock") /\ cont[p] = "call" => have[p].outcome = "submitted"
    /\ At(p, "unlock") /\ cont[p] = "fresh" => have[p].outcome = "started"
    /\ At(p, "fresh") => have[p].outcome = "started"
    /\ pc[p] \in {"call", "merging", "failed", "settle", "proven", "record", "doubt"} =>
         Pending(have[p])
    /\ At(p, "save") => have[p].outcome # "none"
    /\ pc[p] \in {"save", "record"} => IsMerged /\ contained
    /\ call[p] # "none" => At(p, "merging")

\* Before the claim is first written nobody holds one, and one process writes it.
FirstInv ==
  /\ claim.outcome \in {"none", "empty"} => \A p \in Proc : have[p].outcome = "none"
  /\ \A p \in Proc : At(p, "fill") => claim.outcome = "empty"
  /\ \A p, q \in Proc : At(p, "fill") /\ At(q, "fill") => p = q

\* The process has inspected a head and may still submit it.
Gated(p) ==
  \/ cont[p] \in {"fresh", "call"}
  \/ pc[p] \in {"checks", "stage", "reload", "create", "fill", "raced", "fresh", "call", "merging"}

\* A head that passed the checks gate, and is still the head, is green.
HeadInv ==
  /\ \A p \in Proc :
       /\ live[p] <= head
       /\ live[p] = head /\ pc[p] # "checks" => green
       /\ Gated(p) => live[p] \in Heads
  /\ \A h \in Heads : lost[h] > 0 => h <= head /\ (h = head => green)
  /\ MergedHeadChecked

\* The processes about to send a call or waiting for its answer.
Busy == Sending \cup Sent
NoneLost == \A h \in Heads : lost[h] = 0
\* The claim file tells of a call that may be outstanding.
Marked == Pending(claim) \/ claim.outcome = "complete"

(***************************************************************************)
(* While no claim was reset early and no lock stolen: one call at a time,  *)
(* always under a claim, and none while a swap away from started is due.   *)
(***************************************************************************)
OneBusy == \A p, q \in Busy : p = q
OneLost == \A h \in Heads : lost[h] > 0 => lost[h] = 1 /\ \A g \in Heads \ {h} : lost[g] = 0
Covered == Busy # {} \/ ~NoneLost => Marked
SwapAlone == \A p \in Proc : At(p, "swap") /\ cont[p] # "inspect" => Busy = {} /\ NoneLost
CallInv ==
  ~hasty /\ ~stolen => OneBusy /\ (Busy # {} => NoneLost) /\ OneLost /\ Covered /\ SwapAlone

IInv == TypeOK /\ LockInv /\ HoldInv /\ FirstInv /\ HeadInv /\ CallInv

\* The claims that processes and files hold are claims.
LEMMA ClaimTypes ==
  /\ NoClaim \in Claims
  /\ [NoClaim EXCEPT !.outcome = "empty"] \in Claims
  /\ \A c \in Claims, o \in Outcomes : [c EXCEPT !.outcome = o, !.age = "fresh"] \in Claims
  /\ \A c \in Claims : Cold(c) \in Claims
  /\ \A p \in Proc : live[p] \in Heads \cup {0} => Desired(p) \in Claims
  BY Zenon DEF NoClaim, Claims, Outcomes, Cold, Pending, Desired

LocalTypes ==
  /\ pc \in [Proc -> Locations]
  /\ have \in [Proc -> Claims] /\ current \subseteq Proc
  /\ cont \in [Proc -> {"idle", "inspect", "fresh", "call"}]
  /\ live \in [Proc -> Heads \cup {0}]

LEMMA EndTypes ==
  ASSUME TypeOK, NEW p \in Proc, End(p)
  PROVE  LocalTypes'
  BY Zenon, ClaimTypes DEF TypeOK, LocalTypes, End, Reset, Goto, Locations

LEMMA TypeStep ==
  ASSUME TypeOK, HoldInv, HeadInv, [Next]_vars
  PROVE  TypeOK'
<1> USE MergeAssumption DEF At, Goto, Stay, Hold, Drop, Write, Swap,
       github, files, local, history
<1> USE DEF TypeOK, Locations
<1>1. ASSUME NEW p \in Proc, Begin(p) PROVE TypeOK'
  <2>1. CASE Readable
    BY SMTT(60), <1>1, <2>1 DEF Begin
  <2>2. CASE ~Readable
    BY <1>1, <2>2 DEF Begin
  <2> QED  BY Zenon, <2>1, <2>2
<1>2. ASSUME NEW p \in Proc, Observe(p) PROVE TypeOK'
  <2>1. CASE End(p)
    BY <1>2, <2>1, EndTypes DEF LocalTypes, Observe
  <2>2. CASE Goto(p, "save") /\ Stay
    BY <1>2, <2>2 DEF Observe
  <2>3. CASE Swap(p, "inspect") /\ UNCHANGED <<have, current, live>>
    BY Zenon, <1>2, <2>3 DEF Observe
  <2>4. CASE Goto(p, "inspect") /\ Drop(p) /\ UNCHANGED <<cont, live>>
    BY Zenon, <1>2, <2>4, ClaimTypes DEF Observe
  <2> QED  BY Zenon, <1>2, <2>1, <2>2, <2>3, <2>4 DEF Observe
<1>3. ASSUME NEW p \in Proc, Save(p) PROVE TypeOK'
  BY <1>3, ClaimTypes, ZenonT(60) DEF Outcomes, Save, Reset, SaveComplete
<1>4. ASSUME NEW p \in Proc, Reload(p) PROVE TypeOK'
  <2>1. CASE End(p)
    BY <1>4, <2>1, EndTypes DEF LocalTypes, Reload
  <2>2. CASE ~End(p)
    BY SMTT(60), <1>4, <2>2 DEF Reload, Charge
  <2> QED  BY Zenon, <2>1, <2>2
<1>5. ASSUME NEW p \in Proc, Create(p) PROVE TypeOK'
  <2>1. claim' \in Claims
    BY Zenon, <1>5, ClaimTypes DEF Create
  <2>2. pc' \in [Proc -> Locations] /\ current' \subseteq Proc
    BY Zenon, <1>5 DEF Create
  <2> QED  BY Zenon, <1>5, <2>1, <2>2 DEF Create
<1>6. ASSUME NEW p \in Proc, Fill(p) PROVE TypeOK'
  BY <1>6, ClaimTypes, Zenon DEF Fill
<1>7. ASSUME NEW p \in Proc, Raced(p) PROVE TypeOK'
  BY SMTT(60), <1>7, EndTypes DEF LocalTypes, Raced, Charge
<1>8. ASSUME NEW p \in Proc, OpenLock(p) PROVE TypeOK'
  BY SMTT(60), <1>8, EndTypes DEF LocalTypes, OpenLock, LockFree, NoLock
<1>9. ASSUME NEW p \in Proc, WritePid(p) PROVE TypeOK'
  BY Zenon, <1>9 DEF WritePid
<1>10. ASSUME NEW p \in Proc, ReadHolder(p) PROVE TypeOK'
  BY SMTT(60), <1>10, EndTypes DEF LocalTypes, ReadHolder
<1>11. ASSUME NEW p \in Proc, StealLock(p) PROVE TypeOK'
  BY Zenon, <1>11 DEF StealLock, HeldByOther, NoLock
<1>12. ASSUME NEW p \in Proc, Compare(p) PROVE TypeOK'
  BY SMTT(60), <1>12 DEF Compare, CasEqual
<1>13. ASSUME NEW p \in Proc, WriteSwap(p) PROVE TypeOK'
  BY Zenon, <1>13, ClaimTypes DEF Outcomes, WriteSwap, Swapped, Quiet
<1>14. ASSUME NEW p \in Proc, Unlock(p) PROVE TypeOK'
  <2>1. CASE cont[p] = "idle"
    BY Zenon, <1>14, <2>1, EndTypes DEF LocalTypes, Unlock, NoLock
  <2>2. CASE cont[p] # "idle"
    <3>1. pc' \in [Proc -> Locations]
      BY <1>14, <2>2 DEF Unlock
    <3>2. have' \in [Proc -> Claims] /\ current' \subseteq Proc
      <4>1. NoClaim \in Claims  BY Zenon, ClaimTypes
      <4> QED  BY SMTT(60), <1>14, <2>2, <4>1 DEF Unlock
    <3>3. lock' \in [owner : Proc \cup {"none"}, pid : {"none", "blank", "alive", "dead"}]
      BY Zenon, <1>14 DEF Unlock, NoLock
    <3>4. cont' \in [Proc -> {"idle", "inspect", "fresh", "call"}] /\ stolen' \in BOOLEAN
      BY <1>14, <2>2, ZenonT(60) DEF Unlock
    <3> QED  BY <1>14, <2>2, <3>1, <3>2, <3>3, <3>4, Zenon DEF Unlock
  <2> QED  BY Zenon, <2>1, <2>2
<1>15. ASSUME NEW p \in Proc, SendMerge(p) PROVE TypeOK'
  BY Zenon, <1>15 DEF SendMerge
<1>16. ASSUME NEW p \in Proc, Reply(p) PROVE TypeOK'
  BY Zenon, <1>16 DEF Reply
<1>17. ASSUME NEW p \in Proc, Failed(p) PROVE TypeOK'
  BY <1>17, ClaimTypes, ZenonT(60) DEF Outcomes, Failed, Uncertain
<1>18. ASSUME NEW p \in Proc, Settle(p) PROVE TypeOK'
  BY SMTT(60), <1>18, EndTypes DEF LocalTypes, Settle
<1>19. ASSUME NEW p \in Proc, Record(p) PROVE TypeOK'
  BY Zenon, <1>19, ClaimTypes DEF Outcomes, Record, Reset, SaveComplete
<1>20. ASSUME NEW p \in Proc, Doubt(p) PROVE TypeOK'
  BY Zenon, <1>20, ClaimTypes DEF Outcomes, Doubt, Reset, Uncertain
<1>21. ASSUME NEW p \in Proc, Inspect(p) PROVE TypeOK'
  BY Zenon, <1>21, EndTypes DEF LocalTypes, Inspect, IsMerged
<1>22. ASSUME NEW p \in Proc, Checks(p) PROVE TypeOK'
  BY Zenon, <1>22 DEF Checks, ChecksPass
<1>23. ASSUME NEW p \in Proc, Stage(p) PROVE TypeOK'
  BY Zenon, <1>23 DEF Stage
<1>24. ASSUME NEW p \in Proc, Fresh(p) PROVE TypeOK'
  BY Zenon, <1>24 DEF Fresh, Unmoved
<1>25. ASSUME NEW p \in Proc, Refuse(p) PROVE TypeOK'
  BY <1>25, EndTypes DEF LocalTypes, Refuse
<1>26. ASSUME NEW p \in Proc, Answer(p) PROVE TypeOK'
  BY <1>26 DEF Answer, Merge, HeadMatches
<1>27. ASSUME NEW p \in Proc, Throw(p) PROVE TypeOK'
  BY <1>27, EndTypes DEF LocalTypes, Throw
<1>28. ASSUME NEW p \in Proc, Timeout(p) PROVE TypeOK'
  <2>1. call[p] = "sent" => lost' \in [Heads -> 0..MaxLost]
    BY SMTT(60), <1>28 DEF Timeout, Abandon, HoldInv, HeadInv
  <2> QED  BY <1>28, <2>1 DEF Timeout, Abandon
<1>29. ASSUME NEW p \in Proc, Crash(p) PROVE TypeOK'
  <2>1. lost' \in [Heads -> 0..MaxLost] /\ call' \in [Proc -> {"none", "sent", "ok", "error"}]
    BY SMTT(60), <1>29 DEF Crash, Abandon, HoldInv, HeadInv
  <2>2. lock' \in [owner : Proc \cup {"none"}, pid : {"none", "blank", "alive", "dead"}]
    BY Zenon, <1>29 DEF Crash
  <2>3. LocalTypes'
    BY Zenon, <1>29, EndTypes DEF Crash
  <2> QED  BY SMTT(60), <1>29, <2>1, <2>2, <2>3 DEF Crash, LocalTypes
<1>30. ASSUME NEW p \in Proc, CoolStale(p) PROVE TypeOK'
  BY Zenon, <1>30, ClaimTypes DEF CoolStale
<1>31. ASSUME NEW h \in Heads, AnswerLost(h) PROVE TypeOK'
  <2>1. lost' \in [Heads -> 0..MaxLost]
    BY SMTT(60), <1>31 DEF AnswerLost
  <2> QED  BY Zenon, <1>31, <2>1 DEF AnswerLost, Merge
<1>32. CASE Push
  <2>1. head' \in Heads
    BY SMTT(60), <1>32 DEF Push, Heads
  <2> QED  BY Zenon, <1>32, <2>1 DEF Push
<1>33. CASE ChecksFinish
  BY Zenon, <1>33 DEF ChecksFinish
<1>34. CASE MergeByHand
  BY Zenon, <1>34 DEF MergeByHand
<1>35. CASE BaseFetched
  BY Zenon, <1>35, ClaimTypes DEF BaseFetched
<1>36. CASE Cool
  BY Zenon, <1>36, ClaimTypes DEF Cool
<1>37. CASE UNCHANGED vars
  BY <1>37 DEF vars
<1> QED
  BY Zenon, <1>1, <1>2, <1>3, <1>4, <1>5, <1>6, <1>7, <1>8, <1>9, <1>10, <1>11, <1>12, <1>13, <1>14, <1>15, <1>16, <1>17, <1>18, <1>19, <1>20, <1>21, <1>22, <1>23, <1>24, <1>25, <1>26, <1>27, <1>28, <1>29, <1>30, <1>31, <1>32, <1>33, <1>34, <1>35, <1>36, <1>37 DEF Next, Step, Gate

LEMMA LockStep ==
  ASSUME TypeOK, LockInv, [Next]_vars
  PROVE  LockInv'
<1> USE MergeAssumption DEF At, Goto, Stay, Hold, Drop, Write, Reset, End, Swap, Pending,
      IsMerged, github, files, local, history, TypeOK, LockInv, Critical, Locking, NoClaim
<1>1. ASSUME NEW p \in Proc, Begin(p) PROVE LockInv'
  BY <1>1 DEF Begin, Readable
<1>2. ASSUME NEW p \in Proc, Observe(p) PROVE LockInv'
  BY SMTT(60), <1>2 DEF Observe, Decision, NoClaim
<1>3. ASSUME NEW p \in Proc, Save(p) PROVE LockInv'
  BY Zenon, <1>3 DEF Save, SaveComplete
<1>4. ASSUME NEW p \in Proc, Reload(p) PROVE LockInv'
  BY SMTT(60), <1>4 DEF Reload, Charge, NoClaim
<1>5. ASSUME NEW p \in Proc, Create(p) PROVE LockInv'
  BY <1>5 DEF Create, NoClaim
<1>6. ASSUME NEW p \in Proc, Fill(p) PROVE LockInv'
  BY Zenon, <1>6 DEF Fill, Desired
<1>7. ASSUME NEW p \in Proc, Raced(p) PROVE LockInv'
  BY SMTT(60), <1>7 DEF Raced, Charge
<1>8. ASSUME NEW p \in Proc, OpenLock(p) PROVE LockInv'
  BY SMTT(60), <1>8 DEF OpenLock, LockFree, NoLock
<1>9. ASSUME NEW p \in Proc, WritePid(p) PROVE LockInv'
  BY Zenon, <1>9 DEF WritePid
<1>10. ASSUME NEW p \in Proc, ReadHolder(p) PROVE LockInv'
  BY <1>10 DEF ReadHolder
<1>11. ASSUME NEW p \in Proc, StealLock(p) PROVE LockInv'
  BY Zenon, <1>11 DEF StealLock, HeldByOther, NoLock
<1>12. ASSUME NEW p \in Proc, Compare(p) PROVE LockInv'
  BY <1>12 DEF Compare, CasEqual
<1>13. ASSUME NEW p \in Proc, WriteSwap(p) PROVE LockInv'
  BY Zenon, <1>13 DEF WriteSwap, Swapped, Desired, Quiet, Sending, Sent
<1>14. ASSUME NEW p \in Proc, Unlock(p) PROVE LockInv'
  <2>1. CASE cont[p] = "idle"
    BY <1>14, <2>1 DEF Unlock, HeldByOther, NoLock
  <2>2. CASE cont[p] # "idle"
    BY <1>14, <2>2 DEF Unlock, HeldByOther, NoLock
  <2> QED  BY Zenon, <1>14, <2>1, <2>2 DEF Unlock
<1>15. ASSUME NEW p \in Proc, SendMerge(p) PROVE LockInv'
  BY Zenon, <1>15 DEF SendMerge
<1>16. ASSUME NEW p \in Proc, Reply(p) PROVE LockInv'
  BY Zenon, <1>16 DEF Reply
<1>17. ASSUME NEW p \in Proc, Failed(p) PROVE LockInv'
  BY Zenon, <1>17 DEF Failed, Uncertain
<1>18. ASSUME NEW p \in Proc, Settle(p) PROVE LockInv'
  BY <1>18 DEF Settle, Decision
<1>19. ASSUME NEW p \in Proc, Record(p) PROVE LockInv'
  BY Zenon, <1>19 DEF Record, SaveComplete
<1>20. ASSUME NEW p \in Proc, Doubt(p) PROVE LockInv'
  BY Zenon, <1>20 DEF Doubt, Uncertain
<1>21. ASSUME NEW p \in Proc, Inspect(p) PROVE LockInv'
  BY Zenon, <1>21 DEF Inspect
<1>22. ASSUME NEW p \in Proc, Checks(p) PROVE LockInv'
  BY Zenon, <1>22 DEF Checks, ChecksPass
<1>23. ASSUME NEW p \in Proc, Stage(p) PROVE LockInv'
  BY Zenon, <1>23 DEF Stage
<1>24. ASSUME NEW p \in Proc, Fresh(p) PROVE LockInv'
  BY Zenon, <1>24 DEF Fresh, Unmoved
<1>25. ASSUME NEW p \in Proc, Refuse(p) PROVE LockInv'
  BY Zenon, <1>25 DEF Refuse
<1>26. ASSUME NEW p \in Proc, Answer(p) PROVE LockInv'
  BY Zenon, <1>26 DEF Answer, Merge, HeadMatches
<1>27. ASSUME NEW p \in Proc, Throw(p) PROVE LockInv'
  BY Zenon, <1>27 DEF Throw
<1>28. ASSUME NEW p \in Proc, Timeout(p) PROVE LockInv'
  BY Zenon, <1>28 DEF Timeout, Abandon
<1>29. ASSUME NEW p \in Proc, Crash(p) PROVE LockInv'
  BY Zenon, <1>29 DEF Crash, Abandon
<1>30. ASSUME NEW p \in Proc, CoolStale(p) PROVE LockInv'
  BY Zenon, <1>30 DEF CoolStale, Cold
<1>31. ASSUME NEW h \in Heads, AnswerLost(h) PROVE LockInv'
  BY Zenon, <1>31 DEF AnswerLost, Merge, HeadMatches
<1>32. CASE Push
  BY Zenon, <1>32 DEF Push
<1>33. CASE ChecksFinish
  BY Zenon, <1>33 DEF ChecksFinish
<1>34. CASE MergeByHand
  BY Zenon, <1>34 DEF MergeByHand
<1>35. CASE BaseFetched
  BY Zenon, <1>35 DEF BaseFetched
<1>36. CASE Cool
  BY Zenon, <1>36 DEF Cool, Cold
<1>37. CASE UNCHANGED vars
  BY Zenon, <1>37 DEF vars
<1> QED
  BY Zenon, <1>1, <1>2, <1>3, <1>4, <1>5, <1>6, <1>7, <1>8, <1>9, <1>10, <1>11, <1>12, <1>13, <1>14, <1>15, <1>16, <1>17, <1>18, <1>19, <1>20, <1>21, <1>22, <1>23, <1>24, <1>25, <1>26, <1>27, <1>28, <1>29, <1>30, <1>31, <1>32, <1>33, <1>34, <1>35, <1>36, <1>37 DEF Next, Step, Gate

LEMMA HoldStep ==
  ASSUME TypeOK, HoldInv, FirstInv, [Next]_vars
  PROVE  HoldInv'
<1> USE MergeAssumption DEF At, Goto, Stay, Hold, Drop, Write, Reset, End, Swap, Pending,
      IsMerged, github, files, local, history, TypeOK, HoldInv, FirstInv, Locking, NoClaim
<1>1. ASSUME NEW p \in Proc, Begin(p) PROVE HoldInv'
  BY SMTT(60), <1>1 DEF Begin, Readable
<1>2. ASSUME NEW p \in Proc, Observe(p) PROVE HoldInv'
  BY SMTT(60), <1>2 DEF Observe, Decision, NoClaim
<1>3. ASSUME NEW p \in Proc, Save(p) PROVE HoldInv'
  BY SMTT(60), <1>3 DEF Save, SaveComplete
<1>4. ASSUME NEW p \in Proc, Reload(p) PROVE HoldInv'
  BY SMTT(60), <1>4 DEF Reload, Charge, NoClaim
<1>5. ASSUME NEW p \in Proc, Create(p) PROVE HoldInv'
  BY SMTT(60), <1>5 DEF Create, NoClaim
<1>6. ASSUME NEW p \in Proc, Fill(p) PROVE HoldInv'
  BY SMTT(60), <1>6 DEF Fill, Desired
<1>7. ASSUME NEW p \in Proc, Raced(p) PROVE HoldInv'
  BY SMTT(60), <1>7 DEF Raced, Charge
<1>8. ASSUME NEW p \in Proc, OpenLock(p) PROVE HoldInv'
  BY SMTT(60), <1>8 DEF OpenLock, LockFree, NoLock
<1>9. ASSUME NEW p \in Proc, WritePid(p) PROVE HoldInv'
  BY SMTT(60), <1>9 DEF WritePid
<1>10. ASSUME NEW p \in Proc, ReadHolder(p) PROVE HoldInv'
  BY SMTT(60), <1>10 DEF ReadHolder
<1>11. ASSUME NEW p \in Proc, StealLock(p) PROVE HoldInv'
  BY SMTT(60), <1>11 DEF StealLock, HeldByOther, NoLock
<1>12. ASSUME NEW p \in Proc, Compare(p) PROVE HoldInv'
  BY SMTT(60), <1>12 DEF Compare, CasEqual
<1>13. ASSUME NEW p \in Proc, WriteSwap(p) PROVE HoldInv'
  BY SMTT(60), <1>13 DEF WriteSwap, Swapped, Desired, Quiet, Sending, Sent
<1>14. ASSUME NEW p \in Proc, Unlock(p) PROVE HoldInv'
  BY SMTT(60), <1>14 DEF Unlock, HeldByOther, NoLock, NoClaim
<1>15. ASSUME NEW p \in Proc, SendMerge(p) PROVE HoldInv'
  BY SMTT(60), <1>15 DEF SendMerge
<1>16. ASSUME NEW p \in Proc, Reply(p) PROVE HoldInv'
  BY SMTT(60), <1>16 DEF Reply
<1>17. ASSUME NEW p \in Proc, Failed(p) PROVE HoldInv'
  BY SMTT(60), <1>17 DEF Failed, Uncertain
<1>18. ASSUME NEW p \in Proc, Settle(p) PROVE HoldInv'
  BY SMTT(60), <1>18 DEF Settle, Decision
<1>19. ASSUME NEW p \in Proc, Record(p) PROVE HoldInv'
  BY SMTT(60), <1>19 DEF Record, SaveComplete
<1>20. ASSUME NEW p \in Proc, Doubt(p) PROVE HoldInv'
  BY SMTT(60), <1>20 DEF Doubt, Uncertain
<1>21. ASSUME NEW p \in Proc, Inspect(p) PROVE HoldInv'
  BY SMTT(60), <1>21 DEF Inspect
<1>22. ASSUME NEW p \in Proc, Checks(p) PROVE HoldInv'
  BY SMTT(60), <1>22 DEF Checks, ChecksPass
<1>23. ASSUME NEW p \in Proc, Stage(p) PROVE HoldInv'
  BY SMTT(60), <1>23 DEF Stage
<1>24. ASSUME NEW p \in Proc, Fresh(p) PROVE HoldInv'
  BY SMTT(60), <1>24 DEF Fresh, Unmoved
<1>25. ASSUME NEW p \in Proc, Refuse(p) PROVE HoldInv'
  BY SMTT(60), <1>25 DEF Refuse
<1>26. ASSUME NEW p \in Proc, Answer(p) PROVE HoldInv'
  BY SMTT(60), <1>26 DEF Answer, Merge, HeadMatches
<1>27. ASSUME NEW p \in Proc, Throw(p) PROVE HoldInv'
  BY SMTT(60), <1>27 DEF Throw
<1>28. ASSUME NEW p \in Proc, Timeout(p) PROVE HoldInv'
  BY SMTT(60), <1>28 DEF Timeout, Abandon
<1>29. ASSUME NEW p \in Proc, Crash(p) PROVE HoldInv'
  BY SMTT(60), <1>29 DEF Crash, Abandon
<1>30. ASSUME NEW p \in Proc, CoolStale(p) PROVE HoldInv'
  BY SMTT(60), <1>30 DEF CoolStale, Cold
<1>31. ASSUME NEW h \in Heads, AnswerLost(h) PROVE HoldInv'
  BY SMTT(60), <1>31 DEF AnswerLost, Merge, HeadMatches
<1>32. CASE Push
  BY <1>32 DEF Push
<1>33. CASE ChecksFinish
  BY SMTT(60), <1>33 DEF ChecksFinish
<1>34. CASE MergeByHand
  BY SMTT(60), <1>34 DEF MergeByHand
<1>35. CASE BaseFetched
  BY <1>35 DEF BaseFetched
<1>36. CASE Cool
  BY SMTT(60), <1>36 DEF Cool, Cold
<1>37. CASE UNCHANGED vars
  BY <1>37 DEF vars
<1> QED
  BY <1>1, <1>2, <1>3, <1>4, <1>5, <1>6, <1>7, <1>8, <1>9, <1>10, <1>11, <1>12, <1>13, <1>14, <1>15, <1>16, <1>17, <1>18, <1>19, <1>20, <1>21, <1>22, <1>23, <1>24, <1>25, <1>26, <1>27, <1>28, <1>29, <1>30, <1>31, <1>32, <1>33, <1>34, <1>35, <1>36, <1>37, Zenon DEF Next, Step, Gate

\* A step that leaves the outcome on file and hands a first claim to nobody.
Kept ==
  /\ claim'.outcome = claim.outcome
  /\ \A q \in Proc : /\ At(q, "fill")' => At(q, "fill")
                     /\ \/ have'[q].outcome = "none" \/ have[q].outcome # "none"
                        \/ claim.outcome \notin {"none", "empty"}

LEMMA KeptStep == FirstInv /\ Kept => FirstInv'
  BY Zenon DEF FirstInv, Kept

LEMMA EndKept ==
  ASSUME TypeOK, NEW p \in Proc, End(p), UNCHANGED claim
  PROVE  Kept
  BY Zenon DEF TypeOK, End, Reset, Goto, Kept, At, NoClaim

\* So does the write of a claim in the place of another.
LEMMA WrittenStep ==
  ASSUME FirstInv, NEW p \in Proc, have[p].outcome # "none",
         claim'.outcome \in {"started", "submitted", "uncertain", "complete"},
         \A q \in Proc : At(q, "fill")' => At(q, "fill")
  PROVE  FirstInv'
  BY Zenon DEF FirstInv

LEMMA FirstStep ==
  ASSUME TypeOK, HoldInv, FirstInv, [Next]_vars
  PROVE  FirstInv'
<1> USE DEF TypeOK, At, Goto, Stay, Hold, Drop, Write, Swap, github, files, local, history
<1>1. ASSUME NEW p \in Proc, Begin(p) PROVE Kept
  BY Zenon, <1>1 DEF Kept, Begin, Readable
<1>2. ASSUME NEW p \in Proc, Observe(p) PROVE Kept
  BY SMTT(60), <1>2, EndKept DEF Kept, Observe, NoClaim
<1>3. ASSUME NEW p \in Proc, Reload(p) PROVE Kept
  <2>1. CASE End(p)
    BY Zenon, <1>3, <2>1, EndKept DEF Reload
  <2>2. CASE ~End(p)
    BY <1>3, <2>2 DEF Kept, Reload, Charge
  <2> QED  BY Zenon, <2>1, <2>2
<1>4. ASSUME NEW p \in Proc, Raced(p) PROVE Kept
  BY Zenon, <1>4, EndKept DEF Kept, Raced, Charge
<1>5. ASSUME NEW p \in Proc, OpenLock(p) PROVE Kept
  BY Zenon, <1>5, EndKept DEF Kept, OpenLock
<1>6. ASSUME NEW p \in Proc, WritePid(p) PROVE Kept
  BY Zenon, <1>6 DEF Kept, WritePid
<1>7. ASSUME NEW p \in Proc, ReadHolder(p) PROVE Kept
  BY Zenon, <1>7, EndKept DEF Kept, ReadHolder
<1>8. ASSUME NEW p \in Proc, StealLock(p) PROVE Kept
  BY Zenon, <1>8 DEF Kept, StealLock
<1>9. ASSUME NEW p \in Proc, Compare(p) PROVE Kept
  BY Zenon, <1>9 DEF Kept, Compare
<1>10. ASSUME NEW p \in Proc, Unlock(p) PROVE Kept
  BY SMTT(60), <1>10, EndKept DEF Kept, Unlock, NoClaim
<1>11. ASSUME NEW p \in Proc, SendMerge(p) PROVE Kept
  BY Zenon, <1>11 DEF Kept, SendMerge
<1>12. ASSUME NEW p \in Proc, Reply(p) PROVE Kept
  BY Zenon, <1>12 DEF Kept, Reply
<1>13. ASSUME NEW p \in Proc, Settle(p) PROVE Kept
  BY Zenon, <1>13, EndKept DEF Kept, Settle
<1>14. ASSUME NEW p \in Proc, Inspect(p) PROVE Kept
  BY Zenon, <1>14 DEF Kept, Inspect
<1>15. ASSUME NEW p \in Proc, Checks(p) PROVE Kept
  BY Zenon, <1>15 DEF Kept, Checks
<1>16. ASSUME NEW p \in Proc, Stage(p) PROVE Kept
  BY Zenon, <1>16 DEF Kept, Stage
<1>17. ASSUME NEW p \in Proc, Fresh(p) PROVE Kept
  BY Zenon, <1>17 DEF Kept, Fresh
<1>18. ASSUME NEW p \in Proc, Refuse(p) PROVE Kept
  BY Zenon, <1>18, EndKept DEF Kept, Refuse
<1>19. ASSUME NEW p \in Proc, Answer(p) PROVE Kept
  BY Zenon, <1>19 DEF Kept, Answer
<1>20. ASSUME NEW p \in Proc, Throw(p) PROVE Kept
  BY Zenon, <1>20, EndKept DEF Kept, Throw
<1>21. ASSUME NEW p \in Proc, Timeout(p) PROVE Kept
  BY Zenon, <1>21 DEF Kept, Timeout
<1>22. ASSUME NEW p \in Proc, Crash(p) PROVE Kept
  BY Zenon, <1>22, EndKept DEF Kept, Crash
<1>23. ASSUME NEW p \in Proc, CoolStale(p) PROVE Kept
  BY Zenon, <1>23 DEF Kept, CoolStale, Cold, Pending
<1>24. ASSUME NEW h \in Heads, AnswerLost(h) PROVE Kept
  BY Zenon, <1>24 DEF Kept, AnswerLost
<1>25. ASSUME Push PROVE Kept
  BY Zenon, <1>25 DEF Kept, Push
<1>26. ASSUME ChecksFinish PROVE Kept
  BY Zenon, <1>26 DEF Kept, ChecksFinish
<1>27. ASSUME MergeByHand PROVE Kept
  BY Zenon, <1>27 DEF Kept, MergeByHand
<1>28. ASSUME BaseFetched PROVE Kept
  BY Zenon, <1>28 DEF Kept, BaseFetched
<1>29. ASSUME Cool PROVE Kept
  BY Zenon, <1>29 DEF Kept, Cool, Cold, Pending, Claims
<1>30. ASSUME UNCHANGED vars PROVE Kept
  BY Zenon, <1>30 DEF Kept, vars
<1>31. ASSUME NEW p \in Proc, Save(p) PROVE FirstInv'
  <2>1. have[p] \in Claims /\ have[p].outcome # "none"
    BY Zenon, <1>31 DEF Save, HoldInv, Pending
  <2>2. /\ claim'.outcome \in {"started", "submitted", "uncertain", "complete"}
        /\ \A q \in Proc : At(q, "fill")' => At(q, "fill")
    BY Zenon, <1>31, <2>1 DEF Save, SaveComplete, Reset, Claims
  <2> QED  BY Zenon, <2>1, <2>2, WrittenStep
<1>32. ASSUME NEW p \in Proc, WriteSwap(p) PROVE FirstInv'
  <2>1. have[p] \in Claims /\ have[p].outcome # "none"
    BY Zenon, <1>32 DEF WriteSwap, HoldInv, Pending, Locking
  <2>2. /\ claim'.outcome \in {"started", "submitted", "uncertain", "complete"}
        /\ \A q \in Proc : At(q, "fill")' => At(q, "fill")
    BY Zenon, <1>32, <2>1 DEF WriteSwap, Swapped, Desired, Locking, Claims
  <2> QED  BY Zenon, <2>1, <2>2, WrittenStep
<1>33. ASSUME NEW p \in Proc, Failed(p) PROVE FirstInv'
  <2>1. have[p] \in Claims /\ have[p].outcome # "none"
    BY Zenon, <1>33 DEF Failed, HoldInv, Pending
  <2>2. /\ claim'.outcome \in {"started", "submitted", "uncertain", "complete"}
        /\ \A q \in Proc : At(q, "fill")' => At(q, "fill")
    BY Zenon, <1>33, <2>1 DEF Failed, Uncertain, Claims
  <2> QED  BY Zenon, <2>1, <2>2, WrittenStep
<1>34. ASSUME NEW p \in Proc, Record(p) PROVE FirstInv'
  <2>1. have[p] \in Claims /\ have[p].outcome # "none"
    BY Zenon, <1>34 DEF Record, HoldInv, Pending
  <2>2. /\ claim'.outcome \in {"started", "submitted", "uncertain", "complete"}
        /\ \A q \in Proc : At(q, "fill")' => At(q, "fill")
    BY Zenon, <1>34, <2>1 DEF Record, SaveComplete, Reset, Claims
  <2> QED  BY Zenon, <2>1, <2>2, WrittenStep
<1>35. ASSUME NEW p \in Proc, Doubt(p) PROVE FirstInv'
  <2>1. have[p] \in Claims /\ have[p].outcome # "none"
    BY Zenon, <1>35 DEF Doubt, HoldInv, Pending
  <2>2. /\ claim'.outcome \in {"started", "submitted", "uncertain", "complete"}
        /\ \A q \in Proc : At(q, "fill")' => At(q, "fill")
    BY Zenon, <1>35, <2>1 DEF Doubt, Uncertain, Reset, Claims
  <2> QED  BY Zenon, <2>1, <2>2, WrittenStep
<1>36. ASSUME NEW p \in Proc, Create(p) PROVE FirstInv'
  <2>1. CASE claim = NoClaim
    <3>1. /\ claim.outcome = "none" /\ claim'.outcome = "empty" /\ have' = have
          /\ pc' = [pc EXCEPT ![p] = "fill"]
      BY Zenon, <1>36, <2>1 DEF Create, NoClaim
    <3> QED  BY Zenon, <3>1 DEF FirstInv
  <2>2. CASE claim # NoClaim
    <3>1. Kept
      BY Zenon, <1>36, <2>2 DEF Create, Kept
    <3> QED  BY Zenon, <3>1, KeptStep
  <2> QED  BY Zenon, <2>1, <2>2
<1>37. ASSUME NEW p \in Proc, Fill(p) PROVE FirstInv'
  <2>1. claim'.outcome = "started" /\ pc' = [pc EXCEPT ![p] = "fresh"] /\ At(p, "fill")
    BY Zenon, <1>37 DEF Fill, Desired
  <2> QED  BY Zenon, <2>1 DEF FirstInv
<1> HIDE DEF TypeOK, At, Goto, Stay, Hold, Drop
<1> QED
  BY Zenon, KeptStep, <1>1, <1>2, <1>3, <1>4, <1>5, <1>6, <1>7, <1>8, <1>9, <1>10, <1>11, <1>12, <1>13, <1>14, <1>15, <1>16, <1>17, <1>18, <1>19, <1>20, <1>21, <1>22, <1>23, <1>24, <1>25, <1>26, <1>27, <1>28, <1>29, <1>30, <1>31, <1>32, <1>33, <1>34, <1>35, <1>36, <1>37 DEF Next, Step, Gate

\* A step that changes no head, merge or lost call, and takes nobody past a gate.
Steady ==
  /\ UNCHANGED <<head, merged, green, lost>>
  /\ \A q \in Proc :
       \/ live'[q] = 0 /\ ~Gated(q)'
       \/ /\ live'[q] = live[q] /\ (Gated(q)' => Gated(q))
          /\ At(q, "checks") => At(q, "checks")' \/ green

LEMMA SteadyStep == TypeOK /\ HeadInv /\ Steady => HeadInv'
  BY SMTT(60), MergeAssumption DEF TypeOK, HeadInv, Steady, MergedHeadChecked, Heads, At

LEMMA EndSteady ==
  ASSUME TypeOK, NEW p \in Proc, End(p), UNCHANGED <<head, merged, green, lost>>
  PROVE  Steady
  BY Zenon DEF TypeOK, End, Reset, Goto, Steady, Gated, At

LEMMA HeadStep ==
  ASSUME TypeOK, HoldInv, HeadInv, [Next]_vars
  PROVE  HeadInv'
<1> USE DEF TypeOK, At, Goto, Stay, Hold, Drop, Write, Swap, github, files, local, history
<1>1. ASSUME NEW p \in Proc, Begin(p) PROVE Steady
  BY SMTT(60), <1>1 DEF Steady, Gated, Begin
<1>2. ASSUME NEW p \in Proc, Observe(p) PROVE Steady
  <2>1. CASE End(p)
    BY Zenon, <1>2, <2>1, EndSteady DEF Observe
  <2>2. CASE ~End(p)
    BY SMTT(60), <1>2, <2>2 DEF Steady, Gated, Observe
  <2> QED  BY Zenon, <2>1, <2>2
<1>3. ASSUME NEW p \in Proc, Save(p) PROVE Steady
  BY Zenon, <1>3 DEF Steady, Gated, Save, SaveComplete, Reset
<1>4. ASSUME NEW p \in Proc, Reload(p) PROVE Steady
  <2>1. CASE End(p)
    BY Zenon, <1>4, <2>1, EndSteady DEF Reload
  <2>2. CASE ~End(p)
    BY <1>4, <2>2 DEF Steady, Gated, Reload, Charge
  <2> QED  BY Zenon, <2>1, <2>2
<1>5. ASSUME NEW p \in Proc, Create(p) PROVE Steady
  BY Zenon, <1>5 DEF Steady, Gated, Create
<1>6. ASSUME NEW p \in Proc, Fill(p) PROVE Steady
  BY Zenon, <1>6 DEF Steady, Gated, Fill
<1>7. ASSUME NEW p \in Proc, Raced(p) PROVE Steady
  BY Zenon, <1>7, EndSteady DEF Steady, Gated, Raced, Charge
<1>8. ASSUME NEW p \in Proc, OpenLock(p) PROVE Steady
  BY <1>8, EndSteady DEF Steady, Gated, OpenLock
<1>9. ASSUME NEW p \in Proc, WritePid(p) PROVE Steady
  BY Zenon, <1>9 DEF Steady, Gated, WritePid
<1>10. ASSUME NEW p \in Proc, ReadHolder(p) PROVE Steady
  BY SMTT(60), <1>10, EndSteady DEF Steady, Gated, ReadHolder
<1>11. ASSUME NEW p \in Proc, StealLock(p) PROVE Steady
  BY Zenon, <1>11 DEF Steady, Gated, StealLock
<1>12. ASSUME NEW p \in Proc, Compare(p) PROVE Steady
  BY SMTT(60), <1>12 DEF Steady, Gated, Compare
<1>13. ASSUME NEW p \in Proc, WriteSwap(p) PROVE Steady
  BY Zenon, <1>13 DEF Steady, Gated, WriteSwap
<1>14. ASSUME NEW p \in Proc, Unlock(p) PROVE Steady
  BY SMTT(60), <1>14, EndSteady DEF Steady, Gated, Unlock
<1>15. ASSUME NEW p \in Proc, SendMerge(p) PROVE Steady
  BY Zenon, <1>15 DEF Steady, Gated, SendMerge
<1>16. ASSUME NEW p \in Proc, Reply(p) PROVE Steady
  BY Zenon, <1>16 DEF Steady, Gated, Reply
<1>17. ASSUME NEW p \in Proc, Failed(p) PROVE Steady
  BY Zenon, <1>17 DEF Steady, Gated, Failed
<1>18. ASSUME NEW p \in Proc, Settle(p) PROVE Steady
  <2>1. CASE End(p)
    BY Zenon, <1>18, <2>1, EndSteady DEF Settle
  <2>2. CASE ~End(p)
    BY <1>18, <2>2 DEF Steady, Gated, Settle
  <2> QED  BY Zenon, <2>1, <2>2
<1>19. ASSUME NEW p \in Proc, Record(p) PROVE Steady
  BY Zenon, <1>19 DEF Steady, Gated, Record, SaveComplete, Reset
<1>20. ASSUME NEW p \in Proc, Doubt(p) PROVE Steady
  BY Zenon, <1>20 DEF Steady, Gated, Doubt, Reset
<1>21. ASSUME NEW p \in Proc, Checks(p) PROVE Steady
  BY Zenon, <1>21 DEF Steady, Gated, Checks, ChecksPass
<1>22. ASSUME NEW p \in Proc, Stage(p) PROVE Steady
  BY Zenon, <1>22 DEF Steady, Gated, Stage
<1>23. ASSUME NEW p \in Proc, Fresh(p) PROVE Steady
  BY Zenon, <1>23 DEF Steady, Gated, Fresh
<1>24. ASSUME NEW p \in Proc, Refuse(p) PROVE Steady
  BY Zenon, <1>24, EndSteady DEF Steady, Gated, Refuse
<1>25. ASSUME NEW p \in Proc, Throw(p) PROVE Steady
  BY Zenon, <1>25, EndSteady DEF Steady, Gated, Throw
<1>26. ASSUME NEW p \in Proc, CoolStale(p) PROVE Steady
  BY Zenon, <1>26 DEF Steady, Gated, CoolStale
<1>27. ASSUME BaseFetched PROVE Steady
  BY Zenon, <1>27 DEF Steady, Gated, BaseFetched
<1>28. ASSUME Cool PROVE Steady
  BY Zenon, <1>28 DEF Steady, Gated, Cool
<1>29. ASSUME UNCHANGED vars PROVE Steady
  BY Zenon, <1>29 DEF Steady, Gated, vars
<1>30. ASSUME NEW p \in Proc, Inspect(p) PROVE HeadInv'
  BY SMTT(60), <1>30 DEF Inspect, HeadInv, Gated, MergedHeadChecked, IsMerged, Heads
<1>31. ASSUME NEW p \in Proc, Answer(p) PROVE HeadInv'
  <2>1. At(p, "merging")
    BY Zenon, <1>31 DEF Answer, HoldInv
  <2>2. UNCHANGED <<head, green, lost, pc, live, cont>>
    BY Zenon, <1>31 DEF Answer
  <2>3. MergedHeadChecked'
    BY SMTT(60), <1>31, <2>1, <2>2 DEF Answer, Merge, HeadMatches, HeadInv, MergedHeadChecked
  <2> QED  BY Zenon, <2>2, <2>3 DEF HeadInv, Gated
<1>32. ASSUME NEW p \in Proc, Timeout(p) \/ Crash(p) PROVE HeadInv'
  <2>1. CASE call[p] # "sent"
    <3>1. Steady
      BY Zenon, <1>32, <2>1, EndSteady DEF Timeout, Crash, Abandon, Steady, Gated
    <3> QED  BY Zenon, <3>1, SteadyStep
  <2>2. CASE call[p] = "sent"
    <3>1. At(p, "merging")
      BY Zenon, <2>2 DEF HoldInv
    <3>2. live[p] \in Heads /\ live[p] <= head /\ (live[p] = head => green)
      BY Zenon, <3>1 DEF HeadInv, Gated
    <3>3. \A h \in Heads : lost'[h] > 0 => lost[h] > 0 \/ h = live[p]
      BY Zenon, <1>32, <2>2 DEF Timeout, Crash, Abandon
    <3>4. UNCHANGED <<merged, head, green>>
      BY Zenon, <1>32 DEF Timeout, Crash
    <3>5. \A q \in Proc : \/ live'[q] = 0 /\ ~Gated(q)'
                          \/ live'[q] = live[q] /\ (Gated(q)' => Gated(q)) /\ (At(q, "checks") => At(q, "checks")')
      BY <1>32, <3>1 DEF Timeout, Crash, End, Reset, Gated
    <3> QED  BY SMTT(60), <3>2, <3>3, <3>4, <3>5, MergeAssumption DEF HeadInv, MergedHeadChecked, Heads
  <2> QED  BY Zenon, <2>1, <2>2
<1>33. ASSUME NEW h \in Heads, AnswerLost(h) PROVE HeadInv'
  <2>1. UNCHANGED <<head, green, pc, live, cont>> /\ \A g \in Heads : lost'[g] > 0 => lost[g] > 0
    BY Zenon, <1>33, MergeAssumption DEF AnswerLost
  <2>2. MergedHeadChecked'
    BY Zenon, <1>33 DEF AnswerLost, Merge, HeadMatches, HeadInv, MergedHeadChecked
  <2> QED  BY Zenon, <2>1, <2>2 DEF HeadInv, Gated
<1>34. ASSUME Push PROVE HeadInv'
  <2>1. head' = head + 1 /\ merged = "no" /\ UNCHANGED <<merged, lost, pc, live, cont>>
    BY Zenon, <1>34 DEF Push, IsMerged
  <2>2. head \in Nat /\ \A q \in Proc : live[q] \in Nat
    BY SMTT(60), MergeAssumption DEF Heads
  <2> QED  BY SMTT(60), <2>1, <2>2 DEF HeadInv, Gated, MergedHeadChecked, Heads
<1>35. ASSUME ChecksFinish \/ MergeByHand PROVE HeadInv'
  BY Zenon, <1>35 DEF ChecksFinish, MergeByHand, IsMerged, HeadInv, Gated, MergedHeadChecked
<1> HIDE DEF TypeOK, At, Goto, Stay, Hold, Drop
<1> QED
  BY Zenon, SteadyStep, <1>1, <1>2, <1>3, <1>4, <1>5, <1>6, <1>7, <1>8, <1>9, <1>10, <1>11, <1>12, <1>13, <1>14, <1>15, <1>16, <1>17, <1>18, <1>19, <1>20, <1>21, <1>22, <1>23, <1>24, <1>25, <1>26, <1>27, <1>28, <1>29, <1>30, <1>31, <1>32, <1>33, <1>34, <1>35 DEF Next, Step, Gate

\* A step that starts no call, leaves the lost ones, and unmarks no claim.
Calm ==
  /\ Busy' \subseteq Busy /\ lost' = lost
  /\ hasty' = hasty /\ (stolen => stolen')
  /\ Marked => Marked'
  /\ \A q \in Proc : At(q, "swap")' => At(q, "swap") /\ cont'[q] = cont[q]

LEMMA CalmStep == CallInv /\ Calm => CallInv'
<1> SUFFICES ASSUME CallInv, Calm, ~hasty, ~stolen
             PROVE  CallInv'
  BY SMTT(60) DEF CallInv, Calm
<1>1. Busy' \subseteq Busy /\ (NoneLost <=> NoneLost')
  BY Zenon DEF Calm, NoneLost
<1>2. OneBusy' /\ OneLost' /\ (Busy # {} => NoneLost)'
  BY Zenon, <1>1 DEF CallInv, Calm, OneBusy, OneLost
<1>3. Covered' /\ SwapAlone'
  BY Zenon, <1>1 DEF CallInv, Calm, Covered, SwapAlone
<1> QED  BY Zenon, <1>2, <1>3 DEF CallInv

\* An attempt that ends, anywhere but at its call, is calm.
LEMMA EndCalm ==
  ASSUME TypeOK, NEW p \in Proc, End(p), UNCHANGED <<call, lost, claim, hasty>>, stolen => stolen'
  PROVE  Calm
  BY Zenon DEF TypeOK, End, Reset, Goto, Calm, Busy, Sending, Sent, At, Marked, Pending

LEMMA CallStep ==
  ASSUME TypeOK, LockInv, HoldInv, FirstInv, HeadInv, CallInv, [Next]_vars
  PROVE  CallInv'
<1> USE DEF TypeOK, At, Goto, Stay, Hold, Drop, Write, Swap, github, files, local, history
<1> USE DEF Calm, Busy, Sending, Sent, Marked, Pending
<1>1. ASSUME NEW p \in Proc, Begin(p) PROVE Calm
  BY SMTT(60), <1>1 DEF Begin
<1>2. ASSUME NEW p \in Proc, Observe(p) PROVE Calm
  <2>1. CASE End(p)
    BY Zenon, <1>2, <2>1, EndCalm DEF Observe
  <2>2. CASE ~End(p)
    BY <1>2, <2>2 DEF Observe
  <2> QED  BY Zenon, <2>1, <2>2
<1>3. ASSUME NEW p \in Proc, Save(p) PROVE Calm
  BY Zenon, <1>3 DEF Save, SaveComplete, Reset, Claims
<1>4. ASSUME NEW p \in Proc, Reload(p) PROVE Calm
  <2>1. CASE End(p)
    BY Zenon, <1>4, <2>1, EndCalm DEF Reload
  <2>2. CASE ~End(p)
    BY <1>4, <2>2 DEF Reload, Charge
  <2> QED  BY Zenon, <2>1, <2>2
<1>5. ASSUME NEW p \in Proc, Create(p) PROVE Calm
  BY SMTT(60), <1>5 DEF Create, NoClaim
<1>6. ASSUME NEW p \in Proc, Fill(p) PROVE Calm
  BY Zenon, <1>6 DEF Fill, FirstInv
<1>7. ASSUME NEW p \in Proc, Raced(p) PROVE Calm
  BY Zenon, <1>7, EndCalm DEF Raced, Charge
<1>8. ASSUME NEW p \in Proc, OpenLock(p) PROVE Calm
  BY Zenon, <1>8, EndCalm DEF OpenLock
<1>9. ASSUME NEW p \in Proc, WritePid(p) PROVE Calm
  BY Zenon, <1>9 DEF WritePid
<1>10. ASSUME NEW p \in Proc, ReadHolder(p) PROVE Calm
  BY Zenon, <1>10, EndCalm DEF ReadHolder
<1>11. ASSUME NEW p \in Proc, StealLock(p) PROVE Calm
  BY Zenon, <1>11 DEF StealLock
<1>12. ASSUME NEW p \in Proc, Unlock(p) PROVE Calm
  BY SMTT(60), <1>12, EndCalm DEF Unlock
<1>13. ASSUME NEW p \in Proc, SendMerge(p) PROVE Calm
  BY Zenon, <1>13 DEF SendMerge
<1>14. ASSUME NEW p \in Proc, Reply(p) PROVE Calm
  BY Zenon, <1>14 DEF Reply
<1>15. ASSUME NEW p \in Proc, Failed(p) PROVE Calm
  BY Zenon, <1>15 DEF Failed, Uncertain, Claims
<1>16. ASSUME NEW p \in Proc, Settle(p) PROVE Calm
  BY Zenon, <1>16, EndCalm DEF Settle
<1>17. ASSUME NEW p \in Proc, Record(p) PROVE Calm
  BY Zenon, <1>17 DEF Record, SaveComplete, Reset, Claims
<1>18. ASSUME NEW p \in Proc, Doubt(p) PROVE Calm
  BY Zenon, <1>18 DEF Doubt, Uncertain, Reset, Claims
<1>19. ASSUME NEW p \in Proc, Inspect(p) PROVE Calm
  BY Zenon, <1>19 DEF Inspect
<1>20. ASSUME NEW p \in Proc, Checks(p) PROVE Calm
  BY Zenon, <1>20 DEF Checks
<1>21. ASSUME NEW p \in Proc, Stage(p) PROVE Calm
  BY Zenon, <1>21 DEF Stage
<1>22. ASSUME NEW p \in Proc, Fresh(p) PROVE Calm
  BY Zenon, <1>22 DEF Fresh
<1>23. ASSUME NEW p \in Proc, Refuse(p) PROVE Calm
  BY Zenon, <1>23, EndCalm DEF Refuse
<1>24. ASSUME NEW p \in Proc, Answer(p) PROVE Calm
  BY Zenon, <1>24 DEF Answer, Merge
<1>25. ASSUME NEW p \in Proc, Throw(p) PROVE Calm
  BY Zenon, <1>25, EndCalm DEF Throw
<1>26. ASSUME NEW p \in Proc, CoolStale(p) PROVE Calm
  BY Zenon, <1>26 DEF CoolStale
<1>27. ASSUME Push PROVE Calm
  BY Zenon, <1>27 DEF Push
<1>28. ASSUME ChecksFinish PROVE Calm
  BY Zenon, <1>28 DEF ChecksFinish
<1>29. ASSUME MergeByHand PROVE Calm
  BY Zenon, <1>29 DEF MergeByHand
<1>30. ASSUME BaseFetched PROVE Calm
  BY Zenon, <1>30 DEF BaseFetched
<1>31. ASSUME Cool PROVE Calm
  BY Zenon, <1>31 DEF Cool, Cold, Claims
<1>32. ASSUME UNCHANGED vars PROVE Calm
  BY Zenon, <1>32 DEF vars
<1>33. ASSUME NEW p \in Proc, Compare(p) PROVE CallInv'
  <2>1. CASE CasEqual(p)
    <3>1. UNCHANGED <<claim, lost, hasty, stolen, cont, call>> /\ pc' = [pc EXCEPT ![p] = "swap"]
      BY Zenon, <1>33, <2>1 DEF Compare
    <3>2. Busy' = Busy /\ (Marked <=> Marked')
      BY SMTT(60), <3>1, <1>33 DEF Compare
    <3>3. cont[p] # "inspect" => ~Marked
      BY Zenon, <1>33, <2>1 DEF Compare, CasEqual, HoldInv, Locking
    <3>4. \A q \in Proc : At(q, "swap")' => q = p \/ At(q, "swap")
      BY Zenon, <3>1
    <3> HIDE DEF Busy, Marked, TypeOK, Calm, At
    <3>5. CallInv /\ ~hasty /\ ~stolen => SwapAlone'
      BY Zenon, <3>1, <3>2, <3>3, <3>4 DEF CallInv, Covered, SwapAlone, NoneLost
    <3> QED  BY Zenon, <3>1, <3>2, <3>5 DEF CallInv, OneBusy, OneLost, Covered, NoneLost
  <2>2. CASE ~CasEqual(p)
    <3>1. Calm
      BY <1>33, <2>2 DEF Compare
    <3> QED  BY Zenon, <3>1, CalmStep
  <2> QED  BY Zenon, <2>1, <2>2
<1>34. ASSUME NEW p \in Proc, WriteSwap(p) PROVE CallInv'
  <2>1. SUFFICES ASSUME ~hasty, ~stolen, ~hasty' PROVE CallInv'
    BY Zenon, <1>34 DEF WriteSwap, CallInv
  <2>2. Busy = {} /\ NoneLost
    <3>1. cont[p] = "inspect" => Quiet /\ Sending = {}
      BY Zenon, <1>34, <2>1 DEF WriteSwap
    <3>2. cont[p] = "inspect" => Busy = {} /\ NoneLost
      BY Zenon, <3>1 DEF Quiet, NoneLost
    <3> HIDE DEF Busy
    <3> QED  BY Zenon, <1>34, <2>1, <3>2 DEF WriteSwap, CallInv, SwapAlone
  <2>3. \A q \in Proc : ~At(q, "swap")'
    BY Zenon, <1>34, <2>1 DEF WriteSwap, LockInv, Critical
  <2>4. Busy' \subseteq {p} /\ lost' = lost
    BY Zenon, <1>34, <2>2 DEF WriteSwap
  <2>5. Busy' # {} => Marked'
    <3>1. Busy' # {} => cont[p] = "call"
      BY Zenon, <1>34, <2>2, <2>4 DEF WriteSwap
    <3> QED  BY Zenon, <1>34, <3>1 DEF WriteSwap, Swapped, Claims
  <2> HIDE DEF Busy, Marked, TypeOK, Calm, At
  <2>6. NoneLost' /\ OneLost' /\ SwapAlone'
    BY SMTT(60), <2>2, <2>3, <2>4 DEF OneLost, NoneLost, SwapAlone
  <2> QED  BY Zenon, <2>4, <2>5, <2>6 DEF CallInv, OneBusy, Covered
<1>35. ASSUME NEW p \in Proc, Timeout(p) PROVE CallInv'
  <2>1. CASE call[p] = "sent"
    <3>1. SUFFICES ASSUME ~hasty, ~stolen PROVE CallInv'
      BY Zenon, <1>35 DEF Timeout, CallInv
    <3>2. pc[p] = "merging" /\ p \in Busy
      BY Zenon, <2>1 DEF HoldInv
    <3>3. OneBusy /\ NoneLost /\ Marked /\ SwapAlone /\ live[p] \in Heads
      <4> HIDE DEF Busy, Marked, TypeOK
      <4> QED  BY Zenon, <3>1, <3>2 DEF CallInv, Covered, HeadInv, Gated
    <3>4. Busy' \subseteq Busy \ {p}
      BY Zenon, <1>35, <3>2 DEF Timeout, Abandon
    <3>5. Busy' = {}
      <4> HIDE DEF Busy
      <4> QED  BY Zenon, <3>2, <3>3, <3>4 DEF OneBusy
    <3>6. lost' = [lost EXCEPT ![live[p]] = 1] /\ Marked'
      BY SMTT(60), <1>35, <2>1, <3>3 DEF Timeout, Abandon, NoneLost
    <3>7. \A q \in Proc : At(q, "swap")' => At(q, "swap") /\ cont'[q] = cont[q]
      BY Zenon, <1>35 DEF Timeout
    <3>8. SwapAlone'
      <4> HIDE DEF Busy, NoneLost
      <4> QED  BY Zenon, <3>2, <3>3, <3>7 DEF SwapAlone
    <3>9. OneLost'
      BY SMTT(60), <3>3, <3>6 DEF OneLost, NoneLost
    <3> HIDE DEF Busy, Marked, TypeOK, Calm
    <3> QED  BY Zenon, <3>5, <3>6, <3>8, <3>9 DEF CallInv, OneBusy, Covered
  <2>2. CASE call[p] # "sent"
    <3>1. Calm
      BY Zenon, <1>35, <2>2 DEF Timeout, Abandon
    <3> QED  BY Zenon, <3>1, CalmStep
  <2> QED  BY Zenon, <2>1, <2>2
<1>36. ASSUME NEW p \in Proc, Crash(p) PROVE CallInv'
  <2>1. CASE call[p] = "sent"
    <3>1. SUFFICES ASSUME ~hasty, ~stolen PROVE CallInv'
      BY Zenon, <1>36 DEF Crash, CallInv
    <3>2. pc[p] = "merging" /\ p \in Busy
      BY Zenon, <2>1 DEF HoldInv
    <3>3. OneBusy /\ NoneLost /\ Marked /\ SwapAlone /\ live[p] \in Heads
      <4> HIDE DEF Busy, Marked, TypeOK
      <4> QED  BY Zenon, <3>1, <3>2 DEF CallInv, Covered, HeadInv, Gated
    <3>4. Busy' \subseteq Busy \ {p}
      BY Zenon, <1>36, <3>2 DEF Crash, Abandon, End, Reset
    <3>5. Busy' = {}
      <4> HIDE DEF Busy
      <4> QED  BY Zenon, <3>2, <3>3, <3>4 DEF OneBusy
    <3>6. lost' = [lost EXCEPT ![live[p]] = 1] /\ Marked'
      BY SMTT(60), <1>36, <2>1, <3>3 DEF Crash, Abandon, NoneLost
    <3>7. \A q \in Proc : At(q, "swap")' => At(q, "swap") /\ cont'[q] = cont[q]
      BY Zenon, <1>36 DEF Crash, End, Reset
    <3>8. SwapAlone'
      <4> HIDE DEF Busy, NoneLost
      <4> QED  BY Zenon, <3>2, <3>3, <3>7 DEF SwapAlone
    <3>9. OneLost'
      BY SMTT(60), <3>3, <3>6 DEF OneLost, NoneLost
    <3> HIDE DEF Busy, Marked, TypeOK, Calm
    <3> QED  BY Zenon, <3>5, <3>6, <3>8, <3>9 DEF CallInv, OneBusy, Covered
  <2>2. CASE call[p] # "sent"
    <3>1. Calm
      BY Zenon, <1>36, <2>2, EndCalm DEF Crash, Abandon, End, Reset
    <3> QED  BY Zenon, <3>1, CalmStep
  <2> QED  BY Zenon, <2>1, <2>2
<1>37. ASSUME NEW h \in Heads, AnswerLost(h) PROVE CallInv'
  <2>1. Busy' = Busy /\ (Marked <=> Marked') /\ UNCHANGED <<hasty, stolen, pc, cont>>
    BY Zenon, <1>37 DEF AnswerLost
  <2>2. \A g \in Heads : lost'[g] = IF g = h THEN lost[g] - 1 ELSE lost[g]
    BY Zenon, <1>37 DEF AnswerLost
  <2>3. lost[h] > 0 /\ \A g \in Heads : lost[g] \in Nat
    BY SMTT(60), <1>37, MergeAssumption DEF AnswerLost
  <2>4. ~NoneLost
    BY SMTT(60), <2>3 DEF NoneLost
  <2>5. OneLost => OneLost' /\ NoneLost'
    BY SMTT(60), <2>2, <2>3 DEF OneLost, NoneLost
  <2> HIDE DEF Busy, Marked, TypeOK, Calm
  <2> QED  BY Zenon, <2>1, <2>4, <2>5 DEF CallInv, OneBusy, Covered, SwapAlone
<1> HIDE DEF Calm, Busy, Sending, Sent, Marked, Pending, TypeOK, At, Goto, Stay, Hold, Drop
<1> QED
  BY Zenon, CalmStep, <1>1, <1>2, <1>3, <1>4, <1>5, <1>6, <1>7, <1>8, <1>9, <1>10, <1>11, <1>12, <1>13, <1>14, <1>15, <1>16, <1>17, <1>18, <1>19, <1>20, <1>21, <1>22, <1>23, <1>24, <1>25, <1>26, <1>27, <1>28, <1>29, <1>30, <1>31, <1>32, <1>33, <1>34, <1>35, <1>36, <1>37 DEF Next, Step, Gate

LEMMA InitHolds == Init => IInv
<1> SUFFICES ASSUME Init PROVE IInv
  OBVIOUS
<1>1. TypeOK
  <2>1. 1 \in Heads /\ 0 \in 0..MaxLost /\ 0 \in 0..MaxCrashes
    BY SMTT(60), MergeAssumption DEF Heads
  <2>2. NoClaim \in Claims
    BY Zenon, ClaimTypes
  <2>3. /\ pc \in [Proc -> Locations] /\ cont \in [Proc -> {"idle", "inspect", "fresh", "call"}]
        /\ live \in [Proc -> Heads \cup {0}] /\ call \in [Proc -> {"none", "sent", "ok", "error"}]
    BY Zenon DEF Init, Locations
  <2>4. /\ have \in [Proc -> Claims] /\ claim \in Claims /\ lost \in [Heads -> 0..MaxLost]
        /\ current \subseteq Proc
    BY Zenon, <2>1, <2>2 DEF Init
  <2>5. lock \in [owner : Proc \cup {"none"}, pid : {"none", "blank", "alive", "dead"}]
    BY Zenon DEF Init, NoLock
  <2>6. /\ merged \in {"no", "pipeline", "person"} /\ head \in Heads /\ crashes \in 0..MaxCrashes
        /\ green \in BOOLEAN /\ contained \in BOOLEAN /\ hasty \in BOOLEAN /\ stolen \in BOOLEAN
    BY Zenon, <2>1 DEF Init
  <2> QED  BY Zenon, <2>3, <2>4, <2>5, <2>6 DEF TypeOK
<1>2. \A p \in Proc : /\ pc[p] = "idle" /\ cont[p] = "idle" /\ live[p] = 0
                      /\ call[p] = "none" /\ have[p].outcome = "none"
  BY Zenon DEF Init, NoClaim
<1>3. /\ current = {} /\ lock.owner = "none" /\ claim.outcome = "none"
      /\ merged = "no" /\ head = 1 /\ \A h \in Heads : lost[h] = 0
  BY Zenon DEF Init, NoLock, NoClaim
<1>4. LockInv /\ HoldInv /\ FirstInv
  BY Zenon, <1>2, <1>3, MergeAssumption DEF LockInv, HoldInv, FirstInv, Critical, Locking, At, Pending
<1>5. HeadInv
  BY SMTT(60), <1>2, <1>3 DEF HeadInv, Gated, MergedHeadChecked
<1>6. Busy = {} /\ NoneLost
  BY Zenon, <1>2, <1>3 DEF Busy, Sending, Sent, NoneLost, At
<1>7. CallInv
  BY SMTT(60), <1>3, <1>6 DEF CallInv, OneBusy, OneLost, Covered, SwapAlone, NoneLost
<1> QED  BY Zenon, <1>1, <1>4, <1>5, <1>7 DEF IInv

LEMMA Inductive == IInv /\ [Next]_vars => IInv'
  BY Zenon, TypeStep, LockStep, HoldStep, FirstStep, HeadStep, CallStep DEF IInv

\* The invariant holds in every reachable state.
THEOREM Invariance == Spec => []IInv
  BY InitHolds, Inductive, PTL DEF Spec

\* For any number of processes, heads, lost calls and crashes: what the pipeline
\* merges is a head whose checks are green.
THEOREM GreenMerges == Spec => []MergedHeadChecked
<1>1. IInv => MergedHeadChecked
  BY Zenon DEF IInv, HeadInv
<1> QED  BY <1>1, Invariance, PTL

\* For any number of them: while a merge call is outstanding the claim file says
\* so, unless a claim was reset early or a lock stolen.
THEOREM CallsUnderClaim == Spec => []CallUnderClaim
<1>1. IInv => CallUnderClaim
  BY Zenon DEF IInv, CallInv, CallUnderClaim, Quiet, Busy, NoneLost, Covered, Marked
<1> QED  BY <1>1, Invariance, PTL

\* For any number of them: one merge call at a time, with the same exceptions.
THEOREM SingleCall == Spec => []OneCall
<1>1. IInv => OneCall
  BY SMTT(60) DEF IInv, CallInv, OneCall, Busy, NoneLost, OneBusy, OneLost
<1> QED  BY <1>1, Invariance, PTL

\* Every step is a step of MergeOperation, or changes nothing it sees.
LEMMA StepRefines ==
  ASSUME IInv, [Next]_vars
  PROVE  [Operation!Next]_(Operation!vars)
<1> USE DEF github, files, local, history
<1>1. ASSUME UNCHANGED <<merged, green, contained, claim, hasty, stolen>>
      PROVE  UNCHANGED Operation!vars
  BY Zenon, <1>1 DEF Operation!vars, Certainty, Excused, Pending
<1>2. ASSUME NEW p \in Proc,
             \/ Begin(p) \/ Observe(p) \/ Reload(p) \/ Raced(p) \/ OpenLock(p)
             \/ WritePid(p) \/ ReadHolder(p) \/ Compare(p) \/ SendMerge(p) \/ Reply(p)
             \/ Settle(p) \/ Inspect(p) \/ Checks(p) \/ Stage(p) \/ Fresh(p)
             \/ Refuse(p) \/ Throw(p) \/ Timeout(p) \/ Crash(p) \/ CoolStale(p)
      PROVE  UNCHANGED Operation!vars
  BY Zenon, <1>1, <1>2 DEF Begin, Observe, Reload, Raced, OpenLock, WritePid, ReadHolder, Compare, SendMerge, Reply, Settle, Inspect, Checks, Stage, Fresh, Refuse, Throw, Timeout, Crash, CoolStale
<1>3. ASSUME NEW p \in Proc, Save(p) \/ Record(p) PROVE Operation!Confirm
  <2>1. claim'.outcome = "complete" /\ UNCHANGED <<merged, green, contained, hasty, stolen>>
    <3>1. have[p] \in Claims
      BY Zenon DEF IInv, TypeOK
    <3> QED  BY Zenon, <1>3, <3>1 DEF Save, Record, SaveComplete, Write, Claims
  <2>2. IsMerged /\ contained
    BY Zenon, <1>3 DEF Save, Record, IInv, HoldInv, At
  <2> QED  BY Zenon, <2>1, <2>2 DEF Operation!Confirm, Certainty, Excused, Pending, IsMerged
<1>4. ASSUME NEW p \in Proc, Failed(p) \/ Doubt(p) PROVE Operation!Intend
  <2>1. claim'.outcome = "uncertain" /\ UNCHANGED <<merged, green, contained, hasty, stolen>>
    <3>1. have[p] \in Claims
      BY Zenon DEF IInv, TypeOK
    <3> QED  BY Zenon, <1>4, <3>1 DEF Failed, Doubt, Uncertain, Write, Claims
  <2> QED  BY Zenon, <2>1 DEF Operation!Intend, Certainty, Excused, Pending
<1>5. ASSUME NEW p \in Proc, Create(p) \/ Fill(p) PROVE UNCHANGED Operation!vars
  <2>1. claim.outcome \in {"none", "empty"} \/ UNCHANGED claim
    BY SMTT(60), <1>5 DEF Create, Fill, IInv, FirstInv, At, NoClaim
  <2>2. claim'.outcome \in {"empty", "started"} \/ UNCHANGED claim
    BY SMTT(60), <1>5 DEF Create, Fill, Write, Desired, NoClaim
  <2>3. UNCHANGED <<merged, green, contained, hasty, stolen>>
    BY Zenon, <1>5 DEF Create, Fill
  <2> QED  BY Zenon, <2>1, <2>2, <2>3 DEF Operation!vars, Certainty, Excused, Pending
<1>6. ASSUME NEW p \in Proc, StealLock(p) \/ Unlock(p)
      PROVE  Operation!Excuse \/ UNCHANGED Operation!vars
  <2>1. /\ UNCHANGED <<merged, green, contained, claim, hasty>>
        /\ stolen' = TRUE \/ stolen' = stolen
    BY Zenon, <1>6 DEF StealLock, Unlock
  <2> QED  BY SMTT(60), <2>1 DEF Operation!vars, Operation!Excuse, Certainty, Excused, Pending
<1>7. ASSUME NEW p \in Proc, WriteSwap(p) PROVE Operation!Intend \/ Operation!Withdraw
  <2>1. /\ UNCHANGED <<merged, green, contained, stolen>>
        /\ (hasty' = TRUE /\ cont[p] = "inspect") \/ hasty' = hasty
    BY Zenon, <1>7 DEF WriteSwap
  <2>2. claim'.outcome = IF cont[p] = "call" THEN "submitted" ELSE "started"
    BY Zenon, <1>7 DEF WriteSwap, Write, Swapped, Desired, IInv, TypeOK, Claims
  <2>3. CASE cont[p] = "call"
    BY SMTT(60), <2>1, <2>2, <2>3 DEF Operation!Intend, Certainty, Excused, Pending
  <2>4. CASE cont[p] # "call"
    <3>1. Certainty' = "known_absent"
      BY Zenon, <2>2, <2>4 DEF Certainty, Pending
    <3>2. Excused' \in {Excused, TRUE}
      <4>1. CASE hasty' = hasty
        BY Zenon, <2>1, <4>1 DEF Excused
      <4>2. CASE hasty' = TRUE
        BY Zenon, <4>2 DEF Excused
      <4> QED  BY Zenon, <2>1, <4>1, <4>2
    <3> QED  BY Zenon, <2>1, <3>1, <3>2 DEF Operation!Withdraw
  <2> QED  BY Zenon, <2>3, <2>4
<1>8. ASSUME merged' = "pipeline", ~IsMerged, green, Marked \/ Excused,
             UNCHANGED <<green, contained, claim, hasty, stolen>>
      PROVE  Operation!Merge
  BY Zenon, <1>8 DEF Operation!Merge, Certainty, Excused, Pending, Marked, IsMerged
<1>9. ASSUME NEW p \in Proc, Answer(p) PROVE Operation!Merge \/ UNCHANGED Operation!vars
  <2>1. UNCHANGED <<green, contained, claim, hasty, stolen>>
    BY Zenon, <1>9 DEF Answer
  <2>2. CASE UNCHANGED merged
    BY Zenon, <1>1, <2>1, <2>2
  <2>3. CASE Merge(live[p])
    <3>1. p \in Busy
      BY Zenon, <1>9 DEF Answer, Busy, Sent
    <3>2. green /\ (Marked \/ Excused)
      BY Zenon, <1>9, <2>3, <3>1 DEF Answer, Merge, HeadMatches, IInv, HoldInv, HeadInv, CallInv, At,
                              Covered, Excused
    <3> QED  BY Zenon, <1>8, <2>1, <2>3, <3>2 DEF Merge
  <2> QED  BY Zenon, <1>9, <2>2, <2>3 DEF Answer
<1>10. ASSUME NEW h \in Heads, AnswerLost(h) PROVE Operation!Merge \/ UNCHANGED Operation!vars
  <2>1. UNCHANGED <<green, contained, claim, hasty, stolen>>
    BY Zenon, <1>10 DEF AnswerLost
  <2>2. CASE UNCHANGED merged
    BY Zenon, <1>1, <2>1, <2>2
  <2>3. CASE Merge(h)
    <3>1. lost[h] > 0 /\ ~NoneLost
      BY SMTT(60), <1>10 DEF AnswerLost, NoneLost
    <3>2. green /\ (Marked \/ Excused)
      BY Zenon, <2>3, <3>1 DEF Merge, HeadMatches, IInv, HeadInv, CallInv, Covered, Excused
    <3> QED  BY Zenon, <1>8, <2>1, <2>3, <3>2 DEF Merge
  <2> QED  BY Zenon, <1>10, <2>2, <2>3 DEF AnswerLost
<1>11. ASSUME Push \/ ChecksFinish PROVE Operation!Candidate
  <2>1. /\ merged = "no" /\ green' \in BOOLEAN
        /\ UNCHANGED <<merged, contained, claim, hasty, stolen>>
    BY Zenon, <1>11 DEF Push, ChecksFinish, IsMerged
  <2> QED  BY Zenon, <2>1 DEF Operation!Candidate, Certainty, Excused, Pending
<1>12. ASSUME MergeByHand PROVE Operation!MergeByHand
  BY Zenon, <1>12 DEF MergeByHand, Operation!MergeByHand, IsMerged, Certainty, Excused, Pending
<1>13. ASSUME BaseFetched PROVE Operation!Contain
  BY Zenon, <1>13 DEF BaseFetched, Operation!Contain, IsMerged, Certainty, Excused, Pending
<1>14. ASSUME Cool PROVE UNCHANGED Operation!vars
  <2>1. claim'.outcome = claim.outcome /\ UNCHANGED <<merged, green, contained, hasty, stolen>>
    BY Zenon, <1>14 DEF Cool, Cold, IInv, TypeOK, Claims
  <2> QED  BY Zenon, <2>1 DEF Operation!vars, Certainty, Excused, Pending
<1>15. ASSUME UNCHANGED vars PROVE UNCHANGED Operation!vars
  BY Zenon, <1>1, <1>15 DEF vars
<1> QED
  BY Zenon, <1>2, <1>3, <1>4, <1>5, <1>6, <1>7, <1>9, <1>10, <1>11, <1>12, <1>13, <1>14, <1>15
     DEF Next, Step, Gate, Operation!Next

\* For any number of processes, heads, lost calls and crashes, the claim file and
\* the calls implement MergeOperation.
THEOREM Refinement == Spec => ImplementsOperation
<1>1. Init => Operation!Init
  BY SMTT(60) DEF Init, Operation!Init, Certainty, Excused, Pending, NoClaim
<1> QED
  BY <1>1, StepRefines, Invariance, PTL DEF Spec, ImplementsOperation, Operation!Spec

\* The claim file, the lock and the processes' locals keep their types, for any
\* number of processes, heads, lost calls and crashes (TypeOK).
THEOREM TypeCorrect == Spec => []TypeOK
<1>1. IInv => TypeOK
  BY Zenon DEF IInv
<1> QED  BY <1>1, Invariance, PTL
=============================================================================
