----------------------------- MODULE MergeAttempt -----------------------------
(***************************************************************************)
(* The squash-merge of one pull request: runMergeAttempt of                *)
(* core/scripts/stages/merge.ts over the claim store and the replay        *)
(* decision of core/scripts/stages/merge-supervision.ts, as `pipeline      *)
(* merge`, merge-queue --apply and train --merge call it, from several     *)
(* processes of one host at once.                                          *)
(*                                                                         *)
(* The claim is a file, created empty and then written; a compare-and-swap *)
(* runs under a second file, the caslock, that holds the pid of its        *)
(* creator and that anybody may unlink.  Every file operation and every    *)
(* call to GitHub is one action.  A merge call that was sent may land      *)
(* after its sender has timed out or died.                                 *)
(*                                                                         *)
(* Mergeability, linkage, base and label are reads whose refusal the       *)
(* environment chooses.  A head is green from the moment the checks gate   *)
(* would let it pass: its checks have passed, or none is reported; that    *)
(* the gate may refuse it later is a refusal like the others.  Every push  *)
(* makes a new head.  Process ids are not reused.  Two claims written at   *)
(* different times differ in a time stamp: whether the file still holds    *)
(* what a process read is one bit of that process.                         *)
(***************************************************************************)
EXTENDS Naturals

CONSTANTS
  Proc,        \* merging processes; one that ends or dies may start again
  MaxHead,     \* bound: heads the pull request ever has
  MaxLost,     \* bound: calls under way at GitHub that nobody waits for
  MaxCrashes   \* bound: processes that die

ASSUME MergeAssumption ==
  /\ "none" \notin Proc
  /\ MaxHead \in Nat \ {0} /\ MaxLost \in Nat /\ MaxCrashes \in Nat

Heads == 1..MaxHead

Outcomes == {"none", "empty", "started", "submitted", "uncertain", "complete"}
\* A claim: its outcome, the inspected head, and, when pending, whether its last
\* transition is more than MERGE_COOLING_MS ago.
Claims == [outcome : Outcomes, head : Heads \cup {0}, age : {"fresh", "cold"}]
NoClaim == [outcome |-> "none", head |-> 0, age |-> "fresh"]

\* The caslock: the running process that created it, and the pid in it.
NoLock == [owner |-> "none", pid |-> "none"]

VARIABLES
  merged,     \* GitHub: "no", or who merged the head
  head,       \* GitHub: the head of the pull request
  green,      \* GitHub: the checks gate has been passable for the head
  contained,  \* the fetched base contains the merge commit
  call,       \* each process's merge call: "none", "sent", or its answer
  lost,       \* lost[h]: calls for head h that outlived their process's wait
  claim,      \* the claim file; "empty" when created and not yet written
  lock,       \* the caslock file
  current,    \* the processes that hold what the claim file holds
  pc, have, cont, live,  \* each process: see below
  crashes,    \* processes that have died
  hasty,      \* history: a pending claim was reset before its call was over
  stolen      \* history: a process unlinked the caslock of a running one

github == <<merged, head, green, contained>>
files == <<claim, lock>>
local == <<current, pc, have, cont, live>>
history == <<crashes, hasty, stolen>>
vars == <<merged, head, green, contained, call, lost, claim, lock,
          current, pc, have, cont, live, crashes, hasty, stolen>>

(***************************************************************************)
(* have: the claim the process has read or written; cont: where a          *)
(* successful swap leads; live: the inspected head.                        *)
(***************************************************************************)
Locations ==
  {"idle", "observe", "save", "inspect", "checks", "stage", "reload", "create",
   "fill", "raced", "fresh", "call", "merging", "failed", "settle", "proven",
   "record", "doubt"}
  \cup {"lock", "holder", "steal", "relock", "pid", "compare", "swap", "unlock"}

Init ==
  /\ merged = "no" /\ head = 1 /\ green = FALSE /\ contained = FALSE
  /\ call = [p \in Proc |-> "none"] /\ lost = [h \in Heads |-> 0]
  /\ claim = NoClaim /\ lock = NoLock /\ current = {}
  /\ pc = [p \in Proc |-> "idle"]
  /\ have = [p \in Proc |-> NoClaim]
  /\ cont = [p \in Proc |-> "idle"]
  /\ live = [p \in Proc |-> 0]
  /\ crashes = 0 /\ hasty = FALSE /\ stolen = FALSE

At(p, l) == pc[p] = l
Goto(p, l) == pc' = [pc EXCEPT ![p] = l]
Stay == UNCHANGED <<have, current, cont, live>>

\* The process holds claim c, as the file does now.
Hold(p, c) == have' = [have EXCEPT ![p] = c] /\ current' = current \cup {p}
Drop(p) == have' = [have EXCEPT ![p] = NoClaim] /\ current' = current \ {p}

\* The file is replaced by c: it holds what those in S hold, and nobody else.
Write(c, S) == claim' = c /\ current' = S

\* The attempt ends: it returns, throws, or its process dies.
Reset(p) ==
  /\ Goto(p, "idle")
  /\ have' = [have EXCEPT ![p] = NoClaim]
  /\ cont' = [cont EXCEPT ![p] = "idle"]
  /\ live' = [live EXCEPT ![p] = 0]
End(p) == Reset(p) /\ current' = current \ {p}

Pending(c) == c.outcome \in {"submitted", "uncertain"}
IsMerged == merged # "no"

Cooled_Never(c) == FALSE
\* claimCoolingElapsed
Cooled(c) == c.age = "cold"

Decision_Uncontained(c) ==
  IF IsMerged THEN "complete"
  ELSE IF Pending(c) THEN IF Cooled(c) THEN "may_submit" ELSE "wait"
  ELSE IF c # NoClaim /\ head # c.head THEN "invalidate" ELSE "may_submit"
\* decideMergeReplay, on a claim and what GitHub and the fetched base show now.
Decision(c) ==
  IF IsMerged /\ contained THEN "complete"
  ELSE IF Pending(c) THEN IF ~IsMerged /\ Cooled(c) THEN "may_submit" ELSE "wait"
  ELSE IF c.outcome = "complete" THEN "wait"
  ELSE IF c # NoClaim /\ head # c.head THEN "invalidate"
  ELSE IF IsMerged THEN "wait" ELSE "may_submit"

\* fileMergeClaimStore.load: an empty file is not JSON, and the load throws.
Readable == claim.outcome # "empty"

-----------------------------------------------------------------------------
(* runMergeAttempt up to the inspection: load, observe, reset.               *)

Begin(p) ==
  /\ At(p, "idle")
  /\ IF Readable
     THEN Hold(p, claim) /\ Goto(p, "observe")
     ELSE UNCHANGED <<have, current, pc>>
  /\ UNCHANGED <<github, call, lost, files, cont, live, history>>

\* compareAndSwap of the claim at hand is about to open the caslock.
Swap(p, l) == Goto(p, "lock") /\ cont' = [cont EXCEPT ![p] = l]

\* observeAndDecide on the loaded claim.
Observe(p) ==
  /\ At(p, "observe")
  /\ LET c == have[p]
         decision == Decision(c)
     IN \/ decision = "complete" /\ c.outcome \in {"none", "complete"} /\ End(p)
        \/ /\ decision = "complete" /\ c.outcome \notin {"none", "complete"}
           /\ Goto(p, "save") /\ Stay
        \/ decision = "wait" /\ End(p)
        \/ /\ decision = "may_submit" /\ Pending(c)
           /\ Swap(p, "inspect")
           /\ UNCHANGED <<have, current, live>>
        \/ /\ decision = "invalidate" \/ (decision = "may_submit" /\ ~Pending(c))
           /\ Goto(p, "inspect") /\ Drop(p)
           /\ UNCHANGED <<cont, live>>
  /\ UNCHANGED <<github, call, lost, files, history>>

\* claimStore.save: the claim at hand, complete, replaces whatever is there.
SaveComplete(p) ==
  /\ Write([have[p] EXCEPT !.outcome = "complete", !.age = "fresh"], {})
  /\ Reset(p)
  /\ UNCHANGED <<github, call, lost, lock, history>>

Save_Forgotten(p) ==
  /\ At(p, "save") /\ End(p)
  /\ UNCHANGED <<github, call, lost, files, history>>
Save(p) == At(p, "save") /\ SaveComplete(p)

-----------------------------------------------------------------------------
(* inspectMergeCandidate: mergeability and head, then checks, then label and *)
(* linkage.  A refusal, or UNKNOWN on every re-read, ends the attempt.       *)

Refuse(p) ==
  /\ pc[p] \in {"inspect", "checks", "stage", "fresh"}
  /\ End(p)
  /\ UNCHANGED <<github, call, lost, files, history>>

Inspect(p) ==
  /\ At(p, "inspect") /\ ~IsMerged
  /\ live' = [live EXCEPT ![p] = head]
  /\ Goto(p, "checks")
  /\ UNCHANGED <<github, call, lost, files, have, current, cont, history>>

\* ghPrChecksRequired answers for the head of that moment.
ChecksPass == green

Checks(p) ==
  /\ At(p, "checks") /\ ChecksPass
  /\ Goto(p, "stage") /\ Stay
  /\ UNCHANGED <<github, call, lost, files, history>>

\* checkIssueStage resolves the issue through its open pull request.
Stage(p) ==
  /\ At(p, "stage") /\ ~IsMerged
  /\ Goto(p, "reload") /\ Stay
  /\ UNCHANGED <<github, call, lost, files, history>>

-----------------------------------------------------------------------------
(* The claim before the side effect.                                         *)

\* bindMergeClaim
Desired(p) == [outcome |-> "started", head |-> live[p], age |-> "fresh"]

\* A started claim of the inspected head is charged, whoever bound it.
Charge(p) ==
  /\ claim.outcome = "started" /\ claim.head = live[p]
  /\ Hold(p, claim)
  /\ Goto(p, "fresh")
  /\ UNCHANGED <<cont, live>>

\* The claim is loaded again: create it, charge it, take it over, or yield.
Reload(p) ==
  /\ At(p, "reload")
  /\ \/ claim = NoClaim /\ Goto(p, "create") /\ Stay
     \/ Charge(p)
     \/ /\ claim.outcome = "started" /\ claim.head # live[p]
        /\ Hold(p, claim)
        /\ Swap(p, "fresh")
        /\ UNCHANGED live
     \/ claim.outcome \notin {"none", "started"} /\ End(p)
  /\ UNCHANGED <<github, call, lost, files, history>>

\* compareAndSwap(null, desired): exclusive create, then the write.
Create(p) ==
  /\ At(p, "create")
  /\ IF claim = NoClaim
     THEN Write([NoClaim EXCEPT !.outcome = "empty"], {}) /\ Goto(p, "fill")
     ELSE Goto(p, "raced") /\ UNCHANGED <<claim, current>>
  /\ UNCHANGED <<github, call, lost, lock, have, cont, live, history>>

Fill(p) ==
  /\ At(p, "fill")
  /\ Write(Desired(p), {p})
  /\ have' = [have EXCEPT ![p] = Desired(p)]
  /\ Goto(p, "fresh")
  /\ UNCHANGED <<github, call, lost, lock, cont, live, history>>

\* The create lost: a started claim of the same head is shared.
Raced(p) ==
  /\ At(p, "raced")
  /\ \/ Charge(p)
     \/ ~(claim.outcome = "started" /\ claim.head = live[p]) /\ End(p)
  /\ UNCHANGED <<github, call, lost, files, history>>

\* readFreshExactCandidate
Unmoved(p) == head = live[p]

\* The head is still the inspected one: the claim is to become submitted.
Fresh(p) ==
  /\ At(p, "fresh") /\ Unmoved(p)
  /\ Swap(p, "call")
  /\ UNCHANGED <<github, call, lost, files, have, current, live, history>>

-----------------------------------------------------------------------------
(* withClaimCasLock and the swap under it.                                   *)

LockFree_Ignored == TRUE
LockFree == lock = NoLock

\* open with the exclusive flag; after a steal, for the second and last time.
OpenLock(p) ==
  /\ pc[p] \in {"lock", "relock"}
  /\ \/ LockFree /\ lock' = [owner |-> p, pid |-> "blank"] /\ Goto(p, "pid") /\ Stay
     \/ ~LockFree /\ At(p, "lock") /\ Goto(p, "holder") /\ Stay /\ UNCHANGED lock
     \/ ~LockFree /\ At(p, "relock") /\ End(p) /\ UNCHANGED lock
  /\ UNCHANGED <<github, call, lost, claim, history>>

\* The pid goes to the descriptor: if the path was unlinked it changes nothing there.
WritePid(p) ==
  /\ At(p, "pid")
  /\ lock' = IF lock.owner = p THEN [lock EXCEPT !.pid = "alive"] ELSE lock
  /\ Goto(p, "compare") /\ Stay
  /\ UNCHANGED <<github, call, lost, claim, history>>

\* Only a readable pid of a dead process makes the lock stale.
ReadHolder(p) ==
  /\ At(p, "holder")
  /\ \/ lock.pid = "dead" /\ Goto(p, "steal") /\ Stay
     \/ lock.pid # "dead" /\ End(p)
  /\ UNCHANGED <<github, call, lost, files, history>>

\* The running process, other than p, whose file the caslock is.
HeldByOther(p) == lock.owner \in Proc \ {p}

StealLock(p) ==
  /\ At(p, "steal")
  /\ stolen' = IF HeldByOther(p) THEN TRUE ELSE stolen
  /\ lock' = NoLock
  /\ Goto(p, "relock") /\ Stay
  /\ UNCHANGED <<github, call, lost, claim, crashes, hasty>>

CasEqual_HeadOnly(p) == claim.head = have[p].head
\* mergeClaimsCasEqual of the file and the claim at hand
CasEqual(p) == p \in current

Compare(p) ==
  /\ At(p, "compare")
  /\ IF CasEqual(p)
     THEN Goto(p, "swap") /\ UNCHANGED cont
     ELSE Goto(p, "unlock") /\ cont' = [cont EXCEPT ![p] = "idle"]
  /\ UNCHANGED <<github, call, lost, files, have, current, live, history>>

\* What the swap writes: the reset, the takeover or the submission.
Swapped(p) ==
  IF cont[p] = "fresh" THEN Desired(p)
  ELSE [have[p] EXCEPT !.outcome = IF cont[p] = "call" THEN "submitted" ELSE "started",
                       !.age = "fresh"]

\* Processes about to send, waiting for an answer, and calls nobody waits for.
Sending == {p \in Proc : At(p, "call") \/ (At(p, "unlock") /\ cont[p] = "call")}
Sent == {p \in Proc : call[p] = "sent"}
Quiet == Sent = {} /\ \A h \in Heads : lost[h] = 0

WriteSwap(p) ==
  /\ At(p, "swap")
  /\ Write(Swapped(p), {p})
  /\ have' = [have EXCEPT ![p] = Swapped(p)]
  /\ hasty' = IF cont[p] = "inspect" /\ ~(Quiet /\ Sending = {}) THEN TRUE ELSE hasty
  /\ Goto(p, "unlock")
  /\ UNCHANGED <<github, call, lost, lock, cont, live, crashes, stolen>>

\* finally: unlink whatever is at the path, then go on or give up.
Unlock(p) ==
  /\ At(p, "unlock")
  /\ stolen' = IF HeldByOther(p) THEN TRUE ELSE stolen
  /\ lock' = NoLock
  /\ \/ cont[p] = "idle" /\ End(p)
     \/ /\ cont[p] # "idle"
        /\ Goto(p, cont[p]) /\ cont' = [cont EXCEPT ![p] = "idle"]
        /\ IF cont[p] = "inspect" THEN Drop(p) ELSE UNCHANGED <<have, current>>
        /\ UNCHANGED live
  /\ UNCHANGED <<github, call, lost, claim, crashes, hasty>>

-----------------------------------------------------------------------------
(* gh pr merge --match-head-commit, and what its answer is taken for.        *)

SendMerge(p) ==
  /\ At(p, "call")
  /\ call' = [call EXCEPT ![p] = "sent"]
  /\ Goto(p, "merging") /\ Stay
  /\ UNCHANGED <<github, lost, files, history>>

HeadMatches_Ignored(h) == TRUE
HeadMatches(h) == head = h

\* GitHub executes a merge of head h.
Merge(h) == ~IsMerged /\ HeadMatches(h) /\ merged' = "pipeline"

\* A call lands, is refused, never arrives, or finds the pull request merged.
Answer(p) ==
  /\ call[p] = "sent"
  /\ \/ Merge(live[p]) /\ call' = [call EXCEPT ![p] = "ok"]
     \/ UNCHANGED merged /\ call' = [call EXCEPT ![p] = "error"]
     \/ IsMerged /\ UNCHANGED merged /\ call' = [call EXCEPT ![p] = "ok"]
  /\ UNCHANGED <<head, green, contained, lost, files, local, history>>

AnswerLost(h) ==
  /\ lost[h] > 0 /\ lost' = [lost EXCEPT ![h] = @ - 1]
  /\ Merge(h) \/ UNCHANGED merged
  /\ UNCHANGED <<head, green, contained, call, files, local, history>>

Reply(p) ==
  /\ At(p, "merging") /\ call[p] # "sent"
  /\ call' = [call EXCEPT ![p] = "none"]
  /\ Goto(p, IF call[p] = "ok" THEN "proven" ELSE "failed") /\ Stay
  /\ UNCHANGED <<github, lost, files, history>>

\* The process waits no longer; a call under way goes on.
Abandon(p) ==
  /\ call' = [call EXCEPT ![p] = "none"]
  /\ IF call[p] = "sent"
     THEN lost[live[p]] < MaxLost /\ lost' = [lost EXCEPT ![live[p]] = @ + 1]
     ELSE UNCHANGED lost

\* No answer comes in 60 s, or gh fails after the merge itself has landed.
Timeout(p) ==
  /\ At(p, "merging")
  /\ Abandon(p)
  /\ Goto(p, "failed") /\ Stay
  /\ UNCHANGED <<github, files, history>>

Uncertain_Failed(p) == [have[p] EXCEPT !.outcome = "failed", !.age = "fresh"]
Uncertain(p) == [have[p] EXCEPT !.outcome = "uncertain", !.age = "fresh"]

\* The call failed: the claim is saved as uncertain before GitHub is asked again.
Failed(p) ==
  /\ At(p, "failed")
  /\ Write(Uncertain(p), {p})
  /\ have' = [have EXCEPT ![p] = Uncertain(p)]
  /\ Goto(p, "settle")
  /\ UNCHANGED <<github, call, lost, lock, cont, live, history>>

\* observeAndDecide after the call.
Settle(p) ==
  /\ pc[p] \in {"settle", "proven"}
  /\ \/ Decision(have[p]) = "complete" /\ Goto(p, "record") /\ Stay
     \/ Decision(have[p]) # "complete" /\ At(p, "proven") /\ Goto(p, "doubt") /\ Stay
     \/ Decision(have[p]) # "complete" /\ At(p, "settle") /\ End(p)
  /\ UNCHANGED <<github, call, lost, files, history>>

Record(p) == At(p, "record") /\ SaveComplete(p)

\* The command returned and the merge is not proven.
Doubt(p) ==
  /\ At(p, "doubt")
  /\ Write(Uncertain(p), {})
  /\ Reset(p)
  /\ UNCHANGED <<github, call, lost, lock, history>>

\* GitHub or git does not answer a read, and the attempt throws.
Throw(p) ==
  /\ pc[p] \in {"observe", "settle", "proven"}
  /\ End(p)
  /\ UNCHANGED <<github, call, lost, files, history>>

\* The process dies; its files and its call stay.
Crash(p) ==
  /\ ~At(p, "idle") /\ crashes < MaxCrashes
  /\ crashes' = crashes + 1
  /\ lock' = IF lock.owner = p
             THEN [owner |-> "none", pid |-> IF lock.pid = "alive" THEN "dead" ELSE "blank"]
             ELSE lock
  /\ Abandon(p)
  /\ End(p)
  /\ UNCHANGED <<github, claim, hasty, stolen>>

-----------------------------------------------------------------------------
(* The environment: commits, checks, a person who merges, and time.          *)

Push ==
  /\ ~IsMerged /\ head < MaxHead
  /\ head' = head + 1 /\ green' = FALSE
  /\ UNCHANGED <<merged, contained, call, lost, files, local, history>>

ChecksFinish ==
  /\ ~IsMerged /\ ~green /\ green' = TRUE
  /\ UNCHANGED <<merged, head, contained, call, lost, files, local, history>>

MergeByHand ==
  /\ ~IsMerged /\ merged' = "person"
  /\ UNCHANGED <<head, green, contained, call, lost, files, local, history>>

BaseFetched ==
  /\ IsMerged /\ ~contained /\ contained' = TRUE
  /\ UNCHANGED <<merged, head, green, call, lost, files, local, history>>

\* MERGE_COOLING_MS passes for the file and for what was read before it.
Cold(c) == IF Pending(c) THEN [c EXCEPT !.age = "cold"] ELSE c
Cool ==
  /\ Pending(claim) /\ ~Cooled(claim)
  /\ claim' = Cold(claim)
  /\ have' = [p \in Proc |-> Cold(have[p])]
  /\ UNCHANGED <<github, call, lost, lock, pc, current, cont, live, history>>

\* It passes for a claim read before the file was last written.
CoolStale(p) ==
  /\ Pending(have[p]) /\ p \notin current /\ ~Cooled(have[p]) /\ At(p, "observe")
  /\ have' = [have EXCEPT ![p] = Cold(@)]
  /\ UNCHANGED <<github, call, lost, files, pc, current, cont, live, history>>

-----------------------------------------------------------------------------
\* What a started attempt does next, on this host.
Step(p) ==
  \/ Observe(p) \/ Save(p) \/ Reload(p) \/ Create(p) \/ Fill(p) \/ Raced(p)
  \/ OpenLock(p) \/ WritePid(p) \/ ReadHolder(p) \/ StealLock(p) \/ Compare(p)
  \/ WriteSwap(p) \/ Unlock(p) \/ SendMerge(p) \/ Reply(p) \/ Failed(p)
  \/ Settle(p) \/ Record(p) \/ Doubt(p)

Gate(p) == Inspect(p) \/ Checks(p) \/ Stage(p) \/ Fresh(p) \/ Refuse(p)

Next ==
  \/ \E p \in Proc : \/ Begin(p) \/ Step(p) \/ Gate(p) \/ Answer(p)
                     \/ Throw(p) \/ Timeout(p) \/ Crash(p) \/ CoolStale(p)
  \/ \E h \in Heads : AnswerLost(h)
  \/ Push \/ ChecksFinish \/ MergeByHand \/ BaseFetched \/ Cool

(***************************************************************************)
(* An attempt in progress goes on unless its process dies, a call is       *)
(* executed or lost in the end, time passes, and the operator, the queue   *)
(* or the train starts attempts again and again.  GitHub does not fail the *)
(* first read of every one of them.                                        *)
(***************************************************************************)
Fairness ==
  /\ \A p \in Proc : /\ WF_vars(Begin(p)) /\ WF_vars(Step(p)) /\ WF_vars(Gate(p))
                     /\ WF_vars(Answer(p)) /\ SF_vars(Observe(p))
  /\ WF_vars(Cool)

Spec == Init /\ [][Next]_vars /\ Fairness

-----------------------------------------------------------------------------
\* Types of GitHub's state, the files and the attempts.
TypeOK ==
  /\ merged \in {"no", "pipeline", "person"}
  /\ head \in Heads /\ green \in BOOLEAN /\ contained \in BOOLEAN
  /\ call \in [Proc -> {"none", "sent", "ok", "error"}]
  /\ lost \in [Heads -> 0..MaxLost] /\ claim \in Claims
  /\ lock \in [owner : Proc \cup {"none"}, pid : {"none", "blank", "alive", "dead"}]
  /\ pc \in [Proc -> Locations]
  /\ have \in [Proc -> Claims] /\ current \subseteq Proc
  /\ cont \in [Proc -> {"idle", "inspect", "fresh", "call"}]
  /\ live \in [Proc -> Heads \cup {0}]
  /\ crashes \in 0..MaxCrashes /\ hasty \in BOOLEAN /\ stolen \in BOOLEAN

\* The pipeline merges only a head that could pass the checks: --match-head-commit
\* names the head read before the checks, so a commit pushed after them is never
\* merged on its predecessor's checks, however late the call lands.
MergedHeadChecked == merged = "pipeline" => green

\* While a merge call is outstanding the claim on disk says so, whoever sent it
\* and whatever has died since, unless a cooled claim was reset under the call
\* or the caslock of a running process was unlinked.
CallUnderClaim ==
  ~Quiet => hasty \/ stolen \/ Pending(claim) \/ claim.outcome = "complete"

\* The replay rule: no second merge is submitted while one is outstanding, with
\* the same two exceptions.
OneCall ==
  \/ hasty \/ stolen
  \/ /\ \A p, q \in Sent : p = q
     /\ \A h \in Heads : lost[h] > 0 =>
          lost[h] = 1 /\ Sent = {} /\ \A g \in Heads \ {h} : lost[g] = 0

\* What the claim file records of the side effect: a started claim, or none,
\* that there is none; a pending one, that there may be.
Certainty ==
  IF Pending(claim) THEN "uncertain"
  ELSE IF claim.outcome = "complete" THEN "known_complete" ELSE "known_absent"
Excused == hasty \/ stolen

Operation == INSTANCE MergeOperation WITH record <- Certainty, excused <- Excused

\* Every step of the processes and of GitHub is a step of MergeOperation: a merge
\* lands on a green head under a recorded intent, and complete is recorded only of
\* a merge that the fetched base contains.
ImplementsOperation == Operation!Spec

\* A crash inside the creation of the claim or of the caslock leaves an empty
\* file that no attempt removes.
Wedged == claim.outcome = "empty" \/ (lock.owner = "none" /\ lock.pid = "blank")

\* A pending claim does not stay: attempts resolve it to complete, or to started
\* once it has cooled, unless an empty file is in the way or the merge never
\* reaches the fetched base.
PendingSettles ==
  Pending(claim) ~> (~Pending(claim) \/ Wedged \/ (IsMerged /\ ~contained))

\* Once the base contains the merge, the claim says so in the end and for good,
\* although a slower process may first overwrite it with uncertain.
MergeRecorded ==
  [](contained /\ claim # NoClaim => <>[](claim.outcome \in {"complete", "empty"}))
=============================================================================
