--------------------------- MODULE RecoveryEpisodes ---------------------------
(***************************************************************************)
(* Blocked-item recovery of the loop supervisor: core/scripts/loop/        *)
(* recovery.ts, recovery-episodes.ts and supervisor.ts's                   *)
(* executeBlockedRecovery, over the run store's quarantining ledger        *)
(* (store.ts).                                                             *)
(*                                                                         *)
(* One run, one item with one open pull request, one blocker class other   *)
(* than review-findings.  Writers of a run's ledger hold the run lock      *)
(* (module LoopRunLock), so there is one supervisor; what interleaves with *)
(* it are crashes, the pull request and its labels.  Data is abstracted as *)
(* follows.                                                                *)
(*  - A candidate epoch is the pull request's head; pipeline-internal      *)
(*    commits, which move the raw head but not the epoch, are left out.    *)
(*  - The normalised evidence identity of the class is one value, so a     *)
(*    Recovery Episode is identified by the head; the raw evidence         *)
(*    fingerprint varies over Prints.                                      *)
(*  - An attempt id hashes the head, the ordinal, the fingerprint and the  *)
(*    recipe; it is their record.                                          *)
(*  - The pull request's detail may be unobservable in a cycle.  What the    *)
(*    code then does with an outstanding claim is modelled; the claims it    *)
(*    may make that name no candidate are not.                               *)
(*  - Deadlines (not_before, next_eligible_at) may be past or future at    *)
(*    any time.                                                            *)
(***************************************************************************)
EXTENDS Naturals, Sequences, FiniteSets, FiniteSetsExt

CONSTANTS
  Recipes,      \* the class's policy: its recipes in production order
  Repair,       \* the candidate-changing recipe, repair_pipeline_item
  Bound,        \* per_strategy_bound
  RepeatLimit,  \* repeated_evidence_limit
  MaxHead,      \* the heads the pull request may have are 1..MaxHead
  Prints,       \* evidence fingerprints a block may carry
  NeverStarted, \* those of a preflight_failed diagnostic to which no recipe applies
  None,         \* an absent head, fingerprint or attempt
  MaxCrashes,   \* bound: process deaths
  Backoff,      \* does the policy's backoff delay a fresh claim?
  MaxRevisits   \* bound: returns of the head or the label to an earlier value

ASSUME PolicyAssumption ==
  /\ Recipes \in Seq(STRING) /\ Len(Recipes) > 0
  /\ \A i, j \in DOMAIN Recipes : Recipes[i] = Recipes[j] => i = j
  /\ Bound \in Nat \ {0} /\ RepeatLimit \in Nat /\ MaxHead \in Nat \ {0}
  /\ None \notin 1..MaxHead /\ None \notin Prints /\ NeverStarted \subseteq Prints
  /\ Backoff \in BOOLEAN /\ MaxCrashes \in Nat /\ MaxRevisits \in Nat

VARIABLES
  ledger,     \* the run's ledger, as readLedger returns it
  head,       \* the pull request's head
  label,      \* its pipeline label: "blocked", "advance" or "ready"
  closed,     \* whether the issue has been closed
  revisits,   \* how often the head or the label returned to an earlier value
  pc,         \* where the supervisor is
  cur,        \* the claim it is carrying out
  result,     \* what the executor reported of cur
  crashes,    \* process deaths so far
  effects,    \* history: the ids of the claims that were executed
  strayed     \* history: the narrow claims last executed on another candidate

env == <<head, label, closed, revisits>>
local == <<pc, cur, result>>
vars == <<ledger, env, local, crashes, effects, strayed>>

Recipe == {Recipes[i] : i \in DOMAIN Recipes}
Position(r) == CHOOSE i \in DOMAIN Recipes : Recipes[i] = r
Heads == 1..MaxHead
Counts == [Recipe -> Nat]
AttemptIds == [head : Heads, ordinal : Nat, fp : Prints, action : Recipe]
Outcomes == {"started", "recovered", "failed", "skipped", "exhausted", "superseded"}

\* A recovery attempt with its episode fields: the episode's attempt counts,
\* strategy cursor and skipped recipes as of this row.
Rows == [id : AttemptIds, outcome : Outcomes, counts : Counts,
         cursor : 0..Len(Recipes), skipped : SUBSET Recipe]

\* gen is the number of rows that precede the item's latest block: the rows
\* after it are the ones of that block's generation.
Ledgers == [state : {"in_progress", "blocked", "ready", "abandoned"},
            fp : Prints \cup {None}, repeated : 0..RepeatLimit,
            blockerHead : Heads \cup {None}, gen : Nat,
            cooling : Heads \cup {None}, rows : Seq(Rows)]

-----------------------------------------------------------------------------
(* The episode fold: recovery-episodes.ts.                                   *)

Started(rows) == {i \in DOMAIN rows : rows[i].outcome = "started"}
OfEpisode(rows, h) == {i \in DOMAIN rows : rows[i].id.head = h}

\* derivedAttemptCounts: neither skips nor superseded claims are charged.
Charged(rows, i) == rows[i].outcome \notin {"skipped", "superseded"}

DerivedCounts(rows, h) ==
  [r \in Recipe |-> Cardinality({i \in OfEpisode(rows, h) :
                                   rows[i].id.action = r /\ Charged(rows, i)})]

SkippedBy(rows, h) == {rows[i].id.action : i \in {j \in OfEpisode(rows, h) :
                                                     rows[j].outcome = "skipped"}}

\* Every recipe below the cursor is skipped or has spent its bound.
Justified(cursor, counts, skipped) ==
  \A i \in 1..cursor : Recipes[i] \in skipped \/ counts[Recipes[i]] >= Bound

\* isAuthoritativeEpisodeState of a row taken alone, as the ledger's shape
\* check applies it to every row.
RowAuthoritative(row) ==
  /\ Cardinality(row.skipped) <= row.cursor
  /\ Justified(row.cursor, row.counts,
               row.skipped \cup (IF row.outcome = "skipped" THEN {row.id.action} ELSE {}))

\* ... and of an episode's latest row, among its siblings.
LatestAuthoritative(rows, h) ==
  LET row == rows[Max(OfEpisode(rows, h))]
      derived == DerivedCounts(rows, h)
  IN /\ row.outcome # "superseded" => row.counts = derived
     /\ Justified(row.cursor,
                  IF row.outcome = "superseded" THEN row.counts ELSE derived,
                  row.skipped \cup SkippedBy(rows, h))

\* isLoopLedgerShape, so far as the attempts are concerned.
Authoritative(doc) ==
  /\ \A i \in DOMAIN doc.rows : RowAuthoritative(doc.rows[i])
  /\ \A h \in {doc.rows[i].id.head : i \in DOMAIN doc.rows} :
        LatestAuthoritative(doc.rows, h)

NoCounts == [r \in Recipe |-> 0]

\* resumeEpisodeFromAttempts, projectEpisode: the latest row's fields, or an
\* empty episode; the counts are recounted when that row carries none.
Episode(rows, h) ==
  IF OfEpisode(rows, h) = {}
  THEN [counts |-> NoCounts, cursor |-> 0, skipped |-> {}]
  ELSE LET latest == rows[Max(OfEpisode(rows, h))]
       IN [counts |-> IF latest.counts = NoCounts THEN DerivedCounts(rows, h) ELSE latest.counts,
           cursor |-> latest.cursor,
           skipped |-> latest.skipped \cup SkippedBy(rows, h)]

HasBudget_OffByOne(ep, i) == ep.counts[Recipes[i]] <= Bound

\* perStrategyBound
HasBudget(ep, i) == ep.counts[Recipes[i]] < Bound

Remaining_ScannedFromStart(ep) ==
  {i \in DOMAIN Recipes :
     HasBudget(ep, i) /\ (i = ep.cursor + 1 => ledger.repeated < RepeatLimit \/ ep.counts[Recipes[i]] = 0)}

\* selectEligibleRecoveryStrategy: the positions, after the cursor, of the
\* recipes that have budget left.  The code takes the first; it is claimed
\* when it is applicable and skipped when it is not.
Remaining(ep) ==
  LET repeats == /\ ep.cursor < Len(Recipes)
                 /\ ledger.repeated >= RepeatLimit
                 /\ ep.counts[Recipes[ep.cursor + 1]] > 0
      from == IF repeats THEN ep.cursor + 2 ELSE ep.cursor + 1
  IN {i \in from..Len(Recipes) : HasBudget(ep, i)}

-----------------------------------------------------------------------------
(* The ledger document: store.ts readLedger and writeLedger.                 *)

\* writeLedger publishes the new document whether or not it is authoritative,
\* and keeps the last valid one beside it.  Every read, the next one of the
\* writer included, quarantines a document that is not authoritative and
\* restores the last valid one; what readers see is therefore this.
WriteLedger(new) == ledger' = IF Authoritative(new) THEN new ELSE ledger

Advanced_PredecessorsNotRecorded(ep, i) ==
  IF i - 1 > ep.cursor THEN [ep EXCEPT !.cursor = i - 1] ELSE ep

\* startRecoveryAttempt: moving past the cursor records the predecessors that
\* still have budget as skipped.
Advanced(ep, i) ==
  IF i - 1 > ep.cursor
  THEN [ep EXCEPT !.cursor = i - 1,
                  !.skipped = @ \cup {Recipes[j] : j \in {k \in ep.cursor + 1..i - 1 : HasBudget(ep, k)}}]
  ELSE ep

Matching_CandidateOnly == {i \in DOMAIN ledger.rows : ledger.rows[i].id.head = head}

\* The attempts the blocked item's next recovery counts as its own: those of
\* the current candidate's episode and those with the block's fingerprint.
Matching ==
  {i \in DOMAIN ledger.rows : ledger.rows[i].id.head = head \/ ledger.rows[i].id.fp = ledger.fp}

\* recoveryCandidateIdentity's ordinal.
Ordinal == Cardinality(Matching)

AttemptId(i) ==
  [head |-> head, ordinal |-> Ordinal, fp |-> ledger.fp, action |-> Recipes[i]]

Ids(rows) == {rows[i].id : i \in DOMAIN rows}

Recorded(id, outcome, ep) ==
  [ledger EXCEPT !.rows = Append(@, [id |-> id, outcome |-> outcome, counts |-> ep.counts,
                                     cursor |-> ep.cursor, skipped |-> ep.skipped])]

SetOutcome(rows, S, outcome) ==
  [i \in DOMAIN rows |-> IF i \in S THEN [rows[i] EXCEPT !.outcome = outcome] ELSE rows[i]]

Supersede(doc, S) == [doc EXCEPT !.rows = SetOutcome(@, S, "superseded")]

RowOf(rows, id) == CHOOSE i \in DOMAIN rows : rows[i].id = id

-----------------------------------------------------------------------------
Init ==
  /\ ledger = [state |-> "in_progress", fp |-> None, repeated |-> 0, blockerHead |-> None,
               gen |-> 0, cooling |-> None, rows |-> <<>>]
  /\ head = 1 /\ label = "advance" /\ closed = FALSE /\ revisits = 0
  /\ pc = "idle" /\ cur = None /\ result = FALSE
  /\ crashes = 0 /\ effects = {} /\ strayed = {}

Idle == pc = "idle" /\ UNCHANGED <<crashes, effects, strayed>>

Goto(l) == pc' = l /\ UNCHANGED <<cur, result>>

\* blockItem, as blockAndExecuteRecovery calls it: dispatch ended in a
\* mechanical block that a fresh observation does not contradict.  The head is
\* unknown when that observation failed.
Block ==
  /\ Idle /\ ledger.state = "in_progress"
  /\ \E p \in Prints, h \in {head, None} :
        /\ h # None => label # "ready" /\ ~closed
        /\ WriteLedger([ledger EXCEPT
             !.state = "blocked", !.fp = p, !.blockerHead = h, !.gen = Len(ledger.rows),
             !.repeated = IF p # ledger.fp THEN 0
                          ELSE IF @ < RepeatLimit THEN @ + 1 ELSE RepeatLimit])
  /\ label' = IF label = "ready" THEN label ELSE "blocked"
  /\ UNCHANGED <<head, closed, revisits, local>>

\* The preflight's observation proves the item done: reconcile moves it
\* forward; the started claims are superseded by a second write.
ProvenForward ==
  /\ Idle /\ ledger.state \in {"in_progress", "blocked"}
  /\ label = "ready"
  /\ WriteLedger([ledger EXCEPT !.state = "ready"])
  /\ Goto("closing") /\ UNCHANGED env

\* The issue is closed and no ready pull request is observed: recovery's
\* preflight proves nothing ready by one whose detail is unobservable.
AbandonClosed ==
  /\ Idle /\ ledger.state \in {"in_progress", "blocked"}
  /\ closed /\ (label # "ready" \/ ledger.state = "blocked")
  /\ WriteLedger([ledger EXCEPT !.state = "abandoned"])
  /\ Goto("closing") /\ UNCHANGED env

\* supersedeStartedRecoveryAttempts, after either, or in a later cycle for an
\* item it finds done with a claim still started.
SupersedeDone ==
  /\ \/ pc = "closing"
     \/ pc = "idle" /\ Started(ledger.rows) # {}
  /\ ledger.state \in {"ready", "abandoned"}
  /\ WriteLedger(Supersede(ledger, Started(ledger.rows)))
  /\ Goto("idle")
  /\ UNCHANGED <<env, crashes, effects, strayed>>

\* reconcile: the label that proved the item ready is gone and its pull
\* request still needs the pipeline.
Reconstruct ==
  /\ Idle /\ ledger.state = "ready" /\ label # "ready" /\ ~closed
  /\ WriteLedger([ledger EXCEPT !.state = "in_progress"])
  /\ UNCHANGED <<env, local>>

-----------------------------------------------------------------------------
(* executeBlockedRecovery, for an open issue whose label is not ready.       *)

Preflight == Idle /\ ledger.state = "blocked" /\ label # "ready" /\ ~closed

GenerationStarted_ClosedToo ==
  {i \in DOMAIN ledger.rows : i > ledger.gen /\ ledger.rows[i].id.fp = ledger.fp}

\* The rows of the latest block's generation that are still started.
GenerationStarted ==
  {i \in Started(ledger.rows) : i > ledger.gen /\ ledger.rows[i].id.fp = ledger.fp}

\* The candidate-changing repairs that own the candidate the item blocked on.
OwningRepairs ==
  {i \in GenerationStarted :
     ledger.rows[i].id.action = Repair /\ ledger.rows[i].id.head = ledger.blockerHead}

Moved == ledger.blockerHead # None /\ ledger.blockerHead # head

Readmitted_StillBlocked ==
  [Supersede(ledger, GenerationStarted) EXCEPT
     !.fp = None, !.repeated = 0, !.blockerHead = None, !.cooling = None]

Readmitted_ClaimsKept ==
  [ledger EXCEPT !.state = "in_progress", !.fp = None, !.repeated = 0,
                 !.blockerHead = None, !.cooling = None]

\* The item goes back to dispatch; its block, Cooling and claims are dropped.
Readmitted ==
  [Supersede(ledger, GenerationStarted) EXCEPT
     !.state = "in_progress", !.fp = None, !.repeated = 0, !.blockerHead = None,
     !.cooling = None]

\* readmitCandidateSupersededBlock: the candidate moved, no repair owns the
\* move, and the new one is clean and unblocked.
Readmit ==
  /\ Preflight /\ Moved /\ OwningRepairs = {}
  /\ label = "advance"
  /\ WriteLedger(Readmitted)
  /\ UNCHANGED <<env, local>>

\* Recovery proceeds for the candidate that blocked, or, when it moved, for
\* the one repair that owns the move.
Admitted ==
  /\ ledger.blockerHead # None
  /\ Moved => Cardinality(OwningRepairs) = 1

\* Started claims of another candidate than the one observed, which are not to
\* be carried out.
Stale ==
  {i \in Matching \cap Started(ledger.rows) :
     ledger.rows[i].id.action # Repair /\ ledger.rows[i].id.head # head}

SupersedeStale ==
  /\ Preflight /\ Admitted /\ Stale # {}
  /\ WriteLedger(Supersede(ledger, Stale))
  /\ UNCHANGED <<env, local>>

Ready == Preflight /\ Admitted /\ Stale = {}

\* The latest started claim is carried out, by the process that made it or by
\* a later one.
Replay ==
  /\ Ready
  /\ LET started == Matching \cap Started(ledger.rows)
     IN started # {} /\ cur' = ledger.rows[Max(started)].id
  /\ pc' = "claimed"
  /\ UNCHANGED <<ledger, env, result>>

\* An unobservable head is no evidence of movement and matches no candidate:
\* nothing is ready, readmitted or stale, and the latest started claim of the
\* block's fingerprint is carried out.
ReplayUnobserved ==
  /\ Idle /\ ledger.state = "blocked" /\ ~closed
  /\ LET started == {i \in Started(ledger.rows) : ledger.rows[i].id.fp = ledger.fp}
     IN started # {} /\ cur' = ledger.rows[Max(started)].id
  /\ pc' = "claimed"
  /\ UNCHANGED <<ledger, env, result>>

MayClaim ==
  /\ Ready
  /\ Matching \cap Started(ledger.rows) = {}
  /\ ledger.cooling # head

Current == Episode(ledger.rows, head)

\* The first remaining recipe, if its attempt is not in the ledger already.
Selected ==
  LET remaining == Remaining(Current)
  IN {i \in remaining : (\A j \in remaining : i <= j) /\ AttemptId(i) \notin Ids(ledger.rows)}

\* The selected recipe is inapplicable: recorded, not charged.
Skip ==
  /\ MayClaim
  /\ \E i \in Selected :
        WriteLedger(Recorded(AttemptId(i), "skipped",
          [Advanced(Current, i) EXCEPT !.cursor = i, !.skipped = @ \cup {Recipes[i]}]))
  /\ UNCHANGED <<env, local>>

Charge_NotCounted(ep, r) == ep

\* applyClaimToEpisode
Charge(ep, r) == [ep EXCEPT !.counts[r] = @ + 1]

\* The write-ahead claim of the selected recipe.
Claim ==
  /\ MayClaim /\ ledger.fp \notin NeverStarted
  /\ \E i \in Selected :
        /\ WriteLedger(Recorded(AttemptId(i), "started", Charge(Advanced(Current, i), Recipes[i])))
        /\ cur' = AttemptId(i)
  /\ pc' = IF Backoff THEN "backoff" ELSE "claimed"
  /\ UNCHANGED <<env, result>>

\* Nothing remains: Cooling, bound to the candidate.  When the preflight never
\* started and no recipe applies, the cycle is deferred and nothing is written.
Cool ==
  /\ MayClaim /\ ledger.fp \notin NeverStarted
  /\ Remaining(Current) = {}
  /\ WriteLedger([ledger EXCEPT !.cooling = head])
  /\ UNCHANGED <<env, local>>

CoolingElapses ==
  /\ Idle /\ ledger.cooling # None
  /\ WriteLedger([ledger EXCEPT !.cooling = None])
  /\ UNCHANGED <<env, local>>

-----------------------------------------------------------------------------
(* Carrying out a claim.                                                     *)

\* The claim's backoff has not elapsed: the cycle ends, the claim stays.
Defer(l) ==
  /\ pc = l
  /\ pc' = "idle" /\ cur' = None
  /\ UNCHANGED <<ledger, env, result, crashes, effects, strayed>>

\* executeRecovery: a repair may push a new head, any other recipe may clear
\* the blocked label; the report may claim success either way.
Execute ==
  /\ pc = "claimed"
  /\ effects' = effects \cup {cur}
  /\ strayed' = IF cur.action # Repair /\ cur.head # head THEN strayed \cup {cur} ELSE strayed \ {cur}
  /\ result' \in BOOLEAN
  /\ IF cur.action = Repair
     THEN head' \in {head, head + 1} \cap Heads /\ UNCHANGED label
     ELSE label' \in {label, IF label = "blocked" THEN "advance" ELSE label} /\ UNCHANGED head
  /\ pc' = "executed"
  /\ UNCHANGED <<ledger, closed, revisits, cur, crashes>>

\* The observation after the side effect failed: the claim stays started.
PostObservationFails ==
  /\ pc = "executed"
  /\ pc' = "idle" /\ cur' = None /\ result' = FALSE
  /\ UNCHANGED <<ledger, env, crashes, effects, strayed>>

Succeeded_HeadIgnored ==
  result /\ (IF cur.action = Repair THEN head # cur.head ELSE label # "blocked")

\* The observed postcondition: a repair changed the head, any other recipe
\* kept it and cleared the block.
Succeeded ==
  /\ result
  /\ IF cur.action = Repair THEN head # cur.head ELSE head = cur.head /\ label # "blocked"

Completable(id) ==
  /\ id \in Ids(ledger.rows)
  /\ ledger.rows[RowOf(ledger.rows, id)].outcome = "started"
  /\ ledger.state = "blocked" /\ ledger.fp = id.fp

Completed(doc, id, ok) ==
  LET S == {RowOf(doc.rows, id)}
  IN [doc EXCEPT !.rows = SetOutcome(@, S, IF ok THEN "recovered" ELSE "failed"),
                    !.state = IF ok THEN "in_progress" ELSE @]

\* completeRecoveryAttempt; a claim that is already closed is left alone.
Complete ==
  /\ pc = "executed"
  /\ \/ Completable(cur) /\ WriteLedger(Completed(ledger, cur, Succeeded))
     \/ /\ cur \in Ids(ledger.rows) /\ ledger.rows[RowOf(ledger.rows, cur)].outcome # "started"
        /\ WriteLedger(ledger)
  /\ pc' = "idle" /\ cur' = None /\ result' = FALSE
  /\ UNCHANGED <<env, crashes, effects, strayed>>

\* ... which throws, ending the drive, when the claim is not in the ledger or
\* no longer matches the blocked item.
CompletionRefused ==
  /\ pc = "executed" /\ ~Completable(cur)
  /\ cur \in Ids(ledger.rows) => ledger.rows[RowOf(ledger.rows, cur)].outcome = "started"
  /\ pc' = "resume" /\ cur' = None /\ result' = FALSE
  /\ UNCHANGED <<ledger, env, crashes, effects, strayed>>

\* A death loses what the process was doing; with nothing under way and no
\* claim started there is nothing to lose.
Crash ==
  /\ pc # "idle" \/ Started(ledger.rows) # {}
  /\ crashes < MaxCrashes /\ crashes' = crashes + 1
  /\ pc' = "resume" /\ cur' = None /\ result' = FALSE
  /\ UNCHANGED <<ledger, env, effects, strayed>>

\* reconcileUncertainStartedClaims, when a process resumes the run: the
\* observer, if there is one, may prove a started claim done or not done.  One
\* it cannot decide leaves the run Cooling, a record that names no item.  A
\* claim it vouches for is no longer one that strayed.
Takeover ==
  /\ pc = "resume"
  /\ \E seen \in [Started(ledger.rows) -> {"known_complete", "known_absent", "uncertain"}] :
       LET known(i) == seen[i] = "known_complete" /\ \A j \in DOMAIN seen : j < i => seen[j] # "uncertain"
           done == {i \in DOMAIN seen : known(i)}
       IN /\ \A i \in DOMAIN seen :
               /\ seen[i] = "known_complete" => ledger.rows[i].id \in effects
               /\ seen[i] = "known_absent" => ledger.rows[i].id \notin effects
          /\ \/ done = {} /\ WriteLedger(ledger) /\ UNCHANGED strayed
             \/ \E i \in done : /\ done = {i} /\ Completable(ledger.rows[i].id)
                                /\ WriteLedger(Completed(ledger, ledger.rows[i].id, TRUE))
                                /\ strayed' = strayed \ {ledger.rows[i].id}
  /\ Goto("idle")
  /\ UNCHANGED <<env, crashes, effects>>

-----------------------------------------------------------------------------
(* The pull request and the issue.                                           *)

\* Nothing that happens to an abandoned item's pull request matters any more.
Outside == ledger.state # "abandoned" /\ UNCHANGED <<ledger, local, crashes, effects, strayed>>

Revisit == revisits < MaxRevisits /\ revisits' = revisits + 1

MoveHead ==
  /\ \/ head' \in {head + 1} \cap Heads /\ UNCHANGED revisits
     \/ head' \in 1..head - 1 /\ Revisit
  /\ UNCHANGED <<label, closed>> /\ Outside

ChangeLabel ==
  /\ \/ label = "blocked" /\ label' \in {"advance", "ready"} /\ UNCHANGED revisits
     \/ label = "advance" /\ label' = "ready" /\ UNCHANGED revisits
     \/ label = "ready" /\ label' = "advance" /\ Revisit
  /\ UNCHANGED <<head, closed>> /\ Outside

CloseIssue == ~closed /\ closed' = TRUE /\ UNCHANGED <<head, label, revisits>> /\ Outside

-----------------------------------------------------------------------------
Next ==
  \/ Block \/ ProvenForward \/ AbandonClosed \/ SupersedeDone \/ Reconstruct
  \/ Readmit \/ SupersedeStale \/ Replay \/ ReplayUnobserved \/ Skip \/ Claim \/ Cool \/ CoolingElapses
  \/ Defer("backoff") \/ Defer("claimed") \/ Execute \/ PostObservationFails \/ Complete \/ CompletionRefused
  \/ Crash \/ Takeover \/ MoveHead \/ ChangeLabel \/ CloseIssue

\* The supervisor cycles until the run is done, so its enabled steps are
\* taken.  Backoffs elapse and observations eventually succeed.
Supervise ==
  \/ ProvenForward \/ AbandonClosed \/ SupersedeDone \/ Readmit \/ SupersedeStale
  \/ Replay \/ Skip \/ Claim \/ Cool \/ Defer("backoff") \/ Takeover

Fairness == WF_vars(Supervise) /\ SF_vars(Execute) /\ SF_vars(Complete)

Spec == Init /\ [][Next]_vars /\ Fairness

-----------------------------------------------------------------------------
\* Types of the ledger and of the supervisor; a blocked item has a fingerprint.
TypeOK ==
  /\ ledger \in Ledgers
  /\ ledger.state = "blocked" => ledger.fp # None
  /\ head \in Heads /\ label \in {"blocked", "advance", "ready"} /\ closed \in BOOLEAN
  /\ revisits \in 0..MaxRevisits
  /\ pc \in {"idle", "closing", "backoff", "claimed", "executed", "resume"}
  /\ cur \in AttemptIds \cup {None} /\ result \in BOOLEAN
  /\ crashes \in 0..MaxCrashes
  /\ effects \subseteq AttemptIds /\ strayed \subseteq effects

\* The write-ahead claim is durable: while the supervisor carries out a claim,
\* the ledger that any process would read back holds it, so that a crash, a
\* replay or the completion finds it (startRecoveryAttempt; store quarantine).
ClaimDurable == pc \in {"backoff", "claimed", "executed"} => cur \in Ids(ledger.rows)

\* No strategy is executed under more claims than its bound on one candidate,
\* whatever crashes, replays and re-blocks happen (recovery-episodes.ts).
StrategyBound ==
  \A h \in Heads, r \in Recipe :
    Cardinality({id \in effects : id.head = h /\ id.action = r}) <= Bound

\* The supervisor never has two claims outstanding for the item.
OneOutstandingClaim == Cardinality(Started(ledger.rows)) <= 1

\* A claim that is still started when its item is blocked can be completed:
\* completeRecoveryAttempt will not refuse it after its side effect has run.
StartedClaimCompletable ==
  ledger.state = "blocked" => \A i \in Started(ledger.rows) : Completable(ledger.rows[i].id)

\* Attempts are never lost, reopened or rewritten: a step only appends rows
\* and closes started ones (recovery.ts, the supersede writes).
HistoryGrows ==
  [][\A i \in DOMAIN ledger.rows :
       /\ i \in DOMAIN ledger'.rows /\ ledger'.rows[i].id = ledger.rows[i].id
       /\ ledger.rows[i].outcome # "started" => ledger'.rows[i] = ledger.rows[i]]_vars

\* On one candidate the recipes are claimed in production order: neither a
\* restart nor a new fingerprint brings an episode back to a recipe it has left
\* (selectEligibleRecoveryStrategy, projectEpisode).
ProductionOrder ==
  \A j \in DOMAIN ledger.rows : \A i \in 1..j - 1 :
    ledger.rows[i].id.head = ledger.rows[j].id.head
      => Position(ledger.rows[i].id.action) <= Position(ledger.rows[j].id.action)

\* The pull request may leave the candidate a narrow recipe was claimed on before
\* the recipe runs, or be unobservable when its claim is replayed.  A claim whose
\* recipe last ran on another candidate is never recorded as a recovery, and so
\* never resumes the item, unless the pull request returned to an earlier
\* candidate (executeBlockedRecovery's check of the claimed head afterwards).
StrayedNotRecovered ==
  revisits = 0 =>
    \A i \in DOMAIN ledger.rows :
      ledger.rows[i].id \in strayed => ledger.rows[i].outcome # "recovered"

\* Every recipe has been found inapplicable to a preflight that never started.
Deferred == ledger.fp \in NeverStarted /\ Remaining(Current) = {}

\* A block on the current candidate is always resolved, superseded by a new
\* candidate, or left Cooling; it is never retried for ever.  A preflight that
\* never started is also left blocked and not Cooling, once every recipe has
\* been skipped: each later cycle defers it (executeBlockedRecovery).
BlockResolves ==
  (ledger.state = "blocked" /\ ledger.blockerHead = head)
    ~> (ledger.state # "blocked" \/ ledger.cooling = head \/ Moved \/ Deferred)
=============================================================================
