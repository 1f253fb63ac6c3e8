------------------------ MODULE RecoveryClaimsProofs ------------------------
(***************************************************************************)
(* For every policy, bound, number of candidates, fingerprints and         *)
(* crashes: as long as the pull request has not returned to an earlier     *)
(* head or label, claims are durable, completable and outstanding one at a *)
(* time, no recipe is executed more often than its bound, and one that ran *)
(* on another candidate than its claim's does not recover the item.        *)
(***************************************************************************)
EXTENDS RecoveryRowsProofs

-----------------------------------------------------------------------------
(* Claims while the pull request only moves forward *)

\* What a ledger's claims satisfy, for a pull request with that head and label,
\* as long as neither has returned to an earlier value:
\*  - an item recorded ready has the ready label;
\*  - an item in progress has no claim outstanding, and a blocked one only
\*    claims of its block's generation, fingerprint and candidate;
\*  - there is at most one;
\*  - no claim is made on a candidate yet to come;
\*  - a superseded claim's candidate is past, or the item is done.
ClaimsOK(doc, hd, lb) ==
  /\ doc.state = "ready" => lb = "ready"
  /\ doc.state = "in_progress" => Started(doc.rows) = {}
  /\ doc.state = "blocked" =>
       \A i \in Started(doc.rows) : /\ i > doc.gen /\ doc.rows[i].id.fp = doc.fp
                                    /\ doc.rows[i].id.head = doc.blockerHead
  /\ \A i, j \in Started(doc.rows) : i = j
  /\ \A i \in DOMAIN doc.rows :
       /\ doc.rows[i].id.head <= hd
       /\ doc.rows[i].outcome = "superseded" =>
            doc.rows[i].id.head < hd \/ lb = "ready" \/ doc.state = "abandoned"

\* The pull request moving forward does not disturb it.
LEMMA ClaimsLater ==
  ASSUME NEW doc \in Ledgers, NEW hd \in Nat, NEW later \in Nat, NEW lb, NEW lb2,
         ClaimsOK(doc, hd, lb), later >= hd, lb = "ready" => lb2 = "ready"
  PROVE  ClaimsOK(doc, later, lb2)
<1>1. doc.rows \in Seq(Rows)
  BY Zenon DEF Ledgers
<1>2. \A i \in DOMAIN doc.rows : doc.rows[i].id.head \in Nat
  BY Zenon, <1>1, RowTypes
<1>3. ASSUME NEW i \in DOMAIN doc.rows
      PROVE  /\ doc.rows[i].id.head <= later
             /\ doc.rows[i].id.head < hd => doc.rows[i].id.head < later
  <2>1. doc.rows[i].id.head \in Nat /\ doc.rows[i].id.head <= hd
    BY Zenon, <1>2 DEF ClaimsOK
  <2> QED BY SMTT(60), <2>1
<1> QED BY Zenon, <1>3 DEF ClaimsOK

\* new is old with the started claims in S closed with outcome o.
ClosedIn(old, new, S, o) ==
  /\ DOMAIN new = DOMAIN old /\ Started(new) = Started(old) \ S
  /\ \A i \in DOMAIN old :
       /\ new[i].id = old[i].id
       /\ new[i].outcome = "superseded" =>
            old[i].outcome = "superseded" \/ (i \in S /\ o = "superseded")

\* Closing started claims: which are started and superseded afterwards.
LEMMA ClosedStarted ==
  ASSUME NEW old \in Seq(Rows), NEW S \in SUBSET Started(old), NEW o \in Closings
  PROVE  ClosedIn(old, SetOutcome(old, S, o), S, o)
<1> DEFINE new == SetOutcome(old, S, o)
<1>1. o \in Outcomes /\ o # "started"
  BY Zenon DEF Closings, Outcomes
<1>2. /\ DOMAIN new = DOMAIN old
      /\ \A i \in DOMAIN old : /\ new[i].id = old[i].id
                               /\ new[i].outcome = (IF i \in S THEN o ELSE old[i].outcome)
  BY SMTT(60), <1>1, SetOutcomeRows
<1> HIDE DEF new
<1>3. Started(new) = Started(old) \ S
  BY Zenon, <1>1, <1>2 DEF Started
<1>4. ClosedIn(old, new, S, o)
  BY Zenon, <1>2, <1>3 DEF ClosedIn
<1> QED BY Zenon, <1>4 DEF new

\* Superseding started claims whose candidates are past, or those of an item
\* that is done.
LEMMA SupersedingKeepsClaims ==
  ASSUME TypeInv, ClaimsOK(ledger, head, label), NEW S \in SUBSET Started(ledger.rows), NEW doc,
         doc.rows = SetOutcome(ledger.rows, S, "superseded"),
         \/ /\ doc.state = ledger.state /\ doc.fp = ledger.fp /\ doc.gen = ledger.gen
            /\ doc.blockerHead = ledger.blockerHead
         \/ doc.state = "in_progress" /\ S = Started(ledger.rows) /\ ledger.state # "abandoned",
         \A i \in S : ledger.rows[i].id.head < head \/ label = "ready" \/ doc.state = "abandoned"
  PROVE  ClaimsOK(doc, head, label)
<1> DEFINE old == ledger.rows
           new == doc.rows
<1>1. old \in Seq(Rows) /\ "superseded" \in Closings
  BY Zenon DEF TypeInv, TypeOK, Ledgers, Closings
<1>2. /\ DOMAIN new = DOMAIN old /\ Started(new) = Started(old) \ S
      /\ \A i \in DOMAIN old :
           /\ new[i].id = old[i].id
           /\ new[i].outcome = "superseded" => old[i].outcome = "superseded" \/ i \in S
  <2>1. ClosedIn(old, new, S, "superseded")
    BY Zenon, <1>1, ClosedStarted
  <2> QED BY Zenon, <2>1 DEF ClosedIn
<1>3. \A i \in Started(new) : i \in Started(old) /\ new[i].id = old[i].id
  BY Zenon, <1>2 DEF Started
<1> HIDE DEF old, new
<1>4. /\ doc.state = "ready" => label = "ready"
      /\ doc.state = "in_progress" => Started(new) = {}
  BY Zenon, <1>2 DEF ClaimsOK, old
<1>5. doc.state = "blocked" =>
        \A i \in Started(new) : /\ i > doc.gen /\ new[i].id.fp = doc.fp
                                /\ new[i].id.head = doc.blockerHead
  BY Zenon, <1>3 DEF ClaimsOK, old
<1>6. \A i, j \in Started(new) : i = j
  BY Zenon, <1>3 DEF ClaimsOK, old
<1>7. \A i \in DOMAIN new :
        /\ new[i].id.head <= head
        /\ new[i].outcome = "superseded" =>
             new[i].id.head < head \/ label = "ready" \/ doc.state = "abandoned"
  BY Zenon, <1>2 DEF ClaimsOK, old
<1> QED BY Zenon, <1>4, <1>5, <1>6, <1>7 DEF ClaimsOK, new

\* Completing the started claim of the blocked item: none is left.
LEMMA CompletingKeepsClaims ==
  ASSUME TypeInv, ClaimsOK(ledger, head, label), NEW id, Completable(id), NEW ok \in BOOLEAN
  PROVE  ClaimsOK(Completed(ledger, id, ok), head, label)
<1> DEFINE old == ledger.rows
           doc == Completed(ledger, id, ok)
           new == Completed(ledger, id, ok).rows
           S == {RowOf(ledger.rows, id)}
           o == IF ok THEN "recovered" ELSE "failed"
<1>1. /\ S \in SUBSET Started(old) /\ o \in Closings /\ o # "superseded"
      /\ new = SetOutcome(old, S, o)
      /\ doc.state \in {"in_progress", "blocked"} /\ ledger.state = "blocked"
  BY Zenon, CompletedDoc DEF Closings, Completable
<1>2. old \in Seq(Rows)
  BY Zenon DEF TypeInv, TypeOK, Ledgers
<1> HIDE DEF old, new, o, doc
<1>3. /\ DOMAIN new = DOMAIN old /\ Started(new) = Started(old) \ S
      /\ \A i \in DOMAIN old :
           /\ new[i].id = old[i].id
           /\ new[i].outcome = "superseded" => old[i].outcome = "superseded"
  <2>1. ClosedIn(old, new, S, o)
    BY Zenon, <1>1, <1>2, ClosedStarted
  <2> QED BY Zenon, <1>1, <2>1 DEF ClosedIn
<1>4. Started(new) = {}
  BY Zenon, <1>1, <1>3 DEF ClaimsOK, old
<1>5. \A i \in DOMAIN new :
        /\ new[i].id.head <= head
        /\ new[i].outcome = "superseded" => new[i].id.head < head \/ label = "ready"
  BY Zenon, <1>1, <1>3 DEF ClaimsOK, old
<1>6. ClaimsOK(doc, head, label)
  BY Zenon, <1>1, <1>4, <1>5 DEF ClaimsOK, doc, new
<1> QED BY Zenon, <1>6 DEF doc

\* Before a fresh claim nothing is outstanding, the item is blocked on the
\* current candidate, and none of that candidate's claims was superseded.
LEMMA NothingStarted ==
  ASSUME TypeInv, ClaimsOK(ledger, head, label), MayClaim
  PROVE  /\ Started(ledger.rows) = {} /\ ledger.blockerHead = head
         /\ ledger.state = "blocked"
         /\ \A i \in OfEpisode(ledger.rows, head) : ledger.rows[i].outcome # "superseded"
         /\ LatestLive(ledger.rows, head)
<1>1. /\ ledger.state = "blocked" /\ label # "ready" /\ Admitted
      /\ Matching \cap Started(ledger.rows) = {}
  BY Zenon DEF MayClaim, Ready, Preflight
<1>2. \A i \in Started(ledger.rows) : i \in Matching
  BY Zenon, <1>1 DEF ClaimsOK, Matching, Started
<1>3. Started(ledger.rows) = {}
  BY Zenon, <1>1, <1>2
<1>4. ledger.blockerHead = head
  <2>1. OwningRepairs = {}
    BY Zenon, <1>3 DEF OwningRepairs, GenerationStarted
  <2>2. Cardinality(OwningRepairs) = 0
    BY Zenon, <2>1, FS_EmptySet
  <2> QED BY SMTT(60), <1>1, <2>2 DEF Admitted, Moved
<1>5. ledger.rows \in Seq(Rows) /\ head \in Nat
  BY SMTT(60) DEF TypeInv, TypeOK, Ledgers, Heads
<1>6. ASSUME NEW i \in OfEpisode(ledger.rows, head) PROVE ledger.rows[i].outcome # "superseded"
  <2>1. i \in DOMAIN ledger.rows /\ ledger.rows[i].id.head = head
    BY Zenon DEF OfEpisode
  <2>2. ~(ledger.rows[i].id.head < head)
    BY SMTT(60), <1>5, <2>1
  <2> QED BY Zenon, <1>1, <2>1, <2>2 DEF ClaimsOK
<1>7. OfEpisode(ledger.rows, head) # {} =>
        Max(OfEpisode(ledger.rows, head)) \in OfEpisode(ledger.rows, head)
  <2>1. Len(ledger.rows) \in Nat /\ OfEpisode(ledger.rows, head) \in SUBSET (1..Len(ledger.rows))
    BY Zenon, <1>5, IndicesFinite DEF OfEpisode
  <2> QED BY Zenon, <2>1, MaxIndex
<1> QED BY Zenon, <1>1, <1>3, <1>4, <1>6, <1>7 DEF LatestLive

\* The selected recipe's claim is then the one outstanding.
LEMMA AddingKeepsClaims ==
  ASSUME TypeInv, ClaimsOK(ledger, head, label), MayClaim, NEW i \in Selected,
         NEW o \in {"skipped", "started"}, NEW ep \in Episodes
  PROVE  ClaimsOK(Recorded(AttemptId(i), o, ep), head, label)
<1> DEFINE old == ledger.rows
           n == Len(ledger.rows)
           row == NewRow(AttemptId(i), o, ep)
           doc == Recorded(AttemptId(i), o, ep)
           new == Recorded(AttemptId(i), o, ep).rows
<1>1. ledger \in Ledgers /\ old \in Seq(Rows) /\ head \in Nat /\ ledger.gen \in Nat /\ ledger.gen <= n
  BY SMTT(60) DEF TypeInv, TypeOK, Ledgers, Heads
<1>2. AttemptId(i) \in AttemptIds /\ o \in Outcomes /\ o # "superseded"
  BY Zenon, SelectedRecipe DEF TypeInv, Outcomes
<1>3. /\ Grown(old, new, row) /\ doc.state = ledger.state /\ doc.fp = ledger.fp
      /\ doc.gen = ledger.gen /\ doc.blockerHead = ledger.blockerHead
  BY Zenon, <1>1, <1>2, RecordedRows
<1>4. /\ n \in Nat /\ DOMAIN old = 1..n /\ DOMAIN new = 1..n + 1
      /\ \A j \in 1..n : new[j] = old[j]
      /\ new[n + 1] = row
  BY Zenon, <1>3 DEF Grown
<1>5. row.id.head = head /\ row.id.fp = ledger.fp /\ row.outcome = o
  BY Zenon DEF NewRow, AttemptId
<1>6. Started(old) = {} /\ ledger.blockerHead = head /\ ledger.state = "blocked"
  BY Zenon, NothingStarted
<1>7. (\A j \in 1..n + 1 : j \in 1..n \/ j = n + 1) /\ n + 1 > ledger.gen
  BY SMTT(60), <1>1, <1>4
<1> HIDE DEF old, n, row, new, doc
<1>8. \A j \in Started(new) : j = n + 1
  BY Zenon, <1>4, <1>6, <1>7 DEF Started
<1>9. \A j \in Started(new) : /\ j > doc.gen /\ new[j].id.fp = doc.fp
                              /\ new[j].id.head = doc.blockerHead
  BY Zenon, <1>3, <1>4, <1>5, <1>6, <1>7, <1>8
<1>10. \A j, k \in Started(new) : j = k
  BY Zenon, <1>8
<1>11. ASSUME NEW j \in DOMAIN new
       PROVE  /\ new[j].id.head <= head
              /\ new[j].outcome = "superseded" =>
                   new[j].id.head < head \/ label = "ready" \/ doc.state = "abandoned"
  <2>1. CASE j \in 1..n
    BY Zenon, <1>3, <1>4, <2>1 DEF ClaimsOK, old
  <2>2. CASE j = n + 1
    <3>1. head <= head
      BY SMTT(60), <1>1
    <3> QED BY Zenon, <1>2, <1>4, <1>5, <2>2, <3>1
  <2> QED BY Zenon, <1>4, <1>7, <2>1, <2>2
<1>12. doc.state = "blocked"
  BY Zenon, <1>3, <1>6
<1>13. ClaimsOK(doc, head, label)
  BY Zenon, <1>9, <1>10, <1>11, <1>12 DEF ClaimsOK, doc, new
<1> QED BY Zenon, <1>13 DEF doc

\* While the pull request only moves forward, its head does not decrease and
\* the ready label is not taken away.
LEMMA Forward ==
  ASSUME TypeInv, Next, revisits' = 0
  PROVE  revisits = 0 /\ head' \in Nat /\ head' >= head /\ (label = "ready" => label' = "ready")
<1>1. revisits \in Nat /\ head \in Nat
  BY SMTT(60), PolicyAssumption DEF TypeInv, TypeOK, Heads
<1>2. CASE MoveHead
  BY SMTT(60), <1>1, <1>2 DEF MoveHead, Revisit
<1>3. CASE ChangeLabel
  BY SMTT(60), <1>1, <1>3 DEF ChangeLabel, Revisit
<1>4. CASE Execute
  <2>1. head' \in Nat /\ head' >= head
    BY SMTT(60), <1>1, <1>4 DEF Execute
  <2> QED BY Zenon, <1>4, <2>1 DEF Execute
<1>5. CASE Block
  BY SMTT(60), <1>1, <1>5 DEF Block
<1>6. CASE CloseIssue
  BY SMTT(60), <1>1, <1>6 DEF CloseIssue
<1>7. CASE UNCHANGED env
  BY SMTT(60), <1>1, <1>7 DEF env
<1>8. CASE \/ ProvenForward \/ AbandonClosed \/ SupersedeDone \/ Reconstruct
           \/ Readmit \/ SupersedeStale \/ Replay \/ ReplayUnobserved \/ Skip \/ Claim \/ Cool \/ CoolingElapses
           \/ Defer("backoff") \/ Defer("claimed") \/ PostObservationFails \/ Complete
           \/ CompletionRefused \/ Crash \/ Takeover
  BY Zenon, <1>7, <1>8 DEF ProvenForward, AbandonClosed, SupersedeDone, Reconstruct, Readmit,
     SupersedeStale, Replay, ReplayUnobserved, Skip, Claim, Cool, CoolingElapses, Defer, PostObservationFails,
     Complete, CompletionRefused, Crash, Takeover
<1> QED BY Zenon, <1>2, <1>3, <1>4, <1>5, <1>6, <1>8 DEF Next

\* Every step keeps what the claims satisfy, before the pull request moves.
LEMMA ClaimsStep ==
  ASSUME TypeInv, ClaimsOK(ledger, head, label), Next
  PROVE  ClaimsOK(ledger', head, label)
<1>1. ASSUME NEW doc, WriteLedger(doc), ClaimsOK(doc, head, label) PROVE ClaimsOK(ledger', head, label)
  BY Zenon, <1>1 DEF WriteLedger
<1>2. ledger \in Ledgers
  BY Zenon DEF TypeInv, TypeOK
<1>3. CASE Block
  <2>1. PICK p, h, r :
          WriteLedger([ledger EXCEPT
             !.state = "blocked", !.fp = p, !.blockerHead = h, !.gen = Len(ledger.rows), !.repeated = r])
    BY Zenon, <1>3 DEF Block
  <2> DEFINE doc == [ledger EXCEPT !.state = "blocked", !.fp = p, !.blockerHead = h,
                                   !.gen = Len(ledger.rows), !.repeated = r]
  <2>2. doc.state = "blocked" /\ doc.rows = ledger.rows
    BY Zenon, <1>2 DEF Ledgers
  <2>3. ledger.state = "in_progress"
    BY Zenon, <1>3 DEF Block
  <2> HIDE DEF doc
  <2>4. ClaimsOK(doc, head, label)
    BY Zenon, <2>2, <2>3 DEF ClaimsOK
  <2> QED BY Zenon, <1>1, <2>1, <2>4 DEF doc
<1>4. CASE ProvenForward
  <2> DEFINE doc == [ledger EXCEPT !.state = "ready"]
  <2>1. doc.state = "ready" /\ doc.rows = ledger.rows
    BY Zenon, <1>2 DEF Ledgers
  <2>2. label = "ready" /\ WriteLedger(doc)
    BY Zenon, <1>4 DEF ProvenForward
  <2> HIDE DEF doc
  <2>3. ClaimsOK(doc, head, label)
    BY Zenon, <2>1, <2>2 DEF ClaimsOK
  <2> QED BY Zenon, <1>1, <2>2, <2>3
<1>5. CASE AbandonClosed
  <2> DEFINE doc == [ledger EXCEPT !.state = "abandoned"]
  <2>1. doc.state = "abandoned" /\ doc.rows = ledger.rows
    BY Zenon, <1>2 DEF Ledgers
  <2>2. WriteLedger(doc)
    BY Zenon, <1>5 DEF AbandonClosed
  <2> HIDE DEF doc
  <2>3. ClaimsOK(doc, head, label)
    BY Zenon, <2>1 DEF ClaimsOK
  <2> QED BY Zenon, <1>1, <2>2, <2>3
<1>6. CASE Reconstruct
  BY Zenon, <1>6 DEF Reconstruct, ClaimsOK
<1>7. CASE Cool \/ CoolingElapses
  <2>1. PICK c : WriteLedger([ledger EXCEPT !.cooling = c])
    BY Zenon, <1>7 DEF Cool, CoolingElapses
  <2> DEFINE doc == [ledger EXCEPT !.cooling = c]
  <2>2. /\ doc.state = ledger.state /\ doc.rows = ledger.rows /\ doc.fp = ledger.fp
        /\ doc.gen = ledger.gen /\ doc.blockerHead = ledger.blockerHead
    BY Zenon, <1>2 DEF Ledgers
  <2> HIDE DEF doc
  <2>3. ClaimsOK(doc, head, label)
    BY Zenon, <2>2 DEF ClaimsOK
  <2> QED BY Zenon, <1>1, <2>1, <2>3 DEF doc
<1>8. CASE SupersedeDone
  <2> DEFINE S == Started(ledger.rows)
             doc == Supersede(ledger, S)
  <2>1. WriteLedger(doc) /\ ledger.state \in {"ready", "abandoned"}
    BY Zenon, <1>8 DEF SupersedeDone
  <2>2. /\ doc.rows = SetOutcome(ledger.rows, S, "superseded") /\ doc.state = ledger.state
        /\ doc.fp = ledger.fp /\ doc.gen = ledger.gen /\ doc.blockerHead = ledger.blockerHead
    BY Zenon, <1>2 DEF Supersede, Ledgers
  <2>3. label = "ready" \/ ledger.state = "abandoned"
    BY Zenon, <2>1 DEF ClaimsOK
  <2> HIDE DEF S, doc
  <2>4. ClaimsOK(doc, head, label)
    BY Zenon, <2>2, <2>3, SupersedingKeepsClaims DEF S
  <2> QED BY Zenon, <1>1, <2>1, <2>4
<1>9. CASE SupersedeStale
  <2> DEFINE S == Stale
             doc == Supersede(ledger, S)
  <2>1. WriteLedger(doc)
    BY Zenon, <1>9 DEF SupersedeStale
  <2>2. /\ doc.rows = SetOutcome(ledger.rows, S, "superseded") /\ doc.state = ledger.state
        /\ doc.fp = ledger.fp /\ doc.gen = ledger.gen /\ doc.blockerHead = ledger.blockerHead
    BY Zenon, <1>2 DEF Supersede, Ledgers
  <2>3. S \in SUBSET Started(ledger.rows)
    BY Zenon DEF Stale
  <2>4. ASSUME NEW i \in S PROVE ledger.rows[i].id.head < head
    <3>1. i \in DOMAIN ledger.rows /\ ledger.rows[i].id.head # head
      BY Zenon DEF Stale, Started
    <3>2. ledger.rows[i].id.head \in Nat /\ head \in Nat
      BY SMTT(60), <3>1, RowTypes DEF TypeInv, TypeOK, Ledgers, Heads
    <3>3. ledger.rows[i].id.head <= head
      BY Zenon, <3>1 DEF ClaimsOK
    <3> QED BY SMTT(60), <3>1, <3>2, <3>3
  <2> HIDE DEF S, doc
  <2>5. ClaimsOK(doc, head, label)
    BY Zenon, <2>2, <2>3, <2>4, SupersedingKeepsClaims
  <2> QED BY Zenon, <1>1, <2>1, <2>5
<1>10. CASE Readmit
  <2> DEFINE S == GenerationStarted
             doc == Readmitted
  <2>1. /\ WriteLedger(doc) /\ ledger.state = "blocked"
        /\ ledger.blockerHead # None /\ ledger.blockerHead # head
    BY Zenon, <1>10 DEF Readmit, Preflight, Moved
  <2>2. doc.rows = SetOutcome(ledger.rows, S, "superseded") /\ doc.state = "in_progress"
    BY Zenon, <1>2 DEF Readmitted, Supersede, Ledgers
  <2>3. S = Started(ledger.rows)
    BY Zenon, <2>1 DEF GenerationStarted, ClaimsOK
  <2>4. ASSUME NEW i \in S PROVE ledger.rows[i].id.head < head
    <3>1. i \in DOMAIN ledger.rows /\ ledger.rows[i].id.head = ledger.blockerHead
      BY Zenon, <2>1, <2>3 DEF Started, ClaimsOK
    <3>2. ledger.rows[i].id.head \in Nat /\ head \in Nat
      BY SMTT(60), <3>1, RowTypes DEF TypeInv, TypeOK, Ledgers, Heads
    <3>3. ledger.rows[i].id.head <= head
      BY Zenon, <3>1 DEF ClaimsOK
    <3> QED BY SMTT(60), <2>1, <3>1, <3>2, <3>3
  <2> HIDE DEF S, doc
  <2>5. ClaimsOK(doc, head, label)
    BY Zenon, <2>1, <2>2, <2>3, <2>4, SupersedingKeepsClaims
  <2> QED BY Zenon, <1>1, <2>1, <2>5
<1>11. CASE Skip \/ Claim
  <2>1. MayClaim
    BY Zenon, <1>11 DEF Skip, Claim
  <2>2. PICK i \in Selected :
          \/ WriteLedger(Recorded(AttemptId(i), "skipped", SkippedEpisode(i)))
          \/ WriteLedger(Recorded(AttemptId(i), "started", ClaimedEpisode(i)))
    BY Zenon, <1>11 DEF Skip, Claim, SkippedEpisode, ClaimedEpisode
  <2>3. SkippedEpisode(i) \in Episodes /\ ClaimedEpisode(i) \in Episodes
    BY Zenon, <2>1, SelectedRecipe DEF TypeInv
  <2>4. /\ ClaimsOK(Recorded(AttemptId(i), "skipped", SkippedEpisode(i)), head, label)
        /\ ClaimsOK(Recorded(AttemptId(i), "started", ClaimedEpisode(i)), head, label)
    BY Zenon, <2>1, <2>3, AddingKeepsClaims
  <2> QED BY Zenon, <1>1, <2>2, <2>4
<1>12. CASE Complete
  <2>1. CASE Completable(cur) /\ WriteLedger(Completed(ledger, cur, Succeeded))
    <3>1. Succeeded \in BOOLEAN
      BY Zenon DEF Succeeded, TypeInv, TypeOK
    <3> QED BY Zenon, <1>1, <2>1, <3>1, CompletingKeepsClaims
  <2>2. CASE WriteLedger(ledger)
    BY Zenon, <1>1, <2>2
  <2> QED BY Zenon, <1>12, <2>1, <2>2 DEF Complete
<1>13. CASE Takeover
  <2>1. CASE WriteLedger(ledger)
    BY Zenon, <1>1, <2>1
  <2>2. CASE \E id : Completable(id) /\ WriteLedger(Completed(ledger, id, TRUE))
    BY Zenon, <1>1, <2>2, CompletingKeepsClaims
  <2> QED BY Zenon, <1>13, <2>1, <2>2 DEF Takeover
<1>14. CASE \/ Replay \/ ReplayUnobserved \/ Defer("backoff") \/ Defer("claimed") \/ Execute \/ PostObservationFails
            \/ CompletionRefused \/ Crash \/ MoveHead \/ ChangeLabel \/ CloseIssue
  <2>1. ledger' = ledger
    BY Zenon, <1>14 DEF Replay, ReplayUnobserved, Defer, Execute, PostObservationFails, CompletionRefused, Crash,
       MoveHead, ChangeLabel, CloseIssue, Outside
  <2> QED BY Zenon, <2>1
<1> QED BY Zenon, <1>3, <1>4, <1>5, <1>6, <1>7, <1>8, <1>9, <1>10, <1>11, <1>12, <1>13, <1>14 DEF Next

-----------------------------------------------------------------------------
(* Claims that are carried out *)

\* The rows hold a claim of that id.
HeldIn(rows, id) == \E i \in DOMAIN rows : rows[i].id = id /\ rows[i].outcome # "skipped"

\* The claim that is executed and those that were are in the ledger.
DurableInv ==
  /\ pc \in {"claimed", "executed"} => HeldIn(ledger.rows, cur)
  /\ \A id \in effects : HeldIn(ledger.rows, id)

\* So is the one whose backoff is waited for.
DeferredInv == pc = "backoff" => HeldIn(ledger.rows, cur)

\* A claim is in the ledger once it is made, unless the latest row of its
\* episode is superseded.
LEMMA ClaimHeld ==
  ASSUME OrderInv, Claim, LatestLive(ledger.rows, head)
  PROVE  HeldIn(ledger'.rows, cur')
<1>1. TypeInv /\ ledger \in Ledgers /\ ledger.rows \in Seq(Rows) /\ MayClaim
  BY Zenon DEF OrderInv, TypeInv, TypeOK, Ledgers, Claim
<1>2. PICK i \in Selected :
        /\ WriteLedger(Recorded(AttemptId(i), "started", ClaimedEpisode(i)))
        /\ cur' = AttemptId(i)
  BY Zenon DEF Claim, ClaimedEpisode
<1>3. ledger' = Recorded(AttemptId(i), "started", ClaimedEpisode(i))
  BY Zenon, <1>1, <1>2, SelectedAccepted DEF WriteLedger
<1>4. AttemptId(i) \in AttemptIds /\ ClaimedEpisode(i) \in Episodes /\ "started" \in Outcomes
  BY Zenon, <1>1, SelectedRecipe DEF TypeInv, Outcomes
<1> DEFINE row == NewRow(AttemptId(i), "started", ClaimedEpisode(i))
<1>5. Grown(ledger.rows, ledger'.rows, row)
  BY Zenon, <1>1, <1>3, <1>4, RecordedRows
<1>6. row.id = AttemptId(i) /\ row.outcome # "skipped"
  BY Zenon DEF NewRow
<1> HIDE DEF row
<1>7. Len(ledger.rows) + 1 \in DOMAIN ledger'.rows /\ ledger'.rows[Len(ledger.rows) + 1] = row
  BY SMTT(60), <1>5 DEF Grown
<1> QED BY Zenon, <1>2, <1>6, <1>7 DEF HeldIn

\* Claims are in the ledger before they are carried out, and stay there.
LEMMA DurableStep ==
  ASSUME OrderInv, DurableInv, Next, Backoff \/ ClaimsOK(ledger, head, label)
  PROVE  /\ DurableInv'
         /\ ClaimsOK(ledger, head, label) /\ DeferredInv => DeferredInv'
<1>1. TypeInv /\ ledger \in Ledgers /\ ledger.rows \in Seq(Rows)
  BY Zenon DEF OrderInv, TypeInv, TypeOK, Ledgers
<1>2. ASSUME NEW id, HeldIn(ledger.rows, id) PROVE HeldIn(ledger'.rows, id)
  <2>1. Follows(ledger.rows, ledger'.rows)
    BY Zenon, <1>1, LedgerStep, ChangeFollows
  <2> QED BY Zenon, <1>2, <2>1 DEF Follows, HeldIn
<1>3. \A id \in effects' : HeldIn(ledger'.rows, id)
  <2>1. CASE effects' = effects
    BY Zenon, <1>2, <2>1 DEF DurableInv
  <2>2. CASE Execute
    BY Zenon, <1>2, <2>2 DEF Execute, DurableInv
  <2>3. CASE Next /\ ~Execute
    <3>1. effects' = effects
      BY Zenon, <2>3 DEF Next, Block, ProvenForward, AbandonClosed, SupersedeDone, Reconstruct, Readmit,
         SupersedeStale, Replay, ReplayUnobserved, Skip, Claim, Cool, CoolingElapses, Defer, PostObservationFails,
         Complete, CompletionRefused, Crash, Takeover, MoveHead, ChangeLabel, CloseIssue, Outside,
         MayClaim, Ready, Preflight, Idle
    <3> QED BY Zenon, <2>1, <3>1
  <2> QED BY Zenon, <2>2, <2>3
<1>4. ClaimsOK(ledger, head, label) /\ Claim => HeldIn(ledger'.rows, cur')
  BY Zenon, <1>1, NothingStarted, ClaimHeld DEF Claim
<1>5. CASE pc' = pc /\ cur' = cur
  BY Zenon, <1>2, <1>3, <1>5 DEF DurableInv, DeferredInv
<1>6. CASE Claim
  <2>1. pc' = IF Backoff THEN "backoff" ELSE "claimed"
    BY Zenon, <1>6 DEF Claim
  <2> QED BY Zenon, <1>3, <1>4, <1>6, <2>1 DEF DurableInv, DeferredInv
<1>7. CASE Replay \/ ReplayUnobserved
  <2>1. PICK m \in Started(ledger.rows) : cur' = ledger.rows[m].id
    BY Zenon, <1>1, <1>7, ReplayedRow
  <2>2. HeldIn(ledger.rows, cur')
    BY Zenon, <2>1 DEF HeldIn, Started
  <2> QED BY Zenon, <1>3, <1>7, <2>2 DEF Replay, ReplayUnobserved, DurableInv, DeferredInv
<1>8. CASE Execute
  BY Zenon, <1>2, <1>3, <1>8 DEF Execute, DurableInv, DeferredInv
<1>9. CASE \/ ProvenForward \/ AbandonClosed \/ SupersedeDone \/ Takeover
           \/ Defer("backoff") \/ Defer("claimed") \/ PostObservationFails \/ Complete
           \/ CompletionRefused \/ Crash
  <2>1. pc' \notin Carrying
    BY Zenon, <1>9 DEF ProvenForward, AbandonClosed, SupersedeDone, Takeover, Goto, Defer,
       PostObservationFails, Complete, CompletionRefused, Crash, Carrying
  <2> QED BY Zenon, <1>3, <2>1 DEF Carrying, DurableInv, DeferredInv
<1>10. CASE \/ Block \/ Reconstruct \/ Readmit \/ SupersedeStale \/ Skip \/ Cool \/ CoolingElapses
            \/ MoveHead \/ ChangeLabel \/ CloseIssue
  BY Zenon, <1>5, <1>10 DEF Block, Reconstruct, Readmit, SupersedeStale, Skip, Cool, CoolingElapses,
     MoveHead, ChangeLabel, CloseIssue, Outside, local
<1> QED BY Zenon, <1>6, <1>7, <1>8, <1>9, <1>10 DEF Next

\* The inductive invariant: types, order, exact counts and the bound always;
\* what the claims satisfy, as long as the pull request has not returned to an
\* earlier head or label; and that executed claims are in the ledger, then or
\* when every fresh claim waits for its backoff.
EpisodeInv ==
  /\ OrderInv /\ BoundInv
  /\ revisits = 0 => ClaimsOK(ledger, head, label) /\ DeferredInv
  /\ Backoff \/ revisits = 0 => DurableInv

\* The inductive invariant holds at every step.
THEOREM EpisodeInvariance == Spec => []EpisodeInv
<1>1. Init /\ OrderInv /\ BoundInv => EpisodeInv
  <2> SUFFICES ASSUME Init
               PROVE  ClaimsOK(ledger, head, label) /\ DeferredInv /\ DurableInv
    BY Zenon DEF EpisodeInv
  <2>1. DOMAIN ledger.rows = {} /\ ledger.state = "in_progress" /\ pc = "idle" /\ effects = {}
    BY SMTT(60) DEF Init
  <2>2. Started(ledger.rows) = {}
    BY Zenon, <2>1 DEF Started
  <2>3. ClaimsOK(ledger, head, label)
    BY Zenon, <2>1, <2>2 DEF ClaimsOK
  <2>4. DeferredInv /\ DurableInv
    BY Zenon, <2>1 DEF DeferredInv, DurableInv
  <2> QED BY Zenon, <2>3, <2>4
<1>2. EpisodeInv /\ OrderInv' /\ BoundInv' /\ [Next]_vars => EpisodeInv'
  <2> SUFFICES ASSUME EpisodeInv, OrderInv', BoundInv', [Next]_vars PROVE EpisodeInv'
    OBVIOUS
  <2>1. CASE Next
    <3>1. TypeInv /\ OrderInv
      BY Zenon DEF EpisodeInv, OrderInv
    <3>2. ASSUME revisits' = 0
          PROVE  /\ ClaimsOK(ledger', head', label') /\ DeferredInv' /\ DurableInv'
      <4>1. /\ revisits = 0 /\ head' \in Nat /\ head' >= head /\ (label = "ready" => label' = "ready")
        BY Zenon, <2>1, <3>1, <3>2, Forward
      <4>2. ClaimsOK(ledger, head, label) /\ DeferredInv /\ DurableInv
        BY Zenon, <4>1 DEF EpisodeInv
      <4>3. ClaimsOK(ledger', head, label)
        BY Zenon, <2>1, <3>1, <4>2, ClaimsStep
      <4>4. ledger' \in Ledgers /\ head \in Nat
        BY SMTT(60), <3>1 DEF OrderInv, TypeInv, TypeOK, Heads
      <4>5. ClaimsOK(ledger', head', label')
        BY Zenon, <4>1, <4>3, <4>4, ClaimsLater
      <4>6. DeferredInv' /\ DurableInv'
        BY Zenon, <2>1, <3>1, <4>2, DurableStep
      <4> QED BY Zenon, <4>5, <4>6
    <3>3. Backoff => DurableInv'
      BY Zenon, <2>1, <3>1, DurableStep DEF EpisodeInv
    <3> QED BY Zenon, <3>2, <3>3 DEF EpisodeInv
  <2>2. CASE UNCHANGED vars
    BY Zenon, <2>2 DEF EpisodeInv, vars, env, local, DeferredInv, DurableInv
  <2> QED BY Zenon, <2>1, <2>2
<1> QED BY <1>1, <1>2, OrderInvariance, BoundInvariance, PTL DEF Spec

-----------------------------------------------------------------------------
(* What follows for the claims *)

\* As long as the pull request has not returned to an earlier head or label, a
\* claim that is carried out is in the ledger that any process reads back
\* (ClaimDurable: startRecoveryAttempt over the store's quarantine).
THEOREM ClaimDurableForward == Spec => [](revisits = 0 => ClaimDurable)
<1>1. EpisodeInv => (revisits = 0 => ClaimDurable)
  BY Zenon DEF EpisodeInv, DeferredInv, DurableInv, HeldIn, ClaimDurable, Ids
<1> QED BY <1>1, EpisodeInvariance, PTL

\* As long as the pull request has not returned to an earlier head or label, at
\* most one claim is outstanding (OneOutstandingClaim: executeBlockedRecovery).
THEOREM OneOutstandingForward == Spec => [](revisits = 0 => OneOutstandingClaim)
<1>1. EpisodeInv => (revisits = 0 => OneOutstandingClaim)
  <2> SUFFICES ASSUME EpisodeInv, revisits = 0 PROVE Cardinality(Started(ledger.rows)) <= 1
    BY Zenon DEF OneOutstandingClaim
  <2>1. \A i, j \in Started(ledger.rows) : i = j
    BY Zenon DEF EpisodeInv, ClaimsOK
  <2>2. CASE Started(ledger.rows) = {}
    BY SMTT(60), <2>2, FS_EmptySet
  <2>3. CASE Started(ledger.rows) # {}
    <3>1. PICK i : Started(ledger.rows) = {i}
      BY Zenon, <2>1, <2>3
    <3>2. Cardinality({i}) = 1
      BY Zenon, FS_Singleton
    <3> QED BY SMTT(60), <3>1, <3>2
  <2> QED BY Zenon, <2>2, <2>3
<1> QED BY <1>1, EpisodeInvariance, PTL

\* As long as the pull request has not returned to an earlier head or label,
\* completeRecoveryAttempt does not refuse a claim that is still started when
\* its item is blocked (StartedClaimCompletable).
THEOREM StartedCompletableForward == Spec => [](revisits = 0 => StartedClaimCompletable)
<1>1. EpisodeInv => (revisits = 0 => StartedClaimCompletable)
  <2> SUFFICES ASSUME EpisodeInv, revisits = 0, ledger.state = "blocked",
                      NEW i \in Started(ledger.rows)
               PROVE  Completable(ledger.rows[i].id)
    BY Zenon DEF StartedClaimCompletable
  <2> DEFINE id == ledger.rows[i].id
  <2>1. i \in DOMAIN ledger.rows /\ ledger.rows[i].outcome = "started" /\ id.fp = ledger.fp
    BY Zenon DEF EpisodeInv, ClaimsOK, Started
  <2>2. id \in Ids(ledger.rows)
    BY Zenon, <2>1 DEF Ids
  <2>3. RowOf(ledger.rows, id) = i
    BY Zenon, <2>1, <2>2, RowOfId DEF EpisodeInv, OrderInv, RowsInv, Unique
  <2> HIDE DEF id
  <2>4. Completable(id)
    BY Zenon, <2>1, <2>2, <2>3 DEF Completable
  <2> QED BY Zenon, <2>4 DEF id
<1> QED BY <1>1, EpisodeInvariance, PTL

\* No recipe is executed under more claims than its bound on one candidate,
\* through any crashes, replays and re-blocks (StrategyBound: perStrategyBound).
\* This includes returns to earlier candidates if the policy's backoff delays
\* fresh claims; without it, the claim that the quarantine drops is executed.
THEOREM StrategyBoundHolds == Spec => [](Backoff \/ revisits = 0 => StrategyBound)
<1>1. EpisodeInv => (Backoff \/ revisits = 0 => StrategyBound)
  <2> SUFFICES ASSUME EpisodeInv, Backoff \/ revisits = 0, NEW h \in Heads, NEW r \in Recipe
               PROVE  Cardinality({id \in effects : id.head = h /\ id.action = r}) <= Bound
    BY Zenon DEF StrategyBound
  <2> DEFINE rows == ledger.rows
             claims == ClaimsOf(rows, h, r)
             ran == {id \in effects : id.head = h /\ id.action = r}
             row(id) == CHOOSE i \in claims : rows[i].id = id
             f == [id \in ran |-> row(id)]
  <2>1. rows \in Seq(Rows) /\ claims \in SUBSET DOMAIN rows /\ Bound \in Nat
    BY Zenon, PolicyAssumption DEF EpisodeInv, OrderInv, TypeInv, TypeOK, Ledgers, ClaimsOf
  <2>2. IsFiniteSet(claims) /\ Cardinality(claims) \in Nat /\ Cardinality(claims) <= Bound
    BY Zenon, <2>1, IndicesFinite DEF EpisodeInv, BoundInv, WithinBound
  <2>3. ASSUME NEW id \in ran PROVE row(id) \in claims /\ rows[row(id)].id = id
    <3>1. HeldIn(rows, id) /\ id.head = h /\ id.action = r
      BY Zenon DEF EpisodeInv, DurableInv
    <3>2. \E i \in claims : rows[i].id = id
      BY Zenon, <3>1 DEF HeldIn, ClaimsOf
    <3> QED BY Zenon, <3>2
  <2> HIDE DEF row, claims, ran
  <2>4. f \in Injection(ran, claims)
    <3>1. \A a, b \in ran : f[a] = f[b] => a = b
      BY Zenon, <2>3
    <3> QED BY Zenon, <2>3, <3>1 DEF Injection, IsInjective
  <2>5. IsFiniteSet(ran) /\ Cardinality(ran) <= Cardinality(claims)
    BY Zenon, <2>2, <2>4, FS_Injection
  <2>6. Cardinality(ran) \in Nat
    BY Zenon, <2>5, FS_CardinalityType
  <2>7. Cardinality(ran) <= Bound
    BY SMTT(60), <2>1, <2>2, <2>5, <2>6
  <2> QED BY Zenon, <2>7 DEF ran
<1> QED BY <1>1, EpisodeInvariance, PTL

\* A claim that is made is in the ledger when it is read back, whatever the pull
\* request has done before, unless the candidate's latest row is superseded.
ClaimKept ==
  [][Claim /\ LatestLive(ledger.rows, head) => cur' \in Ids(ledger'.rows)]_vars

\* A superseded latest row is the one reason for which writeLedger's document is
\* quarantined and a claim is lost (ClaimKept), so that ClaimDurable fails only
\* when the pull request comes back to a candidate whose claim was superseded.
THEOREM ClaimKeptHolds == Spec => ClaimKept
<1>1. OrderInv /\ [Next]_vars =>
        [Claim /\ LatestLive(ledger.rows, head) => cur' \in Ids(ledger'.rows)]_vars
  BY Zenon, ClaimHeld DEF HeldIn, Ids
<1> QED BY <1>1, OrderInvariance, PTL DEF Spec, ClaimKept

-----------------------------------------------------------------------------
(* Claims that ran on another candidate *)

Recovered(rows) == {rows[i].id : i \in {j \in DOMAIN rows : rows[j].outcome = "recovered"}}

\* Only the completion of a claim and a takeover record a recovery.
LEMMA RecoveredBy ==
  ASSUME TypeInv, Next, ~Complete, ~Takeover
  PROVE  Recovered(ledger'.rows) \subseteq Recovered(ledger.rows)
<1> DEFINE old == ledger.rows
<1>1. ledger \in Ledgers /\ old \in Seq(Rows)
  BY Zenon DEF TypeInv, TypeOK, Ledgers
<1>2. ASSUME NEW doc, WriteLedger(doc), Recovered(doc.rows) \subseteq Recovered(ledger.rows)
      PROVE  Recovered(ledger'.rows) \subseteq Recovered(ledger.rows)
  BY Zenon, <1>2 DEF WriteLedger
<1>3. ASSUME NEW S \in SUBSET Started(ledger.rows)
      PROVE  Recovered(SetOutcome(ledger.rows, S, "superseded")) \subseteq Recovered(ledger.rows)
  <2> DEFINE new == SetOutcome(old, S, "superseded")
  <2>1. /\ DOMAIN new = DOMAIN old
        /\ \A i \in DOMAIN old : /\ new[i].id = old[i].id
                                 /\ new[i].outcome = (IF i \in S THEN "superseded" ELSE old[i].outcome)
    BY SMTT(60), <1>1, SetOutcomeRows DEF Outcomes
  <2> HIDE DEF old, new
  <2>2. Recovered(new) \subseteq Recovered(old)
    BY Zenon, <2>1 DEF Recovered
  <2> QED BY Zenon, <2>2 DEF old, new
<1>4. CASE Block
  <2>1. PICK p, h, g, r :
          WriteLedger([ledger EXCEPT
             !.state = "blocked", !.fp = p, !.blockerHead = h, !.gen = g, !.repeated = r])
    BY Zenon, <1>4 DEF Block
  <2> DEFINE doc == [ledger EXCEPT !.state = "blocked", !.fp = p, !.blockerHead = h, !.gen = g,
                                   !.repeated = r]
  <2>2. doc.rows = ledger.rows
    BY Zenon, <1>1 DEF Ledgers
  <2> HIDE DEF doc
  <2> QED BY Zenon, <1>2, <2>1, <2>2 DEF doc
<1>8. CASE ProvenForward \/ AbandonClosed \/ Reconstruct
  <2>1. PICK s : WriteLedger([ledger EXCEPT !.state = s])
    BY Zenon, <1>8 DEF ProvenForward, AbandonClosed, Reconstruct
  <2> DEFINE doc == [ledger EXCEPT !.state = s]
  <2>2. doc.rows = ledger.rows
    BY Zenon, <1>1 DEF Ledgers
  <2> HIDE DEF doc
  <2> QED BY Zenon, <1>2, <2>1, <2>2 DEF doc
<1>9. CASE Cool \/ CoolingElapses
  <2>1. PICK c : WriteLedger([ledger EXCEPT !.cooling = c])
    BY Zenon, <1>9 DEF Cool, CoolingElapses
  <2> DEFINE doc == [ledger EXCEPT !.cooling = c]
  <2>2. doc.rows = ledger.rows
    BY Zenon, <1>1 DEF Ledgers
  <2> HIDE DEF doc
  <2> QED BY Zenon, <1>2, <2>1, <2>2 DEF doc
<1>5. CASE SupersedeDone \/ SupersedeStale
  <2>1. PICK S \in SUBSET Started(ledger.rows) : WriteLedger(Supersede(ledger, S))
    BY Zenon, <1>5 DEF SupersedeDone, SupersedeStale, Stale
  <2> DEFINE doc == Supersede(ledger, S)
  <2>2. doc.rows = SetOutcome(ledger.rows, S, "superseded")
    BY Zenon, <1>1 DEF Supersede, Ledgers
  <2> HIDE DEF doc
  <2> QED BY Zenon, <1>2, <1>3, <2>1, <2>2 DEF doc
<1>10. CASE Readmit
  <2> DEFINE S == GenerationStarted
             doc == Supersede(ledger, S)
             new == [doc EXCEPT !.state = "in_progress", !.fp = None, !.repeated = 0,
                                !.blockerHead = None, !.cooling = None]
  <2>1. WriteLedger(new)
    BY Zenon, <1>10 DEF Readmit, Readmitted
  <2>2. S \in SUBSET Started(ledger.rows)
    BY Zenon DEF GenerationStarted
  <2>3. doc = [ledger EXCEPT !.rows = SetOutcome(ledger.rows, S, "superseded")]
    BY Zenon DEF Supersede
  <2> HIDE DEF S, doc
  <2>4. doc \in Ledgers /\ doc.rows = SetOutcome(ledger.rows, S, "superseded")
    BY Zenon, <2>2, <2>3, ClosedDoc DEF Closings, DocOK
  <2>5. new.rows = doc.rows
    BY Zenon, <2>4 DEF Ledgers
  <2> HIDE DEF new
  <2> QED BY Zenon, <1>2, <1>3, <2>1, <2>2, <2>4, <2>5
<1>6. CASE Skip \/ Claim
  <2>1. MayClaim
    BY Zenon, <1>6 DEF Skip, Claim
  <2>2. PICK i \in Selected : \E o \in {"skipped", "started"}, ep \in {SkippedEpisode(i), ClaimedEpisode(i)} :
          WriteLedger(Recorded(AttemptId(i), o, ep))
    BY Zenon, <1>6 DEF Skip, Claim, SkippedEpisode, ClaimedEpisode
  <2>3. PICK o \in {"skipped", "started"}, ep \in {SkippedEpisode(i), ClaimedEpisode(i)} :
          WriteLedger(Recorded(AttemptId(i), o, ep))
    BY Zenon, <2>2
  <2>4. AttemptId(i) \in AttemptIds /\ ep \in Episodes /\ o \in Outcomes /\ o # "recovered"
    BY Zenon, <2>1, SelectedRecipe DEF TypeInv, Outcomes
  <2> DEFINE new == Recorded(AttemptId(i), o, ep).rows
             row == NewRow(AttemptId(i), o, ep)
             n == Len(ledger.rows)
  <2>5. Grown(old, new, row)
    BY Zenon, <1>1, <2>4, RecordedRows
  <2>6. row.outcome = o
    BY Zenon DEF NewRow
  <2> HIDE DEF new, row
  <2>7. /\ n \in Nat /\ DOMAIN old = 1..n /\ DOMAIN new = 1..n + 1
        /\ \A j \in DOMAIN old : new[j] = old[j]
        /\ new[n + 1] = row
    BY Zenon, <2>5 DEF Grown
  <2> HIDE DEF n
  <2>8. \A j \in 1..n + 1 : j \in 1..n \/ j = n + 1
    BY SMTT(60), <2>7
  <2> HIDE DEF old
  <2>9. Recovered(new) \subseteq Recovered(old)
    BY Zenon, <2>4, <2>6, <2>7, <2>8 DEF Recovered
  <2> QED BY Zenon, <1>2, <2>3, <2>9 DEF new, old
<1>7. CASE \/ Replay \/ ReplayUnobserved \/ Defer("backoff") \/ Defer("claimed") \/ Execute
           \/ PostObservationFails \/ CompletionRefused \/ Crash \/ MoveHead \/ ChangeLabel \/ CloseIssue
  <2>1. ledger' = ledger
    BY Zenon, <1>7 DEF Replay, ReplayUnobserved, Defer, Execute, PostObservationFails,
       CompletionRefused, Crash, MoveHead, ChangeLabel, CloseIssue, Outside
  <2> QED BY Zenon, <2>1
<1> QED BY Zenon, <1>4, <1>5, <1>6, <1>7, <1>8, <1>9, <1>10 DEF Next

\* Completing a claim records no recovery but its own, and that only when it
\* succeeded.
LEMMA RecoveredByCompletion ==
  ASSUME TypeInv, NEW id, Completable(id), NEW ok \in BOOLEAN, WriteLedger(Completed(ledger, id, ok)),
         NEW r \in Recovered(ledger'.rows), r \notin Recovered(ledger.rows)
  PROVE  r = id /\ ok
<1> DEFINE old == ledger.rows
           new == Completed(ledger, id, ok).rows
           k == RowOf(ledger.rows, id)
           o == IF ok THEN "recovered" ELSE "failed"
<1>1. old \in Seq(Rows) /\ id \in Ids(old)
  BY Zenon DEF TypeInv, TypeOK, Ledgers, Completable
<1>2. k \in DOMAIN old /\ old[k].id = id
  BY Zenon, <1>1, RowOfId
<1>3. new = SetOutcome(old, {k}, o) /\ k \in Started(old)
  BY Zenon, CompletedDoc
<1>4. o \in Outcomes /\ (o = "recovered" => ok)
  BY Zenon DEF Outcomes
<1> HIDE DEF k, o
<1>5. /\ DOMAIN new = DOMAIN old
      /\ \A i \in DOMAIN old : /\ new[i].id = old[i].id
                               /\ new[i].outcome = (IF i \in {k} THEN o ELSE old[i].outcome)
  BY SMTT(60), <1>1, <1>3, <1>4, SetOutcomeRows
<1>6. r \in Recovered(new)
  BY Zenon DEF WriteLedger
<1> HIDE DEF new, old
<1>7. r \notin Recovered(old)
  BY Zenon DEF old
<1> QED BY Zenon, <1>2, <1>4, <1>5, <1>6, <1>7 DEF Recovered

\* As long as the pull request has not returned to an earlier candidate, the
\* claims that strayed are narrow ones of past candidates, none of them is
\* recovered, and neither is the claim that is carried out.
StrayInv ==
  revisits = 0 =>
    /\ \A id \in strayed : id.action # Repair /\ id.head < head
    /\ strayed \cap Recovered(ledger.rows) = {}
    /\ pc \in {"claimed", "executed"} => cur \notin Recovered(ledger.rows)

\* A claim is carried out only while it has not recovered the item.
LEMMA CarriedNotRecovered ==
  ASSUME OrderInv, StrayInv, Next, revisits = 0, pc' \in {"claimed", "executed"}
  PROVE  cur' \notin Recovered(ledger'.rows)
<1>1. TypeInv
  BY Zenon DEF OrderInv
<1>2. CASE Claim
  <2>1. PICK i \in Selected : cur' = AttemptId(i)
    BY Zenon, <1>2 DEF Claim
  <2>2. cur' \notin Recovered(ledger.rows)
    BY Zenon, <2>1 DEF Selected, Ids, Recovered
  <2>3. ~Complete /\ ~Takeover
    BY Zenon, <1>2 DEF Claim, MayClaim, Ready, Preflight, Idle, Complete, Takeover
  <2> QED BY Zenon, <1>1, <2>2, <2>3, RecoveredBy
<1>3. CASE Replay \/ ReplayUnobserved
  <2>1. PICK m \in Started(ledger.rows) : cur' = ledger.rows[m].id
    BY Zenon, <1>1, <1>3, ReplayedRow
  <2>2. ledger' = ledger
    BY Zenon, <1>3 DEF Replay, ReplayUnobserved
  <2>3. \A i \in DOMAIN ledger.rows : ledger.rows[i].id = cur' => ledger.rows[i].outcome = "started"
    BY Zenon, <2>1 DEF OrderInv, RowsInv, Unique, Started
  <2> QED BY Zenon, <2>2, <2>3 DEF Recovered
<1>4. CASE Execute
  BY Zenon, <1>4 DEF Execute, StrayInv
<1>5. CASE MoveHead \/ ChangeLabel \/ CloseIssue
  BY Zenon, <1>5 DEF MoveHead, ChangeLabel, CloseIssue, Outside, local, StrayInv
<1>6. CASE \/ ProvenForward \/ AbandonClosed \/ SupersedeDone \/ Takeover
           \/ Defer("backoff") \/ Defer("claimed") \/ PostObservationFails \/ Complete
           \/ CompletionRefused \/ Crash
  BY Zenon, <1>6 DEF ProvenForward, AbandonClosed, SupersedeDone, Takeover, Goto, Defer,
     PostObservationFails, Complete, CompletionRefused, Crash
<1>7. CASE Block \/ Reconstruct \/ Readmit \/ SupersedeStale \/ Skip \/ Cool \/ CoolingElapses
  BY Zenon, <1>7 DEF Block, Reconstruct, Readmit, SupersedeStale, Skip, Cool, CoolingElapses,
     MayClaim, Ready, Preflight, Idle, local
<1> QED BY Zenon, <1>2, <1>3, <1>4, <1>5, <1>6, <1>7 DEF Next

\* Claims stray only when they are executed.
LEMMA StraysBy ==
  ASSUME Next, ~Execute
  PROVE  strayed' \subseteq strayed
<1>1. CASE Takeover
  BY Zenon, <1>1 DEF Takeover
<1>2. CASE Next /\ ~Execute /\ ~Takeover
  <2>1. strayed' = strayed
    BY Zenon, <1>2 DEF Next, Block, ProvenForward, AbandonClosed, SupersedeDone, Reconstruct, Readmit,
       SupersedeStale, Replay, ReplayUnobserved, Skip, Claim, Cool, CoolingElapses, Defer,
       PostObservationFails, Complete, CompletionRefused, Crash, MoveHead, ChangeLabel, CloseIssue,
       Outside, MayClaim, Ready, Preflight, Idle
  <2> QED BY Zenon, <2>1
<1> QED BY Zenon, <1>1, <1>2

\* Every step keeps it.
LEMMA StrayStep ==
  ASSUME EpisodeInv, StrayInv, Next
  PROVE  StrayInv'
<1> SUFFICES ASSUME revisits' = 0
             PROVE  /\ \A id \in strayed' : id.action # Repair /\ id.head < head'
                    /\ strayed' \cap Recovered(ledger'.rows) = {}
                    /\ pc' \in {"claimed", "executed"} => cur' \notin Recovered(ledger'.rows)
  BY Zenon DEF StrayInv
<1>1. TypeInv /\ OrderInv
  BY Zenon DEF EpisodeInv, OrderInv
<1>2. revisits = 0 /\ head' \in Nat /\ head' >= head
  BY Zenon, <1>1, Forward
<1>3. /\ \A id \in strayed : id.action # Repair /\ id.head < head
      /\ strayed \cap Recovered(ledger.rows) = {}
      /\ pc \in {"claimed", "executed"} => cur \notin Recovered(ledger.rows)
  BY Zenon, <1>2 DEF StrayInv
<1>4. head \in Nat /\ \A id \in strayed : id.head \in Nat
  BY SMTT(60), <1>1 DEF TypeInv, TypeOK, AttemptIds, Heads
<1>5. \A id \in strayed : id.action # Repair /\ id.head < head'
  BY SMTT(60), <1>2, <1>3, <1>4
<1>6. CASE Execute
  <2>1. HeldIn(ledger.rows, cur) /\ ClaimsOK(ledger, head, label) /\ cur \in AttemptIds
    BY Zenon, <1>1, <1>2, <1>6 DEF Execute, EpisodeInv, DurableInv, TypeInv, Carrying
  <2>2. cur.head <= head /\ cur.head \in Nat
    <3>1. cur.head <= head
      BY Zenon, <2>1 DEF HeldIn, ClaimsOK
    <3> QED BY SMTT(60), <2>1, <3>1 DEF AttemptIds, Heads
  <2>3. \/ strayed' \subseteq strayed
        \/ strayed' = strayed \cup {cur} /\ cur.action # Repair /\ cur.head # head
    BY Zenon, <1>6 DEF Execute
  <2>4. cur.head # head => cur.head < head'
    BY SMTT(60), <1>2, <1>4, <2>2
  <2>5. ledger' = ledger /\ cur \notin Recovered(ledger.rows)
    BY Zenon, <1>3, <1>6 DEF Execute
  <2> QED BY Zenon, <1>1, <1>2, <1>3, <1>5, <2>3, <2>4, <2>5, CarriedNotRecovered
<1>7. CASE ~Execute
  <2>1. strayed' \subseteq strayed
    BY Zenon, <1>7, StraysBy
  <2>2. ASSUME NEW r \in strayed', r \in Recovered(ledger'.rows) PROVE FALSE
    <3>1. r \in strayed /\ r \notin Recovered(ledger.rows) /\ r.action # Repair /\ r.head < head
      BY Zenon, <1>3, <2>1, <2>2
    <3>2. CASE Complete
      <4>1. ledger' # ledger
        BY Zenon, <2>2, <3>1
      <4>2. Completable(cur) /\ WriteLedger(Completed(ledger, cur, Succeeded))
        BY Zenon, <3>2, <4>1 DEF Complete, WriteLedger
      <4>3. Succeeded \in BOOLEAN
        BY Zenon, <1>1 DEF Succeeded, TypeInv, TypeOK
      <4>4. r = cur /\ Succeeded
        BY Zenon, <1>1, <2>2, <3>1, <4>2, <4>3, RecoveredByCompletion
      <4>5. head = cur.head
        BY Zenon, <3>1, <4>4 DEF Succeeded
      <4> QED BY SMTT(60), <1>4, <3>1, <4>4, <4>5
    <3>3. CASE Takeover
      <4>1. ledger' # ledger
        BY Zenon, <2>2, <3>1
      <4>2. PICK id : /\ Completable(id) /\ WriteLedger(Completed(ledger, id, TRUE))
                      /\ strayed' = strayed \ {id}
        BY Zenon, <3>3, <4>1 DEF Takeover, WriteLedger
      <4>3. r = id
        BY Zenon, <1>1, <2>2, <3>1, <4>2, RecoveredByCompletion
      <4> QED BY Zenon, <2>2, <4>2, <4>3
    <3> QED BY Zenon, <1>1, <2>2, <3>1, <3>2, <3>3, RecoveredBy
  <2> QED BY Zenon, <1>1, <1>2, <1>5, <2>1, <2>2, CarriedNotRecovered
<1> QED BY Zenon, <1>6, <1>7

\* A narrow recipe may run after the pull request has left the candidate it was
\* claimed on, for every policy, number of candidates and of crashes.  Its claim
\* is not recorded as a recovery and does not resume the item, as long as the
\* pull request has not returned to an earlier candidate and no observer has
\* vouched for the claim (StrayedNotRecovered: executeBlockedRecovery).
THEOREM StrayedNotRecoveredHolds == Spec => []StrayedNotRecovered
<1>1. Init => StrayInv
  BY Zenon DEF Init, StrayInv
<1>2. EpisodeInv /\ StrayInv /\ [Next]_vars => StrayInv'
  <2> SUFFICES ASSUME EpisodeInv, StrayInv, [Next]_vars PROVE StrayInv'
    OBVIOUS
  <2>1. CASE Next
    BY Zenon, <2>1, StrayStep
  <2>2. CASE UNCHANGED vars
    BY Zenon, <2>2 DEF StrayInv, vars, env, local
  <2> QED BY Zenon, <2>1, <2>2
<1>3. StrayInv => StrayedNotRecovered
  BY Zenon DEF StrayInv, StrayedNotRecovered, Recovered
<1> QED BY <1>1, <1>2, <1>3, EpisodeInvariance, PTL DEF Spec
=============================================================================
