------------------------ MODULE RecoveryEpisodesProofs ------------------------
(***************************************************************************)
(* For every policy, bound, number of candidates, fingerprints, crashes    *)
(* and revisits: attempts are never lost or rewritten, and a side effect   *)
(* is only carried out for its own candidate.                              *)
(***************************************************************************)
EXTENDS RecoveryEpisodes, FiniteSetTheorems, TLAPS

-----------------------------------------------------------------------------
(* Positions of the policy and indices of rows *)

\* What the projection of an episode is (projectEpisode).
Episodes == [counts : Counts, cursor : 0..Len(Recipes), skipped : SUBSET Recipe]

\* The recipes up to a position of the policy.
UpTo(n) == {Recipes[k] : k \in 1..n}

\* The indices and the elements of a sequence.
LEMMA SeqIndices ==
  ASSUME NEW S, NEW s \in Seq(S)
  PROVE  Len(s) \in Nat /\ DOMAIN s = 1..Len(s) /\ \A i \in 1..Len(s) : s[i] \in S
OBVIOUS

\* A function on 1..n is a sequence of length n.
LEMMA SeqFunction ==
  ASSUME NEW S, NEW n \in Nat, NEW f \in [1..n -> S]
  PROVE  f \in Seq(S) /\ Len(f) = n
OBVIOUS

\* Append adds its element at the end.
LEMMA SeqAppend ==
  ASSUME NEW S, NEW s \in Seq(S), NEW e \in S
  PROVE  /\ Append(s, e) \in Seq(S) /\ Len(Append(s, e)) = Len(s) + 1
         /\ \A i \in 1..Len(s) : Append(s, e)[i] = s[i]
         /\ Append(s, e)[Len(s) + 1] = e
OBVIOUS

\* A recipe occurs once in its policy, so that its position is the one it has.
LEMMA PositionOf ==
  ASSUME NEW i \in DOMAIN Recipes
  PROVE  Recipes[i] \in Recipe /\ Position(Recipes[i]) = i
<1>1. Position(Recipes[i]) \in DOMAIN Recipes /\ Recipes[Position(Recipes[i])] = Recipes[i]
  BY Zenon DEF Position
<1>2. Position(Recipes[i]) = i
  BY Zenon, <1>1, PolicyAssumption
<1> QED BY Zenon, <1>2 DEF Recipe

\* Every recipe has a position.
LEMMA RecipePosition ==
  ASSUME NEW r \in Recipe
  PROVE  Position(r) \in 1..Len(Recipes) /\ Recipes[Position(r)] = r
<1>1. PICK i \in DOMAIN Recipes : r = Recipes[i]
  BY Zenon DEF Recipe
<1>2. DOMAIN Recipes = 1..Len(Recipes)
  BY Zenon, PolicyAssumption, SeqIndices
<1> QED BY Zenon, <1>1, <1>2, PositionOf

\* There are at most n recipes up to position n.
LEMMA UpToCardinality ==
  ASSUME NEW n \in 0..Len(Recipes), NEW S \in SUBSET UpTo(n)
  PROVE  Cardinality(S) <= n
<1>1. Len(Recipes) \in Nat /\ DOMAIN Recipes = 1..Len(Recipes)
  BY Zenon, PolicyAssumption, SeqIndices
<1>2. IsFiniteSet(1..n) /\ Cardinality(1..n) = n
  BY SMTT(60), <1>1, FS_Interval
<1> DEFINE f == [r \in S |-> Position(r)]
<1>3. ASSUME NEW r \in S PROVE r \in Recipe /\ f[r] \in 1..n
  <2>1. PICK k \in 1..n : r = Recipes[k]
    BY Zenon DEF UpTo
  <2>2. k \in DOMAIN Recipes
    BY SMTT(60), <1>1
  <2> QED BY Zenon, <2>1, <2>2, PositionOf
<1>4. f \in Injection(S, 1..n)
  <2>1. \A a, b \in S : f[a] = f[b] => a = b
    BY Zenon, <1>3, RecipePosition
  <2> QED BY Zenon, <1>3, <2>1 DEF Injection, IsInjective
<1> QED BY SMTT(60), <1>2, <1>4, FS_Injection

\* A set of indices that is not empty has a greatest member, which is its Max.
LEMMA MaxIndex ==
  ASSUME NEW n \in Nat, NEW S \in SUBSET (1..n), S # {}
  PROVE  Max(S) \in S /\ \A i \in S : i <= Max(S)
<1> DEFINE T == {n - i : i \in S}
<1>1. T \subseteq Nat /\ T # {}
  <2>1. \A i \in S : i \in 1..n
    OBVIOUS
  <2>2. \A i \in S : n - i \in Nat
    BY SMTT(60), <2>1
  <2> QED BY Zenon, <2>2
<1>2. PICK x \in T : \A y \in T : ~(<<y, x>> \in OpToRel(<, Nat))
  BY Zenon, <1>1, NatLessThanWellFounded, WFMin
<1>3. \A y \in T : ~(y < x)
  BY Zenon, <1>1, <1>2 DEF OpToRel
<1>4. PICK m \in S : x = n - m
  OBVIOUS
<1>5. ASSUME NEW i \in S PROVE m >= i
  <2>1. ~(n - i < n - m)
    BY Zenon, <1>3, <1>4
  <2> QED BY SMTT(60), <2>1
<1>6. Max(S) \in S /\ \A i \in S : Max(S) >= i
  BY Zenon, <1>5 DEF Max
<1> QED BY Zenon, <1>6

\* Sets of row indices are finite.
LEMMA IndicesFinite ==
  ASSUME NEW rows \in Seq(Rows), NEW S \in SUBSET DOMAIN rows
  PROVE  /\ Len(rows) \in Nat /\ DOMAIN rows = 1..Len(rows)
         /\ IsFiniteSet(S) /\ Cardinality(S) \in Nat
<1>1. Len(rows) \in Nat /\ DOMAIN rows = 1..Len(rows)
  BY Zenon, SeqIndices
<1>2. IsFiniteSet(DOMAIN rows)
  BY SMTT(60), <1>1, FS_Interval
<1> QED BY Zenon, <1>1, <1>2, FS_Subset, FS_CardinalityType

-----------------------------------------------------------------------------
(* Rows *)

\* The row Recorded appends.
NewRow(id, outcome, ep) ==
  [id |-> id, outcome |-> outcome, counts |-> ep.counts,
   cursor |-> ep.cursor, skipped |-> ep.skipped]

\* new is old with row at its end.
Grown(old, new, row) ==
  /\ row \in Rows /\ new \in Seq(Rows)
  /\ Len(old) \in Nat /\ DOMAIN old = 1..Len(old)
  /\ Len(new) = Len(old) + 1 /\ DOMAIN new = 1..Len(old) + 1
  /\ \A i \in DOMAIN old : new[i] = old[i]
  /\ new[Len(old) + 1] = row

\* Recorded adds one row at the end and keeps the others.
LEMMA RecordedRows ==
  ASSUME ledger \in Ledgers, NEW id \in AttemptIds, NEW o \in Outcomes, NEW ep \in Episodes
  PROVE  /\ Recorded(id, o, ep) \in Ledgers
         /\ Recorded(id, o, ep).state = ledger.state /\ Recorded(id, o, ep).fp = ledger.fp
         /\ Recorded(id, o, ep).gen = ledger.gen
         /\ Recorded(id, o, ep).blockerHead = ledger.blockerHead
         /\ Grown(ledger.rows, Recorded(id, o, ep).rows, NewRow(id, o, ep))
<1> DEFINE old == ledger.rows
           n == Len(ledger.rows)
           rows == Recorded(id, o, ep).rows
<1>1. old \in Seq(Rows)
  BY Zenon DEF Ledgers
<1>2. NewRow(id, o, ep) \in Rows
  BY Zenon DEF NewRow, Rows, Episodes
<1>3. rows = Append(old, NewRow(id, o, ep))
  BY Zenon DEF Recorded, NewRow, Ledgers
<1>4. n \in Nat /\ DOMAIN old = 1..n
  BY Zenon, <1>1, SeqIndices
<1>5. /\ rows \in Seq(Rows) /\ Len(rows) = n + 1
      /\ \A i \in 1..n : rows[i] = old[i]
      /\ rows[n + 1] = NewRow(id, o, ep)
  BY SMTT(60), <1>1, <1>2, <1>3, <1>4, SeqAppend
<1>6. DOMAIN rows = 1..n + 1
  BY Zenon, <1>4, <1>5, SeqIndices
<1>7. Recorded(id, o, ep) = [ledger EXCEPT !.rows = rows]
  BY Zenon, <1>3 DEF Recorded, NewRow, Ledgers
<1>8. /\ Recorded(id, o, ep) \in Ledgers
      /\ Recorded(id, o, ep).state = ledger.state /\ Recorded(id, o, ep).fp = ledger.fp
      /\ Recorded(id, o, ep).gen = ledger.gen
      /\ Recorded(id, o, ep).blockerHead = ledger.blockerHead
  BY Zenon, <1>5, <1>7 DEF Ledgers
<1>9. Grown(old, rows, NewRow(id, o, ep))
  BY Zenon, <1>2, <1>4, <1>5, <1>6 DEF Grown
<1> QED BY Zenon, <1>8, <1>9

\* SetOutcome changes the outcome of the rows it names and nothing else.
LEMMA SetOutcomeRows ==
  ASSUME NEW rows \in Seq(Rows), NEW S, NEW o \in Outcomes,
         NEW new, new = SetOutcome(rows, S, o)
  PROVE  /\ new \in Seq(Rows) /\ Len(new) = Len(rows) /\ DOMAIN new = DOMAIN rows
         /\ \A i \in DOMAIN rows :
              /\ rows[i] \in Rows /\ new[i] \in Rows
              /\ new[i].id = rows[i].id /\ new[i].counts = rows[i].counts
              /\ new[i].cursor = rows[i].cursor /\ new[i].skipped = rows[i].skipped
              /\ new[i].outcome = (IF i \in S THEN o ELSE rows[i].outcome)
              /\ i \notin S => new[i] = rows[i]
<1>1. Len(rows) \in Nat /\ DOMAIN rows = 1..Len(rows)
  BY Zenon, SeqIndices
<1>2. \A i \in DOMAIN rows : rows[i] \in Rows
  BY Zenon, <1>1, SeqIndices
<1>3. DOMAIN new = DOMAIN rows
  BY Zenon DEF SetOutcome
<1>4. ASSUME NEW i \in DOMAIN rows
      PROVE  /\ new[i] \in Rows
             /\ new[i].id = rows[i].id /\ new[i].counts = rows[i].counts
             /\ new[i].cursor = rows[i].cursor /\ new[i].skipped = rows[i].skipped
             /\ new[i].outcome = (IF i \in S THEN o ELSE rows[i].outcome)
             /\ i \notin S => new[i] = rows[i]
  BY Zenon, <1>2 DEF SetOutcome, Rows
<1>5. new \in [1..Len(rows) -> Rows]
  BY Zenon, <1>1, <1>3, <1>4 DEF SetOutcome
<1>6. new \in Seq(Rows)
  BY Zenon, <1>1, <1>5, SeqFunction
<1>7. Len(new) = Len(rows)
  BY SMTT(60), <1>1, <1>3, <1>6, SeqIndices
<1> QED BY Zenon, <1>2, <1>3, <1>4, <1>6, <1>7

-----------------------------------------------------------------------------
(* The episode a claim is made in *)

\* The episode projected from the rows is one.
LEMMA EpisodeType ==
  ASSUME NEW rows \in Seq(Rows), NEW h
  PROVE  Episode(rows, h) \in Episodes /\ DerivedCounts(rows, h) \in Counts
<1>1. DerivedCounts(rows, h) \in Counts
  <2>1. ASSUME NEW r \in Recipe
        PROVE  Cardinality({i \in OfEpisode(rows, h) : rows[i].id.action = r /\ Charged(rows, i)}) \in Nat
    BY Zenon, IndicesFinite DEF OfEpisode
  <2> QED BY Zenon, <2>1 DEF DerivedCounts, Counts
<1>2. CASE OfEpisode(rows, h) = {}
  <2>1. Len(Recipes) \in Nat /\ NoCounts \in Counts
    BY Zenon, PolicyAssumption, SeqIndices DEF NoCounts, Counts
  <2> QED BY SMTT(60), <1>1, <1>2, <2>1 DEF Episode, Episodes
<1>3. CASE OfEpisode(rows, h) # {}
  <2> DEFINE latest == rows[Max(OfEpisode(rows, h))]
  <2>1. OfEpisode(rows, h) \subseteq 1..Len(rows) /\ Len(rows) \in Nat
    BY Zenon, IndicesFinite DEF OfEpisode
  <2>2. Max(OfEpisode(rows, h)) \in OfEpisode(rows, h)
    BY Zenon, <1>3, <2>1, MaxIndex
  <2>3. \A i \in 1..Len(rows) : rows[i] \in Rows
    BY Zenon, <2>1, SeqIndices
  <2>4. latest \in Rows
    BY Zenon, <2>1, <2>2, <2>3
  <2>5. SkippedBy(rows, h) \subseteq Recipe
    <3>1. \A i \in OfEpisode(rows, h) : rows[i].id.action \in Recipe
      BY Zenon, <2>1, <2>3 DEF Rows, AttemptIds
    <3> QED BY Zenon, <3>1 DEF SkippedBy
  <2> HIDE DEF latest
  <2>6. latest.counts \in Counts /\ latest.cursor \in 0..Len(Recipes) /\ latest.skipped \subseteq Recipe
    BY Zenon, <2>4 DEF Rows
  <2>7. Episode(rows, h) =
          [counts |-> IF latest.counts = NoCounts THEN DerivedCounts(rows, h) ELSE latest.counts,
           cursor |-> latest.cursor, skipped |-> latest.skipped \cup SkippedBy(rows, h)]
    BY Zenon, <1>3 DEF Episode, latest
  <2>8. (IF latest.counts = NoCounts THEN DerivedCounts(rows, h) ELSE latest.counts) \in Counts
    BY Zenon, <1>1, <2>6
  <2>9. latest.skipped \cup SkippedBy(rows, h) \in SUBSET Recipe
    BY Zenon, <2>5, <2>6
  <2> QED BY SMTT(60), <1>1, <2>6, <2>7, <2>8, <2>9 DEF Episodes
<1> QED BY Zenon, <1>2, <1>3

\* The predecessors that startRecoveryAttempt records as skipped.
PassedOver(ep, i) == {Recipes[j] : j \in {k \in ep.cursor + 1..i - 1 : HasBudget(ep, k)}}

\* Advancing to a recipe after the cursor leaves the cursor just before it.
LEMMA AdvancedEpisode ==
  ASSUME NEW ep \in Episodes, NEW i \in 1..Len(Recipes), i > ep.cursor
  PROVE  /\ Advanced(ep, i) = [counts |-> ep.counts, cursor |-> i - 1,
                               skipped |-> ep.skipped \cup PassedOver(ep, i)]
         /\ Advanced(ep, i) \in Episodes
         /\ PassedOver(ep, i) \subseteq Recipe
<1>1. Len(Recipes) \in Nat /\ DOMAIN Recipes = 1..Len(Recipes)
  BY Zenon, PolicyAssumption, SeqIndices
<1>2. /\ ep = [counts |-> ep.counts, cursor |-> ep.cursor, skipped |-> ep.skipped]
      /\ ep.counts \in Counts /\ ep.cursor \in 0..Len(Recipes) /\ ep.skipped \subseteq Recipe
  BY Zenon DEF Episodes
<1>3. PassedOver(ep, i) \subseteq Recipe
  <2>1. \A k \in ep.cursor + 1..i - 1 : k \in DOMAIN Recipes
    BY SMTT(60), <1>1, <1>2
  <2> QED BY Zenon, <2>1 DEF PassedOver, Recipe
<1>4. Advanced(ep, i) = [counts |-> ep.counts, cursor |-> i - 1,
                         skipped |-> ep.skipped \cup PassedOver(ep, i)]
  <2>1. CASE i - 1 > ep.cursor
    BY Zenon, <1>2, <2>1 DEF Advanced, PassedOver
  <2>2. CASE ~(i - 1 > ep.cursor)
    <3>1. i - 1 = ep.cursor
      BY SMTT(60), <1>1, <1>2, <2>2
    <3>2. ep.cursor + 1..i - 1 = {}
      BY SMTT(60), <1>1, <1>2, <3>1
    <3>3. PassedOver(ep, i) = {}
      BY Zenon, <3>2 DEF PassedOver
    <3> QED BY Zenon, <1>2, <2>2, <3>1, <3>3 DEF Advanced
  <2> QED BY Zenon, <2>1, <2>2
<1>5. i - 1 \in 0..Len(Recipes)
  BY SMTT(60), <1>1
<1> QED BY SMTT(60), <1>2, <1>3, <1>4, <1>5 DEF Episodes

\* The episode states that Skip and Claim record.
SkippedEpisode(i) == [Advanced(Current, i) EXCEPT !.cursor = i, !.skipped = @ \cup {Recipes[i]}]
ClaimedEpisode(i) == Charge(Advanced(Current, i), Recipes[i])

\* A selected recipe lies after the cursor and has budget left; what is
\* recorded of it is a row.
LEMMA SelectedRecipe ==
  ASSUME TypeOK, MayClaim, NEW i \in Selected
  PROVE  /\ i \in 1..Len(Recipes) /\ Recipes[i] \in Recipe /\ i > Current.cursor
         /\ HasBudget(Current, i) /\ AttemptId(i) \in AttemptIds \ Ids(ledger.rows)
         /\ Current \in Episodes
         /\ SkippedEpisode(i) =
              [counts |-> Current.counts, cursor |-> i,
               skipped |-> (Current.skipped \cup PassedOver(Current, i)) \cup {Recipes[i]}]
         /\ ClaimedEpisode(i) =
              [counts |-> [Current.counts EXCEPT ![Recipes[i]] = @ + 1], cursor |-> i - 1,
               skipped |-> Current.skipped \cup PassedOver(Current, i)]
         /\ SkippedEpisode(i) \in Episodes /\ ClaimedEpisode(i) \in Episodes
<1>1. Len(Recipes) \in Nat /\ DOMAIN Recipes = 1..Len(Recipes)
  BY Zenon, PolicyAssumption, SeqIndices
<1>2. ledger \in Ledgers /\ ledger.rows \in Seq(Rows) /\ head \in Heads
  BY Zenon DEF TypeOK, Ledgers
<1>3. Current \in Episodes
  BY Zenon, <1>2, EpisodeType DEF Current
<1>4. Current.cursor \in 0..Len(Recipes) /\ Current.counts \in Counts /\ Current.skipped \subseteq Recipe
  BY Zenon, <1>3 DEF Episodes
<1>5. i \in Remaining(Current) /\ AttemptId(i) \notin Ids(ledger.rows)
  BY Zenon DEF Selected
<1>6. i \in 1..Len(Recipes) /\ i > Current.cursor /\ HasBudget(Current, i)
  <2> DEFINE ep == Current
  <2> HIDE DEF ep
  <2>1. ep.cursor \in 0..Len(Recipes) /\ i \in Remaining(ep)
    BY Zenon, <1>4, <1>5 DEF ep
  <2>2. i \in 1..Len(Recipes) /\ i > ep.cursor /\ HasBudget(ep, i)
    BY SMTT(60), <1>1, <2>1 DEF Remaining
  <2> QED BY Zenon, <2>2 DEF ep
<1>7. Recipes[i] \in Recipe
  BY Zenon, <1>1, <1>6, PositionOf
<1>8. AttemptId(i) \in AttemptIds
  <2>1. ledger.fp \in Prints
    BY Zenon, <1>2 DEF MayClaim, Ready, Preflight, TypeOK, Ledgers
  <2>2. Ordinal \in Nat
    BY Zenon, <1>2, IndicesFinite DEF Ordinal, Matching
  <2> QED BY Zenon, <1>2, <1>7, <2>1, <2>2 DEF AttemptId, AttemptIds
<1>9. /\ Advanced(Current, i) = [counts |-> Current.counts, cursor |-> i - 1,
                                 skipped |-> Current.skipped \cup PassedOver(Current, i)]
      /\ Advanced(Current, i) \in Episodes
      /\ PassedOver(Current, i) \subseteq Recipe
  BY Zenon, <1>3, <1>6, AdvancedEpisode
<1>10. SkippedEpisode(i) =
         [counts |-> Current.counts, cursor |-> i,
          skipped |-> (Current.skipped \cup PassedOver(Current, i)) \cup {Recipes[i]}]
  <2> DEFINE s == Current.skipped \cup PassedOver(Current, i)
             s2 == s \cup {Recipes[i]}
             a == Advanced(Current, i)
  <2>1. a = [counts |-> Current.counts, cursor |-> i - 1, skipped |-> s]
    BY Zenon, <1>9
  <2>2. SkippedEpisode(i) = [a EXCEPT !.cursor = i, !.skipped = s2]
    <3> HIDE DEF s
    <3>1. a.skipped = s
      BY SMTT(60), <2>1
    <3> QED BY Zenon, <3>1 DEF SkippedEpisode
  <2> HIDE DEF s, s2, a
  <2>3. SkippedEpisode(i) = [counts |-> Current.counts, cursor |-> i, skipped |-> s2]
    BY Zenon, <2>1, <2>2
  <2> QED BY Zenon, <2>3 DEF s, s2
<1>11. ClaimedEpisode(i) =
         [counts |-> [Current.counts EXCEPT ![Recipes[i]] = @ + 1], cursor |-> i - 1,
          skipped |-> Current.skipped \cup PassedOver(Current, i)]
  BY SMTT(60), <1>9 DEF ClaimedEpisode, Charge
<1>12. SkippedEpisode(i) \in Episodes
  BY SMTT(60), <1>4, <1>6, <1>7, <1>9, <1>10 DEF Episodes
<1>13. [Current.counts EXCEPT ![Recipes[i]] = @ + 1] \in Counts
  BY SMTT(60), <1>4, <1>7 DEF Counts
<1>14. i - 1 \in 0..Len(Recipes)
  BY SMTT(60), <1>1, <1>6
<1>15. ClaimedEpisode(i) \in Episodes
  BY SMTT(60), <1>4, <1>9, <1>11, <1>13, <1>14 DEF Episodes
<1> QED BY Zenon, <1>3, <1>5, <1>6, <1>7, <1>8, <1>10, <1>11, <1>12, <1>15

-----------------------------------------------------------------------------
(* What a step does to the ledger *)

Carrying == {"backoff", "claimed", "executed"}
Closings == {"superseded", "recovered", "failed"}

\* A document a step may publish: a ledger whose blocked item has a
\* fingerprint, and whose latest block precedes the rows of its generation.
DocOK(doc) ==
  /\ doc \in Ledgers
  /\ doc.state = "blocked" => doc.fp # None
  /\ doc.gen <= Len(doc.rows)

\* What it does to the rows: nothing, closing started ones, or adding the
\* selected recipe's.
RowsChange(doc) ==
  \/ doc.rows = ledger.rows
  \/ \E S \in SUBSET Started(ledger.rows), o \in Closings :
        doc.rows = SetOutcome(ledger.rows, S, o)
  \/ /\ MayClaim
     /\ \E i \in Selected :
          doc \in {Recorded(AttemptId(i), "skipped", SkippedEpisode(i)),
                   Recorded(AttemptId(i), "started", ClaimedEpisode(i))}

\* The types, with a claim in hand while one is carried out, of a ledger that
\* readLedger accepts.
TypeInv ==
  /\ TypeOK
  /\ pc \in Carrying => cur \in AttemptIds
  /\ ledger.gen <= Len(ledger.rows)
  /\ Authoritative(ledger)

\* An attempt's row is found by its id.
LEMMA RowOfId ==
  ASSUME NEW rows, NEW id \in Ids(rows)
  PROVE  RowOf(rows, id) \in DOMAIN rows /\ rows[RowOf(rows, id)].id = id
BY Zenon DEF RowOf, Ids

\* Closing rows yields a document again, which differs only in its rows.
LEMMA ClosedDoc ==
  ASSUME TypeInv, NEW S \in SUBSET Started(ledger.rows), NEW o \in Closings, NEW doc,
         doc = [ledger EXCEPT !.rows = SetOutcome(ledger.rows, S, o)]
  PROVE  /\ DocOK(doc) /\ RowsChange(doc)
         /\ doc.rows = SetOutcome(ledger.rows, S, o) /\ Len(doc.rows) = Len(ledger.rows)
<1>1. ledger \in Ledgers /\ ledger.rows \in Seq(Rows)
  BY Zenon DEF TypeInv, TypeOK, Ledgers
<1> DEFINE new == SetOutcome(ledger.rows, S, o)
<1>2. new \in Seq(Rows) /\ Len(new) = Len(ledger.rows)
  BY SMTT(60), <1>1, SetOutcomeRows DEF Closings, Outcomes
<1> HIDE DEF new
<1>3. doc = [ledger EXCEPT !.rows = new]
  BY Zenon DEF new
<1>4. /\ doc \in Ledgers /\ doc.rows = new /\ doc.gen = ledger.gen
      /\ doc.state = ledger.state /\ doc.fp = ledger.fp
  BY Zenon, <1>1, <1>2, <1>3 DEF Ledgers
<1>5. DocOK(doc)
  BY Zenon, <1>2, <1>4 DEF DocOK, TypeInv, TypeOK
<1> QED BY Zenon, <1>2, <1>4, <1>5 DEF RowsChange, new

\* A write leaves the ledger as it was or publishes the document, and what is
\* read back is authoritative either way.
LEMMA Written ==
  ASSUME TypeInv, NEW doc, DocOK(doc), RowsChange(doc), WriteLedger(doc)
  PROVE  DocOK(ledger') /\ RowsChange(ledger') /\ Authoritative(ledger')
<1>1. CASE ledger' = doc /\ Authoritative(doc)
  BY Zenon, <1>1
<1>2. CASE ledger' = ledger
  BY Zenon, <1>2 DEF TypeInv, TypeOK, DocOK, RowsChange
<1> QED BY Zenon, <1>1, <1>2 DEF WriteLedger

\* Completing a started claim of the blocked item closes its row.
LEMMA CompletedDoc ==
  ASSUME TypeInv, NEW id, Completable(id), NEW ok \in BOOLEAN
  PROVE  /\ DocOK(Completed(ledger, id, ok)) /\ RowsChange(Completed(ledger, id, ok))
         /\ RowOf(ledger.rows, id) \in Started(ledger.rows)
         /\ Completed(ledger, id, ok).rows =
              SetOutcome(ledger.rows, {RowOf(ledger.rows, id)}, IF ok THEN "recovered" ELSE "failed")
         /\ Completed(ledger, id, ok).state = (IF ok THEN "in_progress" ELSE "blocked")
         /\ Completed(ledger, id, ok).gen = ledger.gen
         /\ Completed(ledger, id, ok).fp = ledger.fp
         /\ Completed(ledger, id, ok).blockerHead = ledger.blockerHead
<1> DEFINE S == {RowOf(ledger.rows, id)}
           o == IF ok THEN "recovered" ELSE "failed"
           doc == [ledger EXCEPT !.rows = SetOutcome(ledger.rows, S, o)]
           st == IF ok THEN "in_progress" ELSE ledger.state
<1>1. S \in SUBSET Started(ledger.rows) /\ o \in Closings
  BY RowOfId DEF Completable, Started, Closings
<1>2. /\ DocOK(doc) /\ RowsChange(doc) /\ doc.rows = SetOutcome(ledger.rows, S, o)
  BY Zenon, <1>1, ClosedDoc
<1>3. ledger \in Ledgers /\ ledger.state = "blocked"
  BY Zenon DEF TypeInv, TypeOK, Completable
<1>4. Completed(ledger, id, ok) = [doc EXCEPT !.state = st]
  BY Zenon, <1>3 DEF Completed, Ledgers
<1>5. /\ doc.state = ledger.state /\ doc.gen = ledger.gen /\ doc.fp = ledger.fp
      /\ doc.blockerHead = ledger.blockerHead
  BY Zenon, <1>3 DEF Ledgers
<1> HIDE DEF doc
<1>6. st \in {"in_progress", "blocked"}
  BY Zenon, <1>3
<1>7. [doc EXCEPT !.state = st] \in Ledgers
  BY Zenon, <1>2, <1>6 DEF DocOK, Ledgers
<1>8. /\ [doc EXCEPT !.state = st].rows = doc.rows /\ [doc EXCEPT !.state = st].gen = doc.gen
      /\ [doc EXCEPT !.state = st].fp = doc.fp /\ [doc EXCEPT !.state = st].state = st
      /\ [doc EXCEPT !.state = st].blockerHead = doc.blockerHead
  BY Zenon, <1>2 DEF DocOK, Ledgers
<1>9. DocOK(Completed(ledger, id, ok))
  BY Zenon, <1>2, <1>3, <1>4, <1>5, <1>7, <1>8 DEF DocOK
<1>10. RowsChange(Completed(ledger, id, ok))
  BY Zenon, <1>1, <1>2, <1>4, <1>8 DEF RowsChange
<1> QED BY Zenon, <1>1, <1>2, <1>3, <1>4, <1>5, <1>8, <1>9, <1>10

\* A step publishes documents only, changes their rows in those ways only, and
\* leaves a ledger that readLedger accepts.
LEMMA LedgerStep ==
  ASSUME TypeInv, Next
  PROVE  DocOK(ledger') /\ RowsChange(ledger') /\ Authoritative(ledger')
<1>1. ledger \in Ledgers /\ ledger.rows \in Seq(Rows) /\ Len(ledger.rows) \in Nat
  BY Zenon, SeqIndices DEF TypeInv, TypeOK, Ledgers
<1>2. DocOK(ledger) /\ RowsChange(ledger)
  BY Zenon DEF TypeInv, TypeOK, DocOK, RowsChange
<1>3. CASE UNCHANGED ledger
  BY Zenon, <1>2, <1>3 DEF TypeInv
<1>4. CASE Block
  <2>1. PICK p \in Prints, h \in {head, None} :
          WriteLedger([ledger EXCEPT
             !.state = "blocked", !.fp = p, !.blockerHead = h, !.gen = Len(ledger.rows),
             !.repeated = IF p # ledger.fp THEN 0
                          ELSE IF @ < RepeatLimit THEN @ + 1 ELSE RepeatLimit])
    BY Zenon, <1>4 DEF Block
  <2> DEFINE r == IF p # ledger.fp THEN 0
                  ELSE IF ledger.repeated < RepeatLimit THEN ledger.repeated + 1 ELSE RepeatLimit
             doc == [ledger EXCEPT !.state = "blocked", !.fp = p, !.blockerHead = h,
                                   !.gen = Len(ledger.rows), !.repeated = r]
  <2>2. WriteLedger(doc)
    BY Zenon, <2>1
  <2>3. r \in 0..RepeatLimit
    BY SMTT(60), <1>1, PolicyAssumption DEF Ledgers
  <2>4. h \in Heads \cup {None}
    BY Zenon DEF TypeInv, TypeOK
  <2>5. p # None
    BY Zenon, PolicyAssumption
  <2> HIDE DEF r
  <2>6. doc \in Ledgers /\ doc.rows = ledger.rows /\ doc.gen = Len(ledger.rows) /\ doc.fp = p
    BY Zenon, <1>1, <2>3, <2>4 DEF Ledgers
  <2> HIDE DEF doc
  <2>7. DocOK(doc) /\ RowsChange(doc)
    BY SMTT(60), <1>1, <2>5, <2>6 DEF DocOK, RowsChange
  <2> QED BY Zenon, <2>2, <2>7, Written
<1>5. CASE ProvenForward \/ AbandonClosed \/ Reconstruct
  <2>1. PICK s \in {"ready", "abandoned", "in_progress"} : WriteLedger([ledger EXCEPT !.state = s])
    BY Zenon, <1>5 DEF ProvenForward, AbandonClosed, Reconstruct
  <2> DEFINE doc == [ledger EXCEPT !.state = s]
  <2>2. doc \in Ledgers /\ doc.rows = ledger.rows /\ doc.gen = ledger.gen /\ doc.state # "blocked"
    BY Zenon, <1>1 DEF Ledgers
  <2> HIDE DEF doc
  <2>3. DocOK(doc) /\ RowsChange(doc)
    BY Zenon, <2>2 DEF TypeInv, DocOK, RowsChange
  <2> QED BY Zenon, <2>1, <2>3, Written DEF doc
<1>6. CASE Cool \/ CoolingElapses
  <2>1. PICK c \in Heads \cup {None} : WriteLedger([ledger EXCEPT !.cooling = c])
    BY Zenon, <1>6 DEF Cool, CoolingElapses, TypeInv, TypeOK
  <2> DEFINE doc == [ledger EXCEPT !.cooling = c]
  <2>2. /\ doc \in Ledgers /\ doc.rows = ledger.rows /\ doc.gen = ledger.gen
        /\ doc.state = ledger.state /\ doc.fp = ledger.fp
    BY Zenon, <1>1 DEF Ledgers
  <2> HIDE DEF doc
  <2>3. DocOK(doc) /\ RowsChange(doc)
    BY Zenon, <2>2 DEF TypeInv, TypeOK, DocOK, RowsChange
  <2> QED BY Zenon, <2>1, <2>3, Written DEF doc
<1>7. CASE SupersedeDone \/ SupersedeStale
  <2>1. PICK S \in SUBSET Started(ledger.rows) : WriteLedger(Supersede(ledger, S))
    BY Zenon, <1>7 DEF SupersedeDone, SupersedeStale, Stale
  <2>2. Supersede(ledger, S) = [ledger EXCEPT !.rows = SetOutcome(ledger.rows, S, "superseded")]
    BY Zenon DEF Supersede
  <2>3. DocOK(Supersede(ledger, S)) /\ RowsChange(Supersede(ledger, S))
    BY Zenon, <2>2, ClosedDoc DEF Closings
  <2> QED BY Zenon, <2>1, <2>3, Written
<1>8. CASE Readmit
  <2> DEFINE S == GenerationStarted
             doc == Supersede(ledger, S)
             new == [doc EXCEPT !.state = "in_progress", !.fp = None, !.repeated = 0,
                                !.blockerHead = None, !.cooling = None]
  <2>1. WriteLedger(new)
    BY Zenon, <1>8 DEF Readmit, Readmitted
  <2>2. S \in SUBSET Started(ledger.rows)
    BY Zenon DEF GenerationStarted
  <2>3. doc = [ledger EXCEPT !.rows = SetOutcome(ledger.rows, S, "superseded")]
    BY Zenon DEF Supersede
  <2> HIDE DEF S, doc
  <2>4. DocOK(doc) /\ doc.rows = SetOutcome(ledger.rows, S, "superseded")
    BY Zenon, <2>2, <2>3, ClosedDoc DEF Closings
  <2>5. /\ new \in Ledgers /\ new.rows = doc.rows /\ new.gen = doc.gen
        /\ new.state = "in_progress"
    <3>1. doc \in Ledgers /\ 0 \in 0..RepeatLimit
      BY SMTT(60), <2>4, PolicyAssumption DEF DocOK
    <3> QED BY Zenon, <3>1 DEF Ledgers
  <2> HIDE DEF new
  <2>6. DocOK(new)
    BY Zenon, <2>4, <2>5 DEF DocOK
  <2>7. RowsChange(new)
    BY Zenon, <2>2, <2>4, <2>5 DEF RowsChange, Closings
  <2> QED BY Zenon, <2>1, <2>6, <2>7, Written
<1>9. CASE Skip \/ Claim
  <2>1. MayClaim
    BY Zenon, <1>9 DEF Skip, Claim
  <2>2. PICK i \in Selected :
          \/ WriteLedger(Recorded(AttemptId(i), "skipped", SkippedEpisode(i)))
          \/ WriteLedger(Recorded(AttemptId(i), "started", ClaimedEpisode(i)))
    BY Zenon, <1>9 DEF Skip, Claim, SkippedEpisode, ClaimedEpisode
  <2>3. /\ AttemptId(i) \in AttemptIds /\ SkippedEpisode(i) \in Episodes
        /\ ClaimedEpisode(i) \in Episodes
    BY Zenon, <2>1, SelectedRecipe DEF TypeInv
  <2>4. ASSUME NEW o \in {"skipped", "started"}, NEW ep \in Episodes
        PROVE  DocOK(Recorded(AttemptId(i), o, ep))
    <3> DEFINE doc == Recorded(AttemptId(i), o, ep)
    <3>1. /\ doc \in Ledgers /\ Len(doc.rows) = Len(ledger.rows) + 1
          /\ doc.state = ledger.state /\ doc.fp = ledger.fp /\ doc.gen = ledger.gen
      <4>1. o \in Outcomes
        BY Zenon DEF Outcomes
      <4>2. Grown(ledger.rows, doc.rows, NewRow(AttemptId(i), o, ep))
        BY Zenon, <1>1, <2>3, <4>1, RecordedRows
      <4>3. Len(doc.rows) = Len(ledger.rows) + 1
        BY Zenon, <4>2 DEF Grown
      <4> QED BY Zenon, <1>1, <2>3, <4>1, <4>3, RecordedRows
    <3> HIDE DEF doc
    <3>2. ledger.gen \in Nat
      BY Zenon, <1>1 DEF Ledgers
    <3>3. doc.gen <= Len(doc.rows)
      BY SMTT(60), <1>1, <3>1, <3>2 DEF TypeInv
    <3>4. DocOK(doc)
      BY Zenon, <3>1, <3>3 DEF TypeInv, TypeOK, DocOK
    <3> QED BY Zenon, <3>4 DEF doc
  <2>5. /\ RowsChange(Recorded(AttemptId(i), "skipped", SkippedEpisode(i)))
        /\ RowsChange(Recorded(AttemptId(i), "started", ClaimedEpisode(i)))
    BY Zenon, <2>1 DEF RowsChange
  <2> QED BY Zenon, <2>2, <2>3, <2>4, <2>5, Written
<1>10. CASE Complete
  <2>1. CASE Completable(cur) /\ WriteLedger(Completed(ledger, cur, Succeeded))
    <3>1. Succeeded \in BOOLEAN
      BY Zenon DEF Succeeded, TypeInv, TypeOK
    <3> QED BY Zenon, <2>1, <3>1, CompletedDoc, Written
  <2>2. CASE WriteLedger(ledger)
    BY Zenon, <1>2, <2>2, Written
  <2> QED BY Zenon, <1>10, <2>1, <2>2 DEF Complete
<1>11. CASE Takeover
  <2>1. CASE WriteLedger(ledger)
    BY Zenon, <1>2, <2>1, Written
  <2>2. CASE \E id : Completable(id) /\ WriteLedger(Completed(ledger, id, TRUE))
    BY Zenon, <2>2, CompletedDoc, Written
  <2> QED BY Zenon, <1>11, <2>1, <2>2 DEF Takeover
<1>12. CASE \/ Replay \/ ReplayUnobserved \/ Defer("backoff") \/ Defer("claimed") \/ Execute \/ PostObservationFails
            \/ CompletionRefused \/ Crash \/ MoveHead \/ ChangeLabel \/ CloseIssue
  BY Zenon, <1>3, <1>12 DEF Replay, ReplayUnobserved, Defer, Execute, PostObservationFails, CompletionRefused, Crash,
     MoveHead, ChangeLabel, CloseIssue, Outside
<1> QED BY Zenon, <1>4, <1>5, <1>6, <1>7, <1>8, <1>9, <1>10, <1>11, <1>12 DEF Next

-----------------------------------------------------------------------------
(* Types *)

\* The rows a replay looks at: the started ones of the item's episode or, when
\* the head is not observed, of its fingerprint.
PrintStarted == {i \in Started(ledger.rows) : ledger.rows[i].id.fp = ledger.fp}

\* The latest of some started rows is one of them.
LEMMA LatestStarted ==
  ASSUME TypeInv, NEW S \in SUBSET Started(ledger.rows), S # {}, NEW m, m = Max(S)
  PROVE  /\ m \in S /\ m \in DOMAIN ledger.rows
         /\ ledger.rows[m] \in Rows /\ ledger.rows[m].id \in AttemptIds
<1>1. ledger.rows \in Seq(Rows)
  BY Zenon DEF TypeInv, TypeOK, Ledgers
<1>2. Len(ledger.rows) \in Nat /\ DOMAIN ledger.rows = 1..Len(ledger.rows)
  BY Zenon, <1>1, SeqIndices
<1>3. S \in SUBSET (1..Len(ledger.rows))
  BY Zenon, <1>2 DEF Started
<1>4. m \in S
  BY Zenon, <1>2, <1>3, MaxIndex
<1>5. m \in DOMAIN ledger.rows
  BY Zenon, <1>4 DEF Started
<1>6. ledger.rows[m] \in Rows
  BY Zenon, <1>1, <1>2, <1>5, SeqIndices
<1> QED BY Zenon, <1>4, <1>5, <1>6 DEF Rows

\* The claim that is replayed is a started one of the item's.
LEMMA ReplayedRow ==
  ASSUME TypeInv, Replay \/ ReplayUnobserved
  PROVE  \E m \in Started(ledger.rows) :
           /\ m \in Matching /\ cur' = ledger.rows[m].id /\ cur' \in AttemptIds
<1>1. PICK S \in SUBSET Started(ledger.rows) :
        S \subseteq Matching /\ S # {} /\ cur' = ledger.rows[Max(S)].id
  <2>1. CASE Replay
    BY Zenon, <2>1 DEF Replay
  <2>2. CASE ReplayUnobserved
    <3>1. PrintStarted \subseteq Matching /\ PrintStarted \subseteq Started(ledger.rows)
      BY Zenon DEF PrintStarted, Matching, Started
    <3>2. PrintStarted # {} /\ cur' = ledger.rows[Max(PrintStarted)].id
      BY Zenon, <2>2 DEF ReplayUnobserved, PrintStarted
    <3> QED BY Zenon, <3>1, <3>2
  <2> QED BY Zenon, <2>1, <2>2
<1> DEFINE m == Max(S)
<1>2. m \in S /\ ledger.rows[m].id \in AttemptIds
  BY Zenon, <1>1, LatestStarted
<1> HIDE DEF m
<1>3. cur' = ledger.rows[m].id
  BY Zenon, <1>1 DEF m
<1> QED BY Zenon, <1>1, <1>2, <1>3

\* The initial ledger has no rows.
LEMMA InitTypes ==
  Init => TypeInv
<1> SUFFICES ASSUME Init PROVE TypeInv
  OBVIOUS
<1>1. 1 \in Heads /\ 0 \in 0..RepeatLimit /\ 0 \in 0..MaxRevisits /\ 0 \in 0..MaxCrashes
  BY SMTT(60), PolicyAssumption DEF Heads
<1>2. <<>> \in Seq(Rows) /\ Len(<<>>) = 0 /\ DOMAIN <<>> = {}
  OBVIOUS
<1>3. ledger \in Ledgers /\ ledger.state = "in_progress" /\ ledger.rows = <<>> /\ ledger.gen = 0
  BY Zenon, <1>1, <1>2 DEF Init, Ledgers
<1>4. TypeOK
  BY Zenon, <1>1, <1>3 DEF Init, TypeOK
<1>5. ledger.gen <= Len(ledger.rows)
  BY SMTT(60), <1>2, <1>3
<1>6. Authoritative(ledger)
  BY Zenon, <1>2, <1>3 DEF Authoritative
<1> QED BY Zenon, <1>4, <1>5, <1>6 DEF TypeInv, Init, Carrying

\* Every step keeps the types of the variables other than the ledger, and a
\* supervisor that carries out a claim has one.
LEMMA LocalTypes ==
  ASSUME TypeInv, Next
  PROVE  /\ head' \in Heads /\ label' \in {"blocked", "advance", "ready"} /\ closed' \in BOOLEAN
         /\ revisits' \in 0..MaxRevisits
         /\ pc' \in {"idle", "closing", "backoff", "claimed", "executed", "resume"}
         /\ cur' \in AttemptIds \cup {None} /\ result' \in BOOLEAN
         /\ crashes' \in 0..MaxCrashes
         /\ effects' \subseteq AttemptIds /\ strayed' \subseteq effects'
         /\ pc' \in Carrying => cur' \in AttemptIds
<1>1. /\ head \in Heads /\ label \in {"blocked", "advance", "ready"} /\ closed \in BOOLEAN
      /\ revisits \in 0..MaxRevisits
      /\ pc \in {"idle", "closing", "backoff", "claimed", "executed", "resume"}
      /\ cur \in AttemptIds \cup {None} /\ result \in BOOLEAN
      /\ crashes \in 0..MaxCrashes
      /\ effects \subseteq AttemptIds /\ strayed \subseteq effects
      /\ pc \in Carrying => cur \in AttemptIds
  BY Zenon DEF TypeInv, TypeOK
<1>2. CASE Block
  BY Zenon, <1>1, <1>2 DEF Block, Idle, local
<1>3. CASE ProvenForward \/ AbandonClosed \/ SupersedeDone \/ Takeover
  BY <1>1, <1>3 DEF ProvenForward, AbandonClosed, SupersedeDone, Takeover, Idle, Goto, env, Carrying
<1>4. CASE Reconstruct \/ Readmit \/ SupersedeStale \/ Skip \/ Cool \/ CoolingElapses
  BY Zenon, <1>1, <1>4 DEF Reconstruct, Readmit, SupersedeStale, Skip, Cool, CoolingElapses,
     MayClaim, Ready, Preflight, Idle, env, local
<1>5. CASE Replay \/ ReplayUnobserved
  <2>1. cur' \in AttemptIds
    BY Zenon, <1>5, ReplayedRow
  <2> QED BY Zenon, <1>1, <1>5, <2>1 DEF Replay, ReplayUnobserved, Ready, Preflight, Idle, env
<1>6. CASE Claim
  <2>1. cur' \in AttemptIds
    BY Zenon, <1>6, SelectedRecipe DEF Claim, TypeInv
  <2> QED BY Zenon, <1>1, <1>6, <2>1 DEF Claim, MayClaim, Ready, Preflight, Idle, env
<1>7. CASE Defer("backoff") \/ Defer("claimed") \/ PostObservationFails \/ Complete \/ CompletionRefused
  BY Zenon, <1>1, <1>7 DEF Defer, PostObservationFails, Complete, CompletionRefused, env, Carrying
<1>8. CASE Execute
  BY Zenon, <1>1, <1>8 DEF Execute, Carrying
<1>9. CASE Crash
  <2>1. crashes' \in 0..MaxCrashes
    BY SMTT(60), <1>1, <1>9, PolicyAssumption DEF Crash
  <2> QED BY Zenon, <1>1, <1>9, <2>1 DEF Crash, env, Carrying
<1>10. CASE MoveHead
  <2>1. head' \in Heads
    BY SMTT(60), <1>1, <1>10, PolicyAssumption DEF MoveHead, Heads
  <2>2. revisits' \in 0..MaxRevisits
    BY SMTT(60), <1>1, <1>10, PolicyAssumption DEF MoveHead, Revisit
  <2> QED BY Zenon, <1>1, <1>10, <2>1, <2>2 DEF MoveHead, Outside, local
<1>11. CASE ChangeLabel
  <2>1. revisits' \in 0..MaxRevisits
    BY SMTT(60), <1>1, <1>11, PolicyAssumption DEF ChangeLabel, Revisit
  <2> QED BY Zenon, <1>1, <1>11, <2>1 DEF ChangeLabel, Outside, local
<1>12. CASE CloseIssue
  BY Zenon, <1>1, <1>12 DEF CloseIssue, Outside, local
<1> QED BY Zenon, <1>2, <1>3, <1>4, <1>5, <1>6, <1>7, <1>8, <1>9, <1>10, <1>11, <1>12 DEF Next

\* Every step keeps the types and leaves an authoritative ledger.
LEMMA StepTypes ==
  TypeInv /\ [Next]_vars => TypeInv'
<1> SUFFICES ASSUME TypeInv, [Next]_vars PROVE TypeInv'
  OBVIOUS
<1>1. CASE Next
  <2>1. DocOK(ledger') /\ Authoritative(ledger')
    BY Zenon, <1>1, LedgerStep
  <2>2. /\ ledger' \in Ledgers
        /\ ledger'.state = "blocked" => ledger'.fp # None
        /\ ledger'.gen <= Len(ledger'.rows)
    BY Zenon, <2>1 DEF DocOK
  <2>3. TypeOK'
    BY Zenon, <1>1, <2>2, LocalTypes DEF TypeOK
  <2>4. (pc \in Carrying => cur \in AttemptIds)'
    BY Zenon, <1>1, LocalTypes
  <2>5. Authoritative(ledger)'
    BY Zenon, <2>1
  <2> QED BY Zenon, <2>2, <2>3, <2>4, <2>5 DEF TypeInv
<1>2. CASE UNCHANGED vars
  BY Zenon, <1>2 DEF vars, env, local, TypeInv, TypeOK
<1> QED BY Zenon, <1>1, <1>2

\* The invariant of types, at every step.
THEOREM TypeInvariance == Spec => []TypeInv
BY InitTypes, StepTypes, PTL DEF Spec

\* The ledger and the supervisor's variables keep their types for every
\* policy, and a blocked item always has a fingerprint (TypeOK).
THEOREM TypeCorrect == Spec => []TypeOK
<1>1. TypeInv => TypeOK
  BY Zenon DEF TypeInv
<1> QED BY <1>1, TypeInvariance, PTL

-----------------------------------------------------------------------------
(* The history of attempts *)

\* Every row of old is in new, with its episode's fields; a closed row is as it
\* was, and a claim and a skip stay what they are.
Follows(old, new) ==
  \A i \in DOMAIN old :
    /\ i \in DOMAIN new /\ new[i].id = old[i].id
    /\ new[i].cursor = old[i].cursor /\ new[i].skipped = old[i].skipped
    /\ old[i].outcome # "started" => new[i] = old[i]
    /\ new[i].outcome = "skipped" <=> old[i].outcome = "skipped"

\* The ways in which a step changes the rows keep the history.
LEMMA ChangeFollows ==
  ASSUME TypeInv, NEW doc, RowsChange(doc)
  PROVE  Follows(ledger.rows, doc.rows)
<1>1. ledger \in Ledgers /\ ledger.rows \in Seq(Rows)
  BY Zenon DEF TypeInv, TypeOK, Ledgers
<1>2. CASE doc.rows = ledger.rows
  BY Zenon, <1>2 DEF Follows
<1>3. CASE \E S \in SUBSET Started(ledger.rows), o \in Closings :
             doc.rows = SetOutcome(ledger.rows, S, o)
  <2>1. PICK S \in SUBSET Started(ledger.rows), o \in Closings :
          doc.rows = SetOutcome(ledger.rows, S, o)
    BY Zenon, <1>3
  <2> DEFINE old == ledger.rows
             new == doc.rows
  <2>2. o \in Outcomes /\ o # "skipped"
    BY Zenon DEF Closings, Outcomes
  <2>3. /\ DOMAIN new = DOMAIN old
        /\ \A i \in DOMAIN old :
             /\ new[i].id = old[i].id
             /\ new[i].cursor = old[i].cursor /\ new[i].skipped = old[i].skipped
             /\ new[i].outcome = (IF i \in S THEN o ELSE old[i].outcome)
             /\ i \notin S => new[i] = old[i]
    BY SMTT(60), <1>1, <2>1, <2>2, SetOutcomeRows
  <2>4. \A i \in S : old[i].outcome = "started"
    BY Zenon DEF Started
  <2> HIDE DEF old, new
  <2>5. Follows(old, new)
    BY Zenon, <2>2, <2>3, <2>4 DEF Follows
  <2> QED BY Zenon, <2>5 DEF old, new
<1>4. CASE /\ MayClaim
           /\ \E i \in Selected :
                doc \in {Recorded(AttemptId(i), "skipped", SkippedEpisode(i)),
                         Recorded(AttemptId(i), "started", ClaimedEpisode(i))}
  <2>a. PICK i \in Selected :
          doc \in {Recorded(AttemptId(i), "skipped", SkippedEpisode(i)),
                   Recorded(AttemptId(i), "started", ClaimedEpisode(i))}
    BY Zenon, <1>4
  <2>1. PICK o \in {"skipped", "started"}, ep \in {SkippedEpisode(i), ClaimedEpisode(i)} :
          doc = Recorded(AttemptId(i), o, ep)
    BY Zenon, <2>a
  <2>2. AttemptId(i) \in AttemptIds /\ ep \in Episodes /\ o \in Outcomes
    BY Zenon, <1>4, <2>1, SelectedRecipe DEF TypeInv, Outcomes
  <2>3. Grown(ledger.rows, doc.rows, NewRow(AttemptId(i), o, ep))
    BY Zenon, <1>1, <2>1, <2>2, RecordedRows
  <2> DEFINE old == ledger.rows
             new == doc.rows
             n == Len(ledger.rows)
  <2>4. /\ n \in Nat /\ DOMAIN old = 1..n /\ DOMAIN new = 1..n + 1
        /\ \A j \in DOMAIN old : new[j] = old[j]
    BY Zenon, <2>3 DEF Grown
  <2> HIDE DEF n
  <2>5. \A j \in 1..n : j \in 1..n + 1
    BY SMTT(60), <2>4
  <2> HIDE DEF old, new
  <2>6. Follows(old, new)
    BY Zenon, <2>4, <2>5 DEF Follows
  <2> QED BY Zenon, <2>6 DEF old, new
<1> QED BY Zenon, <1>2, <1>3, <1>4 DEF RowsChange

\* Attempts are never lost, reopened or rewritten, for every policy and number
\* of crashes (HistoryGrows: recovery.ts and the supersede writes).
THEOREM HistoryGrowsHolds == Spec => HistoryGrows
<1>1. TypeInv /\ [Next]_vars =>
        [\A i \in DOMAIN ledger.rows :
           /\ i \in DOMAIN ledger'.rows /\ ledger'.rows[i].id = ledger.rows[i].id
           /\ ledger.rows[i].outcome # "started" => ledger'.rows[i] = ledger.rows[i]]_vars
  <2> SUFFICES ASSUME TypeInv, Next
               PROVE  \A i \in DOMAIN ledger.rows :
                        /\ i \in DOMAIN ledger'.rows /\ ledger'.rows[i].id = ledger.rows[i].id
                        /\ ledger.rows[i].outcome # "started" => ledger'.rows[i] = ledger.rows[i]
    OBVIOUS
  <2>1. Follows(ledger.rows, ledger'.rows)
    BY Zenon, LedgerStep, ChangeFollows
  <2> QED BY Zenon, <2>1 DEF Follows
<1> QED BY <1>1, TypeInvariance, PTL DEF Spec, HistoryGrows

=============================================================================
