------------------------- MODULE RecoveryRowsProofs -------------------------
(***************************************************************************)
(* For every policy, bound, number of candidates, fingerprints, crashes    *)
(* and revisits: an episode never goes back to a recipe it has left, and   *)
(* the ledger never holds more claims of a recipe than its bound.  Also    *)
(* which claims a ledger accepts when it is read back.                     *)
(***************************************************************************)
EXTENDS RecoveryEpisodesProofs

-----------------------------------------------------------------------------
(* The order of an episode's rows *)

\* The position in the policy of the recipe a row is about.
RowPosition(row) == Position(row.id.action)

\* No two attempts have the same id.
Unique(rows) == \A i, j \in DOMAIN rows : rows[i].id = rows[j].id => i = j

\* A claim leaves the cursor just before its recipe and a skip on it; what a
\* row has skipped lies up to its cursor.
Placed(rows) ==
  \A i \in DOMAIN rows :
    /\ rows[i].cursor =
         (IF rows[i].outcome = "skipped" THEN RowPosition(rows[i]) ELSE RowPosition(rows[i]) - 1)
    /\ rows[i].skipped \subseteq UpTo(rows[i].cursor)

\* The rows of an episode lie after the cursors of the rows before them.
Ordered(rows) ==
  \A i, j \in DOMAIN rows :
    i < j /\ rows[i].id.head = rows[j].id.head => rows[i].cursor < RowPosition(rows[j])

RowsInv(rows) == Unique(rows) /\ Placed(rows) /\ Ordered(rows)

\* A row's fields are of their types.
LEMMA RowTypes ==
  ASSUME NEW rows \in Seq(Rows), NEW i \in DOMAIN rows
  PROVE  /\ i \in Nat /\ rows[i] \in Rows /\ rows[i].id \in AttemptIds
         /\ rows[i].id.action \in Recipe /\ rows[i].id.head \in Nat
         /\ rows[i].cursor \in Nat /\ RowPosition(rows[i]) \in 1..Len(Recipes)
         /\ RowPosition(rows[i]) \in Nat /\ Recipes[RowPosition(rows[i])] = rows[i].id.action
         /\ rows[i].counts \in Counts /\ rows[i].skipped \subseteq Recipe
<1>1. Len(Recipes) \in Nat /\ Len(rows) \in Nat /\ DOMAIN rows = 1..Len(rows)
  BY Zenon, PolicyAssumption, SeqIndices
<1>2. rows[i] \in Rows
  BY Zenon, <1>1, SeqIndices
<1>3. /\ rows[i].id \in AttemptIds /\ rows[i].cursor \in 0..Len(Recipes)
      /\ rows[i].counts \in Counts /\ rows[i].skipped \subseteq Recipe
  BY Zenon, <1>2 DEF Rows
<1>4. rows[i].id.action \in Recipe /\ rows[i].id.head \in Heads
  BY Zenon, <1>3 DEF AttemptIds
<1>5. rows[i].id.head \in Nat
  BY SMTT(60), <1>4 DEF Heads
<1>6. RowPosition(rows[i]) \in 1..Len(Recipes) /\ Recipes[RowPosition(rows[i])] = rows[i].id.action
  BY Zenon, <1>4, RecipePosition DEF RowPosition
<1>7. RowPosition(rows[i]) \in Nat /\ rows[i].cursor \in Nat
  BY SMTT(60), <1>1, <1>3, <1>6
<1>8. i \in Nat
  BY SMTT(60), <1>1
<1> QED BY Zenon, <1>2, <1>3, <1>4, <1>5, <1>6, <1>7, <1>8

\* The projected episode has left no row of its own behind its cursor, and all
\* it has skipped lies up to its cursor.
LEMMA EpisodeCursor ==
  ASSUME NEW rows \in Seq(Rows), Placed(rows), Ordered(rows), NEW h
  PROVE  /\ Episode(rows, h).skipped \subseteq UpTo(Episode(rows, h).cursor)
         /\ \A j \in OfEpisode(rows, h) : rows[j].cursor <= Episode(rows, h).cursor
<1>1. CASE OfEpisode(rows, h) = {}
  BY Zenon, <1>1 DEF Episode
<1>2. CASE OfEpisode(rows, h) # {}
  <2> DEFINE m == Max(OfEpisode(rows, h))
             c == rows[m].cursor
  <2>1. Len(rows) \in Nat /\ OfEpisode(rows, h) \subseteq 1..Len(rows)
    BY Zenon, IndicesFinite DEF OfEpisode
  <2>2. m \in OfEpisode(rows, h) /\ \A j \in OfEpisode(rows, h) : j <= m
    BY Zenon, <1>2, <2>1, MaxIndex
  <2>3. m \in DOMAIN rows /\ rows[m].id.head = h
    BY Zenon, <2>2 DEF OfEpisode
  <2>4. Episode(rows, h).cursor = c /\ Episode(rows, h).skipped = rows[m].skipped \cup SkippedBy(rows, h)
    BY Zenon, <1>2 DEF Episode
  <2> HIDE DEF m
  <2>5. ASSUME NEW j \in OfEpisode(rows, h)
        PROVE  rows[j].cursor <= c /\ (rows[j].outcome = "skipped" => RowPosition(rows[j]) <= c)
    <3>1. j \in DOMAIN rows /\ rows[j].id.head = h /\ j <= m
      BY Zenon, <2>2 DEF OfEpisode
    <3>2. /\ j \in Nat /\ m \in Nat /\ rows[j].cursor \in Nat /\ c \in Nat
          /\ RowPosition(rows[j]) \in Nat /\ RowPosition(rows[m]) \in Nat
      BY Zenon, <2>3, <3>1, RowTypes
    <3>3. c = RowPosition(rows[m]) \/ c = RowPosition(rows[m]) - 1
      BY Zenon, <2>3 DEF Placed
    <3>4. rows[j].outcome = "skipped" => rows[j].cursor = RowPosition(rows[j])
      BY Zenon, <3>1 DEF Placed
    <3>5. CASE j = m
      BY SMTT(60), <3>2, <3>4, <3>5
    <3>6. CASE j < m
      <4>1. rows[j].cursor < RowPosition(rows[m])
        BY Zenon, <2>3, <3>1, <3>6 DEF Ordered
      <4>2. rows[j].cursor <= c
        BY SMTT(60), <3>2, <3>3, <4>1
      <4> QED BY Zenon, <3>4, <4>2
    <3> QED BY SMTT(60), <3>1, <3>2, <3>5, <3>6
  <2>6. c \in Nat /\ Len(Recipes) \in Nat
    BY Zenon, <2>3, RowTypes, PolicyAssumption, SeqIndices
  <2>7. rows[m].skipped \subseteq UpTo(c)
    BY Zenon, <2>3 DEF Placed
  <2>8. SkippedBy(rows, h) \subseteq UpTo(c)
    <3> SUFFICES ASSUME NEW j \in OfEpisode(rows, h), rows[j].outcome = "skipped"
                 PROVE  rows[j].id.action \in UpTo(c)
      BY Zenon DEF SkippedBy
    <3>1. RowPosition(rows[j]) <= c
      BY Zenon, <2>5
    <3>2. /\ RowPosition(rows[j]) \in 1..Len(Recipes)
          /\ Recipes[RowPosition(rows[j])] = rows[j].id.action
      BY Zenon, RowTypes DEF OfEpisode
    <3>3. RowPosition(rows[j]) \in 1..c
      BY SMTT(60), <2>6, <3>1, <3>2
    <3> QED BY Zenon, <3>2, <3>3 DEF UpTo
  <2> QED BY Zenon, <2>4, <2>5, <2>7, <2>8
<1> QED BY Zenon, <1>1, <1>2

\* Rows that only closed some of their claims keep their ids, places and order.
LEMMA ClosingKeepsOrder ==
  ASSUME NEW old, NEW new, DOMAIN new = DOMAIN old, Follows(old, new), RowsInv(old)
  PROVE  RowsInv(new)
<1>1. ASSUME NEW i \in DOMAIN old
      PROVE  /\ new[i].id = old[i].id /\ new[i].cursor = old[i].cursor
             /\ new[i].skipped = old[i].skipped /\ RowPosition(new[i]) = RowPosition(old[i])
             /\ new[i].outcome = "skipped" <=> old[i].outcome = "skipped"
  BY Zenon DEF Follows, RowPosition
<1>2. Unique(new)
  BY Zenon, <1>1 DEF RowsInv, Unique
<1>3. Placed(new)
  BY Zenon, <1>1 DEF RowsInv, Placed
<1>4. Ordered(new)
  BY Zenon, <1>1 DEF RowsInv, Ordered
<1> QED BY Zenon, <1>2, <1>3, <1>4 DEF RowsInv

\* Adding the selected recipe's row keeps ids unique, places it at the cursor
\* and after the cursors of its episode.
LEMMA AddingKeepsOrder ==
  ASSUME TypeInv, RowsInv(ledger.rows), MayClaim, NEW i \in Selected,
         NEW o \in {"skipped", "started"}, NEW ep,
         ep = (IF o = "skipped" THEN SkippedEpisode(i) ELSE ClaimedEpisode(i)),
         NEW new, Grown(ledger.rows, new, NewRow(AttemptId(i), o, ep))
  PROVE  RowsInv(new)
<1> DEFINE old == ledger.rows
           n == Len(ledger.rows)
           row == NewRow(AttemptId(i), o, ep)
<1>1. old \in Seq(Rows) /\ TypeOK
  BY Zenon DEF TypeInv, TypeOK, Ledgers
<1>2. /\ n \in Nat /\ DOMAIN old = 1..n /\ DOMAIN new = 1..n + 1
      /\ \A j \in 1..n : new[j] = old[j]
      /\ new[n + 1] = row
  BY Zenon DEF Grown
<1>3. /\ i \in 1..Len(Recipes) /\ i > Current.cursor /\ AttemptId(i) \notin Ids(old)
      /\ Current \in Episodes
  BY Zenon, <1>1, SelectedRecipe
<1>4. Len(Recipes) \in Nat /\ DOMAIN Recipes = 1..Len(Recipes) /\ Current.cursor \in Nat
  BY SMTT(60), <1>3, PolicyAssumption, SeqIndices DEF Episodes
<1>5. /\ Current.skipped \subseteq UpTo(Current.cursor)
      /\ \A j \in OfEpisode(old, head) : old[j].cursor <= Current.cursor
  BY Zenon, <1>1, EpisodeCursor DEF Current, RowsInv
<1>6. /\ row.id = AttemptId(i) /\ row.outcome = o /\ row.cursor = ep.cursor
      /\ row.skipped = ep.skipped
  BY Zenon DEF NewRow
<1>7. /\ ep.cursor = (IF o = "skipped" THEN i ELSE i - 1)
      /\ ep.skipped \subseteq (Current.skipped \cup PassedOver(Current, i))
                                \cup (IF o = "skipped" THEN {Recipes[i]} ELSE {})
  BY SMTT(60), <1>1, SelectedRecipe
<1>8. RowPosition(row) = i /\ row.id.head = head
  BY SMTT(60), <1>3, <1>4, <1>6, PositionOf DEF RowPosition, AttemptId
<1>9. row.skipped \subseteq UpTo(row.cursor)
  <2>1. UpTo(Current.cursor) \subseteq UpTo(ep.cursor)
    <3>1. 1..Current.cursor \subseteq 1..ep.cursor
      BY SMTT(60), <1>3, <1>4, <1>7
    <3> QED BY Zenon, <3>1 DEF UpTo
  <2>2. PassedOver(Current, i) \subseteq UpTo(ep.cursor)
    <3>1. Current.cursor + 1..i - 1 \subseteq 1..ep.cursor
      BY SMTT(60), <1>3, <1>4, <1>7
    <3> QED BY Zenon, <3>1 DEF UpTo, PassedOver
  <2>3. o = "skipped" => Recipes[i] \in UpTo(ep.cursor)
    BY SMTT(60), <1>3, <1>4, <1>7 DEF UpTo
  <2> QED BY Zenon, <1>5, <1>6, <1>7, <2>1, <2>2, <2>3
<1> HIDE DEF old, n, row
<1>10. Unique(new)
  <2>1. \A j \in 1..n : new[j].id # row.id
    BY Zenon, <1>2, <1>3, <1>6 DEF Ids
  <2>2. \A j \in 1..n + 1 : j \in 1..n \/ j = n + 1
    BY SMTT(60), <1>2
  <2>3. Unique(old)
    BY Zenon DEF RowsInv, old
  <2> QED BY Zenon, <1>2, <2>1, <2>2, <2>3 DEF Unique
<1>11. Placed(new)
  <2>1. \A j \in 1..n + 1 : j \in 1..n \/ j = n + 1
    BY SMTT(60), <1>2
  <2>2. Placed(old)
    BY Zenon DEF RowsInv, old
  <2>3. row.cursor = (IF row.outcome = "skipped" THEN RowPosition(row) ELSE RowPosition(row) - 1)
    BY Zenon, <1>6, <1>7, <1>8
  <2> QED BY Zenon, <1>2, <1>9, <2>1, <2>2, <2>3 DEF Placed
<1>12. Ordered(new)
  <2> SUFFICES ASSUME NEW j \in 1..n + 1, NEW k \in 1..n + 1, j < k, new[j].id.head = new[k].id.head
               PROVE  new[j].cursor < RowPosition(new[k])
    BY Zenon, <1>2 DEF Ordered
  <2>1. j \in 1..n
    BY SMTT(60), <1>2
  <2>2. CASE k \in 1..n
    BY Zenon, <1>2, <2>1, <2>2 DEF RowsInv, Ordered, old
  <2>3. CASE k = n + 1
    <3>1. old[j].id.head = head /\ RowPosition(new[k]) = i /\ new[j] = old[j]
      BY Zenon, <1>2, <1>8, <2>1, <2>3
    <3>2. old[j].cursor <= Current.cursor
      BY Zenon, <1>2, <1>5, <2>1, <3>1 DEF OfEpisode
    <3>3. old[j].cursor \in Nat
      BY Zenon, <1>1, <1>2, <2>1, RowTypes DEF old
    <3> QED BY SMTT(60), <1>3, <1>4, <3>1, <3>2, <3>3
  <2> QED BY SMTT(60), <1>2, <2>2, <2>3
<1> QED BY Zenon, <1>10, <1>11, <1>12 DEF RowsInv

\* The order of the rows is kept by the ways in which a step changes them.
LEMMA ChangeKeepsOrder ==
  ASSUME TypeInv, RowsInv(ledger.rows), NEW doc, RowsChange(doc)
  PROVE  RowsInv(doc.rows)
<1>1. ledger \in Ledgers /\ ledger.rows \in Seq(Rows)
  BY Zenon DEF TypeInv, TypeOK, Ledgers
<1>2. CASE doc.rows = ledger.rows
  BY Zenon, <1>2
<1>3. CASE \E S \in SUBSET Started(ledger.rows), o \in Closings :
             doc.rows = SetOutcome(ledger.rows, S, o)
  <2>1. DOMAIN doc.rows = DOMAIN ledger.rows
    BY Zenon, <1>3 DEF SetOutcome
  <2>2. Follows(ledger.rows, doc.rows)
    BY Zenon, ChangeFollows
  <2> QED BY Zenon, <2>1, <2>2, ClosingKeepsOrder
<1>4. CASE /\ MayClaim
           /\ \E i \in Selected :
                doc \in {Recorded(AttemptId(i), "skipped", SkippedEpisode(i)),
                         Recorded(AttemptId(i), "started", ClaimedEpisode(i))}
  <2>1. PICK i \in Selected :
          doc \in {Recorded(AttemptId(i), "skipped", SkippedEpisode(i)),
                   Recorded(AttemptId(i), "started", ClaimedEpisode(i))}
    BY Zenon, <1>4
  <2>2. /\ AttemptId(i) \in AttemptIds /\ SkippedEpisode(i) \in Episodes
        /\ ClaimedEpisode(i) \in Episodes
    BY Zenon, <1>4, SelectedRecipe DEF TypeInv
  <2>3. CASE doc = Recorded(AttemptId(i), "skipped", SkippedEpisode(i))
    <3>1. Grown(ledger.rows, doc.rows, NewRow(AttemptId(i), "skipped", SkippedEpisode(i)))
      BY Zenon, <1>1, <2>2, <2>3, RecordedRows DEF Outcomes
    <3> QED BY Zenon, <1>4, <3>1, AddingKeepsOrder
  <2>4. CASE doc = Recorded(AttemptId(i), "started", ClaimedEpisode(i))
    <3>1. Grown(ledger.rows, doc.rows, NewRow(AttemptId(i), "started", ClaimedEpisode(i)))
      BY Zenon, <1>1, <2>2, <2>4, RecordedRows DEF Outcomes
    <3> QED BY Zenon, <1>4, <3>1, AddingKeepsOrder
  <2> QED BY Zenon, <2>1, <2>3, <2>4
<1> QED BY Zenon, <1>2, <1>3, <1>4 DEF RowsChange

\* The types and the order of the rows.
OrderInv == TypeInv /\ RowsInv(ledger.rows)

\* The invariant of order, at every step.
THEOREM OrderInvariance == Spec => []OrderInv
<1>1. Init => OrderInv
  <2>1. Init => DOMAIN ledger.rows = {}
    BY SMTT(60) DEF Init
  <2>2. DOMAIN ledger.rows = {} => RowsInv(ledger.rows)
    BY Zenon DEF RowsInv, Unique, Placed, Ordered
  <2> QED BY Zenon, <2>1, <2>2, InitTypes DEF OrderInv
<1>2. OrderInv /\ [Next]_vars => OrderInv'
  <2> SUFFICES ASSUME OrderInv, [Next]_vars PROVE OrderInv'
    OBVIOUS
  <2>1. TypeInv'
    BY Zenon, StepTypes DEF OrderInv
  <2>2. CASE Next
    <3>1. RowsInv(ledger'.rows)
      BY Zenon, <2>2, LedgerStep, ChangeKeepsOrder DEF OrderInv
    <3> QED BY Zenon, <2>1, <3>1 DEF OrderInv
  <2>3. CASE UNCHANGED vars
    BY Zenon, <2>1, <2>3 DEF vars, OrderInv
  <2> QED BY Zenon, <2>2, <2>3
<1> QED BY <1>1, <1>2, PTL DEF Spec

\* On one candidate the recipes are claimed and skipped in production order, for
\* every policy and through any crashes and returns of the pull request
\* (ProductionOrder: selectEligibleRecoveryStrategy, projectEpisode).
THEOREM ProductionOrderHolds == Spec => []ProductionOrder
<1>1. OrderInv => ProductionOrder
  <2> SUFFICES ASSUME OrderInv, NEW j \in DOMAIN ledger.rows, NEW i \in 1..j - 1,
                      ledger.rows[i].id.head = ledger.rows[j].id.head
               PROVE  Position(ledger.rows[i].id.action) <= Position(ledger.rows[j].id.action)
    BY Zenon DEF ProductionOrder
  <2> DEFINE rows == ledger.rows
  <2>1. rows \in Seq(Rows) /\ Placed(rows) /\ Ordered(rows)
    BY Zenon DEF OrderInv, RowsInv, TypeInv, TypeOK, Ledgers
  <2>2. Len(rows) \in Nat /\ DOMAIN rows = 1..Len(rows)
    BY Zenon, <2>1, SeqIndices
  <2>3. i \in DOMAIN rows /\ i < j
    BY SMTT(60), <2>2
  <2>4. /\ RowPosition(rows[i]) \in Nat /\ RowPosition(rows[j]) \in Nat /\ rows[i].cursor \in Nat
    BY Zenon, <2>1, <2>3, RowTypes
  <2>5. rows[i].cursor < RowPosition(rows[j])
    BY Zenon, <2>1, <2>3 DEF Ordered
  <2>6. rows[i].cursor >= RowPosition(rows[i]) - 1
    BY SMTT(60), <2>1, <2>3, <2>4 DEF Placed
  <2>7. RowPosition(rows[i]) <= RowPosition(rows[j])
    BY SMTT(60), <2>4, <2>5, <2>6
  <2> QED BY Zenon, <2>7 DEF RowPosition
<1> QED BY <1>1, OrderInvariance, PTL

-----------------------------------------------------------------------------
(* Which claims the ledger accepts *)

\* The latest row of an episode, if it has one, is not a superseded claim.
LatestLive(rows, h) ==
  OfEpisode(rows, h) # {} => rows[Max(OfEpisode(rows, h))].outcome # "superseded"

\* Unless its latest row is superseded, an accepted episode is projected with
\* the counts that its rows derive, and all below its cursor is justified.
LEMMA EpisodeCounts ==
  ASSUME NEW rows \in Seq(Rows), NEW h, LatestLive(rows, h),
         OfEpisode(rows, h) # {} => LatestAuthoritative(rows, h)
  PROVE  /\ Episode(rows, h).counts = DerivedCounts(rows, h)
         /\ Justified(Episode(rows, h).cursor, DerivedCounts(rows, h), Episode(rows, h).skipped)
<1>1. CASE OfEpisode(rows, h) = {}
  <2>1. Episode(rows, h).counts = NoCounts /\ Episode(rows, h).cursor = 0
    BY Zenon, <1>1 DEF Episode
  <2>2. DerivedCounts(rows, h) = NoCounts
    <3>1. ASSUME NEW r \in Recipe
          PROVE  Cardinality({i \in OfEpisode(rows, h) : rows[i].id.action = r /\ Charged(rows, i)}) = 0
      <4>1. {i \in OfEpisode(rows, h) : rows[i].id.action = r /\ Charged(rows, i)} = {}
        BY Zenon, <1>1
      <4> QED BY Zenon, <4>1, FS_EmptySet
    <3> QED BY Zenon, <3>1 DEF DerivedCounts, NoCounts
  <2> QED BY SMTT(60), <2>1, <2>2 DEF Justified
<1>2. CASE OfEpisode(rows, h) # {}
  <2> DEFINE latest == rows[Max(OfEpisode(rows, h))]
  <2>1. latest.outcome # "superseded" /\ latest.counts = DerivedCounts(rows, h)
    BY Zenon, <1>2 DEF LatestLive, LatestAuthoritative
  <2>2. Justified(latest.cursor, DerivedCounts(rows, h), latest.skipped \cup SkippedBy(rows, h))
    BY Zenon, <1>2, <2>1 DEF LatestAuthoritative
  <2>3. /\ Episode(rows, h).counts = DerivedCounts(rows, h)
        /\ Episode(rows, h).cursor = latest.cursor
        /\ Episode(rows, h).skipped = latest.skipped \cup SkippedBy(rows, h)
    BY Zenon, <1>2, <2>1 DEF Episode
  <2> QED BY Zenon, <2>2, <2>3
<1> QED BY Zenon, <1>1, <1>2

\* A row added to one episode leaves the others as they are.
LEMMA OtherEpisodes ==
  ASSUME NEW old \in Seq(Rows), NEW new, NEW row, Grown(old, new, row), NEW h,
         row.id.head # h, OfEpisode(old, h) # {}, LatestAuthoritative(old, h)
  PROVE  LatestAuthoritative(new, h)
<1> DEFINE n == Len(old)
           E == OfEpisode(old, h)
           m == Max(E)
<1>1. /\ n \in Nat /\ DOMAIN old = 1..n /\ DOMAIN new = 1..n + 1
      /\ \A j \in 1..n : new[j] = old[j]
      /\ new[n + 1] = row
  BY Zenon DEF Grown
<1>2. OfEpisode(new, h) = E
  <2>1. \A j \in 1..n + 1 : j \in 1..n \/ j = n + 1
    BY SMTT(60), <1>1
  <2>2. \A j \in 1..n : j \in 1..n + 1
    BY SMTT(60), <1>1
  <2> HIDE DEF n
  <2> QED BY Zenon, <1>1, <2>1, <2>2 DEF OfEpisode
<1>3. E \subseteq 1..n
  BY Zenon, <1>1 DEF OfEpisode
<1>4. m \in E
  BY Zenon, <1>1, <1>3, MaxIndex
<1>5. \A j \in E : new[j] = old[j] /\ (Charged(new, j) <=> Charged(old, j))
  BY Zenon, <1>1, <1>3 DEF Charged
<1> HIDE DEF m, E, n
<1>6. DerivedCounts(new, h) = DerivedCounts(old, h)
  <2>1. \A r : {i \in E : new[i].id.action = r /\ Charged(new, i)} =
               {i \in E : old[i].id.action = r /\ Charged(old, i)}
    BY Zenon, <1>5
  <2> QED BY <1>2, <2>1 DEF DerivedCounts, E
<1>7. SkippedBy(new, h) = SkippedBy(old, h)
  BY Zenon, <1>2, <1>5 DEF SkippedBy, E
<1>8. new[Max(OfEpisode(new, h))] = old[Max(OfEpisode(old, h))]
  BY Zenon, <1>2, <1>4, <1>5 DEF m, E
<1> QED BY Zenon, <1>6, <1>7, <1>8 DEF LatestAuthoritative

\* A row that is charged counts for its recipe, and only for it.
Plus(counts, row) ==
  [r \in Recipe |-> IF row.outcome \notin {"skipped", "superseded"} /\ row.id.action = r
                    THEN counts[r] + 1 ELSE counts[r]]

\* A row added to an episode is its latest, keeps what was skipped, and is
\* counted if it is charged.
LEMMA OwnEpisode ==
  ASSUME NEW old \in Seq(Rows), NEW new, NEW row, Grown(old, new, row), NEW h, row.id.head = h
  PROVE  /\ Max(OfEpisode(new, h)) = Len(old) + 1 /\ new[Len(old) + 1] = row
         /\ DerivedCounts(new, h) = Plus(DerivedCounts(old, h), row)
         /\ SkippedBy(old, h) \subseteq SkippedBy(new, h)
<1> DEFINE n == Len(old)
           E == OfEpisode(old, h)
<1>1. /\ n \in Nat /\ DOMAIN old = 1..n /\ DOMAIN new = 1..n + 1
      /\ \A j \in 1..n : new[j] = old[j]
      /\ new[n + 1] = row /\ new \in Seq(Rows)
  BY Zenon DEF Grown
<1>2. /\ \A j \in 1..n + 1 : j \in 1..n \/ j = n + 1
      /\ \A j \in 1..n : j \in 1..n + 1
      /\ n + 1 \in 1..n + 1 /\ n + 1 \notin 1..n /\ n + 1 \in Nat
  BY SMTT(60), <1>1
<1>3. E \subseteq 1..n
  BY Zenon, <1>1 DEF OfEpisode
<1> HIDE DEF n, E
<1>4. OfEpisode(new, h) = E \cup {n + 1}
  BY Zenon, <1>1, <1>2 DEF OfEpisode, E
<1>5. Max(OfEpisode(new, h)) = n + 1
  <2> DEFINE m == Max(E \cup {n + 1})
  <2>1. E \cup {n + 1} \in SUBSET (1..n + 1)
    BY Zenon, <1>2, <1>3
  <2>2. m \in E \cup {n + 1} /\ n + 1 <= m
    BY Zenon, <1>2, <2>1, MaxIndex
  <2>3. m \in 1..n + 1
    BY Zenon, <2>1, <2>2
  <2> HIDE DEF m
  <2>4. m = n + 1
    BY SMTT(60), <1>1, <2>2, <2>3
  <2> QED BY Zenon, <1>4, <2>4 DEF m
<1>6. \A j \in E : new[j] = old[j] /\ (Charged(new, j) <=> Charged(old, j))
  BY Zenon, <1>1, <1>3 DEF Charged
<1>7. DerivedCounts(new, h) = Plus(DerivedCounts(old, h), row)
  <2> SUFFICES ASSUME NEW r \in Recipe
               PROVE  DerivedCounts(new, h)[r] = Plus(DerivedCounts(old, h), row)[r]
    BY Zenon DEF DerivedCounts, Plus
  <2> DEFINE before == {j \in E : old[j].id.action = r /\ Charged(old, j)}
             after == {j \in OfEpisode(new, h) : new[j].id.action = r /\ Charged(new, j)}
             counted == row.outcome \notin {"skipped", "superseded"} /\ row.id.action = r
  <2>1. /\ DerivedCounts(new, h)[r] = Cardinality(after)
        /\ DerivedCounts(old, h)[r] = Cardinality(before)
    BY Zenon DEF DerivedCounts, E
  <2>2. counted <=> new[n + 1].id.action = r /\ Charged(new, n + 1)
    BY Zenon, <1>1 DEF Charged
  <2>3. IsFiniteSet(before) /\ n + 1 \notin before
    <3>1. before \in SUBSET DOMAIN old
      BY Zenon, <1>1, <1>3
    <3> QED BY Zenon, <1>2, <1>3, <3>1, IndicesFinite
  <2>4. CASE counted
    <3>1. after = before \cup {n + 1}
      BY Zenon, <1>4, <1>6, <2>2, <2>4
    <3>2. Cardinality(after) = Cardinality(before) + 1
      BY Zenon, <2>3, <3>1, FS_AddElement
    <3> QED BY Zenon, <2>1, <2>4, <3>2 DEF Plus
  <2>5. CASE ~counted
    <3>1. after = before
      BY Zenon, <1>4, <1>6, <2>2, <2>5
    <3> QED BY Zenon, <2>1, <2>5, <3>1 DEF Plus
  <2> QED BY Zenon, <2>4, <2>5
<1>8. SkippedBy(old, h) \subseteq SkippedBy(new, h)
  BY Zenon, <1>4, <1>6 DEF SkippedBy, E
<1> QED BY Zenon, <1>1, <1>5, <1>7, <1>8 DEF n

\* A recorded row whose counts are the derived ones, and below whose cursor all
\* is justified and all that is skipped lies, leaves an authoritative ledger.
LEMMA Accepted ==
  ASSUME TypeInv, NEW id \in AttemptIds, NEW o \in {"skipped", "started"}, NEW ep \in Episodes,
         ep.counts = Plus(DerivedCounts(ledger.rows, id.head), NewRow(id, o, ep)),
         Justified(ep.cursor, ep.counts, ep.skipped), ep.skipped \subseteq UpTo(ep.cursor)
  PROVE  Authoritative(Recorded(id, o, ep))
<1> DEFINE old == ledger.rows
           n == Len(ledger.rows)
           row == NewRow(id, o, ep)
           doc == Recorded(id, o, ep)
           new == Recorded(id, o, ep).rows
<1>1. ledger \in Ledgers /\ old \in Seq(Rows)
  BY Zenon DEF TypeInv, TypeOK, Ledgers
<1>2. o \in Outcomes /\ o # "superseded"
  BY Zenon DEF Outcomes
<1>3. Grown(old, new, row)
  BY Zenon, <1>1, <1>2, RecordedRows
<1>4. /\ n \in Nat /\ DOMAIN old = 1..n /\ DOMAIN new = 1..n + 1
      /\ \A j \in 1..n : new[j] = old[j]
      /\ new[n + 1] = row
  BY Zenon, <1>3 DEF Grown
<1>5. /\ row.id = id /\ row.outcome = o /\ row.counts = ep.counts
      /\ row.cursor = ep.cursor /\ row.skipped = ep.skipped
  BY Zenon DEF NewRow
<1>6. /\ \A j \in 1..n : RowAuthoritative(old[j])
      /\ \A h \in {old[j].id.head : j \in 1..n} : LatestAuthoritative(old, h)
  BY Zenon, <1>4 DEF TypeInv, Authoritative
<1>7. \A j \in 1..n + 1 : j \in 1..n \/ j = n + 1
  BY SMTT(60), <1>4
<1> HIDE DEF old, n, row, new
<1>8. \A T : ep.skipped \subseteq T => Justified(ep.cursor, ep.counts, T)
  BY Zenon DEF Justified
<1>9. RowAuthoritative(row)
  <2>1. ep.cursor \in 0..Len(Recipes)
    BY Zenon DEF Episodes
  <2>2. Cardinality(ep.skipped) <= ep.cursor
    BY Zenon, <2>1, UpToCardinality
  <2> QED BY Zenon, <1>5, <1>8, <2>2 DEF RowAuthoritative
<1>10. \A j \in DOMAIN new : RowAuthoritative(new[j])
  BY Zenon, <1>4, <1>6, <1>7, <1>9
<1>11. LatestAuthoritative(new, id.head)
  <2>1. /\ new[Max(OfEpisode(new, id.head))] = row
        /\ DerivedCounts(new, id.head) = Plus(DerivedCounts(old, id.head), row)
    BY SMTT(60), <1>1, <1>3, <1>5, OwnEpisode DEF old
  <2>2. DerivedCounts(new, id.head) = ep.counts
    BY Zenon, <2>1 DEF old, row
  <2> QED BY Zenon, <1>2, <1>5, <1>8, <2>1, <2>2 DEF LatestAuthoritative
<1>12. ASSUME NEW h \in {new[j].id.head : j \in DOMAIN new}, h # id.head
       PROVE  LatestAuthoritative(new, h)
  <2>1. PICK j \in 1..n + 1 : h = new[j].id.head
    BY Zenon, <1>4
  <2>2. j \in 1..n /\ old[j].id.head = h
    BY Zenon, <1>4, <1>5, <1>7, <1>12, <2>1
  <2>3. OfEpisode(old, h) # {} /\ LatestAuthoritative(old, h)
    BY Zenon, <1>4, <1>6, <2>2 DEF OfEpisode
  <2> QED BY Zenon, <1>1, <1>3, <1>5, <1>12, <2>3, OtherEpisodes
<1> QED BY Zenon, <1>10, <1>11, <1>12 DEF Authoritative, new

\* Passing over the recipes up to the selected one justifies them: those that
\* have budget are recorded as skipped and the others have spent it.
LEMMA PassedJustified ==
  ASSUME NEW ep \in Episodes, NEW i \in 1..Len(Recipes), i > ep.cursor,
         Justified(ep.cursor, ep.counts, ep.skipped), ep.skipped \subseteq UpTo(ep.cursor)
  PROVE  /\ Justified(i - 1, ep.counts, ep.skipped \cup PassedOver(ep, i))
         /\ ep.skipped \cup PassedOver(ep, i) \subseteq UpTo(i - 1)
<1>1. Len(Recipes) \in Nat /\ DOMAIN Recipes = 1..Len(Recipes) /\ ep.cursor \in Nat
  BY SMTT(60), PolicyAssumption, SeqIndices DEF Episodes
<1>2. ASSUME NEW k \in 1..i - 1
      PROVE  Recipes[k] \in ep.skipped \cup PassedOver(ep, i) \/ ep.counts[Recipes[k]] >= Bound
  <2>1. CASE k \in 1..ep.cursor
    BY Zenon, <2>1 DEF Justified
  <2>2. CASE k \in ep.cursor + 1..i - 1
    <3>1. CASE HasBudget(ep, k)
      BY Zenon, <2>2, <3>1 DEF PassedOver
    <3>2. CASE ~HasBudget(ep, k)
      <4>1. k \in DOMAIN Recipes
        BY SMTT(60), <1>1
      <4>2. ep.counts[Recipes[k]] \in Nat /\ Bound \in Nat
        BY Zenon, <4>1, PositionOf, PolicyAssumption DEF Episodes, Counts
      <4> QED BY SMTT(60), <3>2, <4>2 DEF HasBudget
    <3> QED BY Zenon, <3>1, <3>2
  <2> QED BY SMTT(60), <1>1, <2>1, <2>2
<1>3. UpTo(ep.cursor) \subseteq UpTo(i - 1)
  <2>1. 1..ep.cursor \subseteq 1..i - 1
    BY SMTT(60), <1>1
  <2> QED BY Zenon, <2>1 DEF UpTo
<1>4. PassedOver(ep, i) \subseteq UpTo(i - 1)
  <2>1. ep.cursor + 1..i - 1 \subseteq 1..i - 1
    BY SMTT(60), <1>1
  <2> QED BY Zenon, <2>1 DEF UpTo, PassedOver
<1> QED BY Zenon, <1>2, <1>3, <1>4 DEF Justified

\* Unless the candidate's latest row is superseded, the ledger accepts the
\* selected recipe's claim and its skip: neither is quarantined when read back.
LEMMA SelectedAccepted ==
  ASSUME OrderInv, MayClaim, NEW i \in Selected, LatestLive(ledger.rows, head)
  PROVE  /\ Current.counts = DerivedCounts(ledger.rows, head)
         /\ Authoritative(Recorded(AttemptId(i), "started", ClaimedEpisode(i)))
         /\ Authoritative(Recorded(AttemptId(i), "skipped", SkippedEpisode(i)))
<1> DEFINE rows == ledger.rows
           id == AttemptId(i)
           derived == DerivedCounts(ledger.rows, head)
           passed == Current.skipped \cup PassedOver(Current, i)
           r == Recipes[i]
<1>1. TypeInv /\ TypeOK /\ rows \in Seq(Rows) /\ Placed(rows) /\ Ordered(rows) /\ Authoritative(ledger)
  BY Zenon DEF OrderInv, RowsInv, TypeInv, TypeOK, Ledgers
<1>2. /\ i \in 1..Len(Recipes) /\ r \in Recipe /\ i > Current.cursor
      /\ id \in AttemptIds /\ Current \in Episodes
      /\ SkippedEpisode(i) \in Episodes /\ ClaimedEpisode(i) \in Episodes
  BY Zenon, <1>1, SelectedRecipe
<1>3. id.head = head /\ id.action = r
  BY Zenon DEF AttemptId
<1>4. OfEpisode(rows, head) # {} => LatestAuthoritative(rows, head)
  BY Zenon, <1>1 DEF OfEpisode, Authoritative
<1>5. /\ Current.counts = derived
      /\ Justified(Current.cursor, Current.counts, Current.skipped)
      /\ Current.skipped \subseteq UpTo(Current.cursor)
  BY Zenon, <1>1, <1>4, EpisodeCounts, EpisodeCursor DEF Current
<1>6. Justified(i - 1, derived, passed) /\ passed \subseteq UpTo(i - 1)
  BY Zenon, <1>2, <1>5, PassedJustified
<1>7. Len(Recipes) \in Nat /\ DOMAIN Recipes = 1..Len(Recipes) /\ derived \in Counts
  BY Zenon, <1>1, EpisodeType, PolicyAssumption, SeqIndices
<1>8. /\ ClaimedEpisode(i) = [counts |-> [Current.counts EXCEPT ![r] = @ + 1], cursor |-> i - 1,
                              skipped |-> passed]
      /\ SkippedEpisode(i) = [counts |-> Current.counts, cursor |-> i, skipped |-> passed \cup {r}]
  BY Zenon, <1>1, SelectedRecipe
<1>9. /\ ClaimedEpisode(i).counts = [derived EXCEPT ![r] = @ + 1]
      /\ ClaimedEpisode(i).cursor = i - 1 /\ ClaimedEpisode(i).skipped = passed
      /\ SkippedEpisode(i).counts = derived
      /\ SkippedEpisode(i).cursor = i /\ SkippedEpisode(i).skipped = passed \cup {r}
  BY SMTT(60), <1>5, <1>8
<1> HIDE DEF derived, passed, rows, id
<1>10. Authoritative(Recorded(id, "started", ClaimedEpisode(i)))
  <2> DEFINE ep == ClaimedEpisode(i)
             row == NewRow(id, "started", ep)
  <2>1. row.outcome = "started" /\ row.id = id
    BY Zenon DEF NewRow
  <2>2. ep.counts = Plus(derived, row)
    <3> HIDE DEF row
    <3>1. row.outcome \notin {"skipped", "superseded"} /\ row.id.action = r
      BY Zenon, <1>3, <2>1
    <3>2. Plus(derived, row) = [q \in Recipe |-> IF r = q THEN derived[q] + 1 ELSE derived[q]]
      BY Zenon, <3>1 DEF Plus
    <3> QED BY ZenonT(60), <1>7, <1>9, <3>2 DEF Counts
  <2>3. Justified(i - 1, ep.counts, passed)
    <3>1. ASSUME NEW k \in 1..i - 1 PROVE ep.counts[Recipes[k]] = derived[Recipes[k]]
      <4>1. k \in DOMAIN Recipes /\ i \in DOMAIN Recipes /\ k # i
        BY SMTT(60), <1>2, <1>7
      <4>2. Recipes[k] \in Recipe /\ Recipes[k] # r
        BY Zenon, <4>1, PositionOf
      <4> QED BY Zenon, <1>7, <1>9, <4>2 DEF Counts
    <3> QED BY Zenon, <1>6, <3>1 DEF Justified
  <2> HIDE DEF ep, row
  <2> QED BY Zenon, <1>1, <1>2, <1>3, <1>6, <1>9, <2>2, <2>3, Accepted DEF ep, row, derived
<1>11. Authoritative(Recorded(id, "skipped", SkippedEpisode(i)))
  <2> DEFINE ep == SkippedEpisode(i)
             row == NewRow(id, "skipped", ep)
  <2>1. row.outcome = "skipped"
    BY Zenon DEF NewRow
  <2>2. ep.counts = Plus(derived, row)
    BY Zenon, <1>7, <1>9, <2>1 DEF Plus, Counts
  <2>3. Justified(i, ep.counts, passed \cup {r})
    <3>1. \A k \in 1..i : k \in 1..i - 1 \/ k = i
      BY SMTT(60), <1>2, <1>7
    <3> QED BY Zenon, <1>6, <1>9, <3>1 DEF Justified
  <2>4. passed \cup {r} \subseteq UpTo(i)
    <3>1. 1..i - 1 \subseteq 1..i /\ i \in 1..i
      BY SMTT(60), <1>2, <1>7
    <3> QED BY Zenon, <1>6, <3>1 DEF UpTo
  <2> HIDE DEF ep, row
  <2> QED BY Zenon, <1>1, <1>2, <1>3, <1>9, <2>2, <2>3, <2>4, Accepted DEF ep, row, derived
<1> QED BY Zenon, <1>5, <1>10, <1>11 DEF id, derived

-----------------------------------------------------------------------------
(* The budget of a recipe *)

\* The claims, closed or not, of a recipe on a candidate.
ClaimsOf(rows, h, r) ==
  {i \in DOMAIN rows : rows[i].id.head = h /\ rows[i].id.action = r /\ rows[i].outcome # "skipped"}

\* The counts in the latest row of an episode are those of its claims, the
\* superseded ones included: they are counted when they are made.
Counted(rows) ==
  \A h \in Heads, r \in Recipe :
    OfEpisode(rows, h) # {} =>
      rows[Max(OfEpisode(rows, h))].counts[r] = Cardinality(ClaimsOf(rows, h, r))

\* No recipe was claimed more often than its bound on one candidate.
WithinBound(rows) == \A h \in Heads, r \in Recipe : Cardinality(ClaimsOf(rows, h, r)) <= Bound

\* The projected episode counts every claim.
LEMMA EpisodeCounted ==
  ASSUME NEW rows \in Seq(Rows), Counted(rows), NEW h \in Heads, NEW r \in Recipe
  PROVE  Episode(rows, h).counts[r] = Cardinality(ClaimsOf(rows, h, r))
<1> DEFINE claims == ClaimsOf(rows, h, r)
           charged == {i \in OfEpisode(rows, h) : rows[i].id.action = r /\ Charged(rows, i)}
<1>1. NoCounts[r] = 0 /\ DerivedCounts(rows, h)[r] = Cardinality(charged)
  BY Zenon DEF NoCounts, DerivedCounts
<1>2. claims \in SUBSET DOMAIN rows /\ charged \in SUBSET claims
  BY Zenon DEF ClaimsOf, OfEpisode, Charged
<1>3. IsFiniteSet(claims) /\ Cardinality(claims) \in Nat
  BY Zenon, <1>2, IndicesFinite
<1>4. IsFiniteSet(charged) /\ Cardinality(charged) \in Nat /\ Cardinality(charged) <= Cardinality(claims)
  BY Zenon, <1>2, <1>3, FS_Subset, FS_CardinalityType
<1>5. CASE OfEpisode(rows, h) = {}
  <2>1. claims = {} /\ Episode(rows, h).counts = NoCounts
    BY Zenon, <1>5 DEF ClaimsOf, OfEpisode, Episode
  <2> QED BY Zenon, <1>1, <2>1, FS_EmptySet
<1>6. CASE OfEpisode(rows, h) # {}
  <2> DEFINE latest == rows[Max(OfEpisode(rows, h))]
  <2>1. latest.counts[r] = Cardinality(claims)
    BY Zenon, <1>6 DEF Counted
  <2>2. Episode(rows, h).counts = IF latest.counts = NoCounts THEN DerivedCounts(rows, h) ELSE latest.counts
    BY Zenon, <1>6 DEF Episode
  <2> HIDE DEF latest, claims, charged
  <2>3. latest.counts = NoCounts => Cardinality(charged) = Cardinality(claims)
    BY SMTT(60), <1>1, <1>3, <1>4, <2>1
  <2>4. latest.counts = NoCounts => Episode(rows, h).counts[r] = Cardinality(claims)
    BY Zenon, <1>1, <2>2, <2>3
  <2>5. latest.counts # NoCounts => Episode(rows, h).counts[r] = Cardinality(claims)
    BY Zenon, <2>1, <2>2
  <2> QED BY Zenon, <2>4, <2>5 DEF claims
<1> QED BY Zenon, <1>5, <1>6

\* Closing claims keeps them claims.
LEMMA ClosingKeepsCounts ==
  ASSUME NEW old \in Seq(Rows), NEW S \in SUBSET Started(old), NEW o \in Closings,
         NEW new, new = SetOutcome(old, S, o), Counted(old), WithinBound(old)
  PROVE  Counted(new) /\ WithinBound(new)
<1>2. o \in Outcomes /\ o # "skipped" /\ \A i \in S : old[i].outcome # "skipped"
  BY Zenon DEF Closings, Started, Outcomes
<1>3. /\ DOMAIN new = DOMAIN old
      /\ \A i \in DOMAIN old : /\ new[i].id = old[i].id /\ new[i].counts = old[i].counts
                               /\ new[i].outcome = (IF i \in S THEN o ELSE old[i].outcome)
  BY SMTT(60), <1>2, SetOutcomeRows
<1>4. \A i \in DOMAIN old : new[i].outcome # "skipped" <=> old[i].outcome # "skipped"
  BY Zenon, <1>2, <1>3
<1>5. \A h : OfEpisode(new, h) = OfEpisode(old, h)
  BY Zenon, <1>3 DEF OfEpisode
<1>6. \A h, r : ClaimsOf(new, h, r) = ClaimsOf(old, h, r)
  BY Zenon, <1>3, <1>4 DEF ClaimsOf
<1>7. ASSUME NEW h, OfEpisode(old, h) # {} PROVE Max(OfEpisode(old, h)) \in DOMAIN old
  <2>1. OfEpisode(old, h) \in SUBSET (1..Len(old)) /\ Len(old) \in Nat /\ DOMAIN old = 1..Len(old)
    BY Zenon, IndicesFinite DEF OfEpisode
  <2>2. Max(OfEpisode(old, h)) \in OfEpisode(old, h)
    BY Zenon, <1>7, <2>1, MaxIndex
  <2> QED BY Zenon, <2>1, <2>2
<1>8. Counted(new)
  BY SMTT(60), <1>3, <1>5, <1>6, <1>7 DEF Counted
<1>9. WithinBound(new)
  BY Zenon, <1>6 DEF WithinBound
<1> QED BY Zenon, <1>8, <1>9

\* A row added to an episode is one more claim of its recipe unless it is a
\* skip; nothing else becomes a claim.
LEMMA AddedClaim ==
  ASSUME NEW old \in Seq(Rows), NEW new, NEW row, Grown(old, new, row), NEW h, NEW r
  PROVE  /\ ClaimsOf(old, h, r) \in SUBSET DOMAIN old
         /\ Cardinality(ClaimsOf(old, h, r)) \in Nat
         /\ Cardinality(ClaimsOf(new, h, r)) =
              Cardinality(ClaimsOf(old, h, r))
              + IF row.id.head = h /\ row.id.action = r /\ row.outcome # "skipped" THEN 1 ELSE 0
<1> DEFINE n == Len(old)
           before == ClaimsOf(old, h, r)
           after == ClaimsOf(new, h, r)
           added == row.id.head = h /\ row.id.action = r /\ row.outcome # "skipped"
<1>1. /\ n \in Nat /\ DOMAIN old = 1..n /\ DOMAIN new = 1..n + 1
      /\ \A j \in 1..n : new[j] = old[j]
      /\ new[n + 1] = row
  BY Zenon DEF Grown
<1>2. /\ \A j \in 1..n + 1 : j \in 1..n \/ j = n + 1
      /\ \A j \in 1..n : j \in 1..n + 1
      /\ n + 1 \in 1..n + 1 /\ n + 1 \notin 1..n
  BY SMTT(60), <1>1
<1>3. before \in SUBSET DOMAIN old
  BY Zenon DEF ClaimsOf
<1>4. IsFiniteSet(before) /\ Cardinality(before) \in Nat
  BY Zenon, <1>3, IndicesFinite
<1> HIDE DEF n
<1>5. added => after = before \cup {n + 1} /\ n + 1 \notin before
  BY Zenon, <1>1, <1>2 DEF ClaimsOf
<1>6. ~added => after = before
  BY Zenon, <1>1, <1>2 DEF ClaimsOf
<1> HIDE DEF before, after, added
<1>7. added => Cardinality(after) = Cardinality(before) + 1
  BY Zenon, <1>4, <1>5, FS_AddElement
<1>8. Cardinality(after) = Cardinality(before) + IF added THEN 1 ELSE 0
  BY SMTT(60), <1>4, <1>6, <1>7
<1> QED BY Zenon, <1>3, <1>4, <1>8 DEF before, after, added

\* The row that Skip or Claim adds has counted its own claim.
LEMMA AddingKeepsCounts ==
  ASSUME NEW old \in Seq(Rows), NEW new, NEW row, Grown(old, new, row), Counted(old),
         row.id.head \in Heads,
         \A r \in Recipe :
           row.counts[r] = Episode(old, row.id.head).counts[r]
                           + IF row.id.action = r /\ row.outcome # "skipped" THEN 1 ELSE 0
  PROVE  Counted(new)
<1> SUFFICES ASSUME NEW h \in Heads, NEW r \in Recipe, OfEpisode(new, h) # {}
             PROVE  new[Max(OfEpisode(new, h))].counts[r] = Cardinality(ClaimsOf(new, h, r))
  BY Zenon DEF Counted
<1> DEFINE n == Len(old)
           E == OfEpisode(old, h)
<1>1. /\ Cardinality(ClaimsOf(old, h, r)) \in Nat
      /\ Cardinality(ClaimsOf(new, h, r)) =
           Cardinality(ClaimsOf(old, h, r))
           + IF row.id.head = h /\ row.id.action = r /\ row.outcome # "skipped" THEN 1 ELSE 0
  BY SMTT(60), AddedClaim
<1>2. CASE row.id.head = h
  <2>1. new[Max(OfEpisode(new, h))] = row
    BY SMTT(60), <1>2, OwnEpisode
  <2>2. Episode(old, h).counts[r] = Cardinality(ClaimsOf(old, h, r))
    BY Zenon, EpisodeCounted
  <2> QED BY Zenon, <1>1, <1>2, <2>1, <2>2
<1>3. CASE row.id.head # h
  <2>1. /\ n \in Nat /\ DOMAIN old = 1..n /\ DOMAIN new = 1..n + 1
        /\ \A j \in 1..n : new[j] = old[j]
        /\ new[n + 1] = row
    BY Zenon DEF Grown
  <2>2. /\ \A j \in 1..n + 1 : j \in 1..n \/ j = n + 1
        /\ \A j \in 1..n : j \in 1..n + 1
    BY SMTT(60), <2>1
  <2>3. OfEpisode(new, h) = E
    <3> HIDE DEF n
    <3> QED BY Zenon, <1>3, <2>1, <2>2 DEF OfEpisode
  <2>4. Max(E) \in E /\ E \in SUBSET (1..n)
    BY Zenon, <2>1, <2>3, MaxIndex DEF OfEpisode
  <2>5. new[Max(OfEpisode(new, h))] = old[Max(E)]
    BY Zenon, <2>1, <2>3, <2>4
  <2>6. old[Max(E)].counts[r] = Cardinality(ClaimsOf(old, h, r))
    BY Zenon, <2>3 DEF Counted
  <2> QED BY SMTT(60), <1>1, <1>3, <2>5, <2>6
<1> QED BY Zenon, <1>2, <1>3

\* Every step keeps the counts exact, and claims a recipe only within its bound.
LEMMA BoundStep ==
  ASSUME TypeInv, Counted(ledger.rows), WithinBound(ledger.rows), Next
  PROVE  Counted(ledger'.rows) /\ WithinBound(ledger'.rows)
<1> DEFINE old == ledger.rows
           new == ledger'.rows
<1>1. ledger \in Ledgers /\ old \in Seq(Rows) /\ Bound \in Nat /\ head \in Heads
  BY Zenon, PolicyAssumption DEF TypeInv, TypeOK, Ledgers
<1>2. RowsChange(ledger')
  BY Zenon, LedgerStep
<1>3. CASE new = old
  BY Zenon, <1>3
<1>4. CASE \E S \in SUBSET Started(ledger.rows), o \in Closings : ledger'.rows = SetOutcome(ledger.rows, S, o)
  BY Zenon, <1>1, <1>4, ClosingKeepsCounts
<1>5. CASE /\ MayClaim
           /\ \E i \in Selected :
                ledger' \in {Recorded(AttemptId(i), "skipped", SkippedEpisode(i)),
                             Recorded(AttemptId(i), "started", ClaimedEpisode(i))}
  <2>1. PICK i \in Selected :
          ledger' \in {Recorded(AttemptId(i), "skipped", SkippedEpisode(i)),
                       Recorded(AttemptId(i), "started", ClaimedEpisode(i))}
    BY Zenon, <1>5
  <2> DEFINE counts == Current.counts
             a == Recipes[i]
  <2>2. /\ AttemptId(i) \in AttemptIds /\ a \in Recipe /\ counts \in Counts /\ counts[a] < Bound
        /\ SkippedEpisode(i) \in Episodes /\ SkippedEpisode(i).counts = counts
        /\ ClaimedEpisode(i) \in Episodes /\ ClaimedEpisode(i).counts = [counts EXCEPT ![a] = @ + 1]
    BY SMTT(60), <1>5, SelectedRecipe DEF TypeInv, HasBudget, Episodes
  <2>3. PICK o \in {"skipped", "started"}, ep \in Episodes :
          /\ ledger' = Recorded(AttemptId(i), o, ep)
          /\ ep.counts = IF o = "skipped" THEN counts ELSE [counts EXCEPT ![a] = @ + 1]
    BY Zenon, <2>1, <2>2
  <2> DEFINE row == NewRow(AttemptId(i), o, ep)
  <2>4. Grown(old, new, row)
    BY Zenon, <1>1, <2>2, <2>3, RecordedRows DEF Outcomes
  <2>5. row.id.head = head /\ row.id.action = a /\ row.outcome = o /\ row.counts = ep.counts
    BY Zenon DEF NewRow, AttemptId
  <2>6. Current = Episode(old, head)
    BY Zenon DEF Current
  <2> HIDE DEF row, old, new, a, counts
  <2>7. \A r \in Recipe :
          row.counts[r] = counts[r] + IF row.id.action = r /\ row.outcome # "skipped" THEN 1 ELSE 0
    BY SMTT(60), <2>2, <2>3, <2>5 DEF Counts
  <2>8. Counted(old) /\ WithinBound(old)
    BY Zenon DEF old
  <2>9. Counted(new)
    BY Zenon, <1>1, <2>4, <2>5, <2>6, <2>7, <2>8, AddingKeepsCounts DEF counts
  <2>10. ASSUME NEW h \in Heads, NEW r \in Recipe PROVE Cardinality(ClaimsOf(new, h, r)) <= Bound
    <3> DEFINE c == Cardinality(ClaimsOf(old, h, r))
    <3>1. /\ c \in Nat
          /\ Cardinality(ClaimsOf(new, h, r)) =
               c + IF row.id.head = h /\ row.id.action = r /\ row.outcome # "skipped" THEN 1 ELSE 0
      BY SMTT(60), <1>1, <2>4, AddedClaim
    <3>2. c <= Bound
      BY Zenon, <2>8 DEF WithinBound
    <3>3. h = head /\ r = a => c < Bound
      BY SMTT(60), <1>1, <2>2, <2>6, <2>8, EpisodeCounted DEF counts
    <3> HIDE DEF c
    <3> QED BY SMTT(60), <1>1, <2>5, <3>1, <3>2, <3>3
  <2>11. WithinBound(new)
    BY Zenon, <2>10 DEF WithinBound
  <2> QED BY Zenon, <2>9, <2>11 DEF new
<1> QED BY Zenon, <1>2, <1>3, <1>4, <1>5 DEF RowsChange

\* The budget's invariant: types, exact counts and the bound.
BoundInv == TypeInv /\ Counted(ledger.rows) /\ WithinBound(ledger.rows)

\* It holds at every step.
THEOREM BoundInvariance == Spec => []BoundInv
<1>1. Init => BoundInv
  <2> SUFFICES ASSUME Init PROVE Counted(ledger.rows) /\ WithinBound(ledger.rows)
    BY Zenon, InitTypes DEF BoundInv
  <2>1. DOMAIN ledger.rows = {}
    BY SMTT(60) DEF Init
  <2>2. \A h : OfEpisode(ledger.rows, h) = {} /\ \A r : ClaimsOf(ledger.rows, h, r) = {}
    BY Zenon, <2>1 DEF OfEpisode, ClaimsOf
  <2>3. Cardinality({}) = 0 /\ 0 <= Bound
    BY SMTT(60), FS_EmptySet, PolicyAssumption
  <2> QED BY Zenon, <2>2, <2>3 DEF Counted, WithinBound
<1>2. BoundInv /\ [Next]_vars => BoundInv'
  <2> SUFFICES ASSUME BoundInv, [Next]_vars PROVE BoundInv'
    OBVIOUS
  <2>1. TypeInv'
    BY Zenon, StepTypes DEF BoundInv
  <2>2. CASE Next
    BY Zenon, <2>1, <2>2, BoundStep DEF BoundInv
  <2>3. CASE UNCHANGED vars
    BY Zenon, <2>1, <2>3 DEF vars, BoundInv
  <2> QED BY Zenon, <2>2, <2>3
<1> QED BY <1>1, <1>2, PTL DEF Spec

\* On one candidate the ledger never holds more claims of a recipe than its
\* bound, whatever the pull request does and even when claims are superseded or
\* a document is quarantined (perStrategyBound, applyClaimToEpisode).
THEOREM ClaimBoundHolds == Spec => []WithinBound(ledger.rows)
<1>1. BoundInv => WithinBound(ledger.rows)
  BY Zenon DEF BoundInv
<1> QED BY <1>1, BoundInvariance, PTL
=============================================================================
