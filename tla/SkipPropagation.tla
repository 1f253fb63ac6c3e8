--------------------------- MODULE SkipPropagation ---------------------------
(***************************************************************************)
(* propagateSkips of core/scripts/loop/dependencies.ts as the loop it is:  *)
(* sweeps over the contract until one changes nothing.  LoopSchedule uses  *)
(* the set it is meant to compute, the least fixpoint SkippedNow.          *)
(***************************************************************************)
EXTENDS LoopSchedule

\* One sweep in contract order, over the states as the sweep has left them:
\* of the items already skipped, L, it makes those skipped after its first k
\* items.
SweptTo(L, seen) ==
  LET skipped[k \in 0..N] ==
        IF k = 0 THEN L
        ELSE IF k \in Skippable \ skipped[k-1] /\ Lost(k, skipped[k-1], seen)
               THEN skipped[k-1] \cup {k}
               ELSE skipped[k-1]
  IN skipped

Sweep(L, seen) == SweptTo(L, seen)[N]

\* The items skipped after the first m sweeps.
AfterSweeps(seen) ==
  LET skipped[m \in 0..N] == IF m = 0 THEN {} ELSE Sweep(skipped[m-1], seen)
  IN skipped

\* The sweep that follows the first m changes nothing.
Unchanged(seen, m) == Sweep(AfterSweeps(seen)[m], seen) = AfterSweeps(seen)[m]

\* The items one call of propagateSkips skips.
Propagated_OneSweep(seen) == Sweep({}, seen)
Propagated(seen) ==
  LET last == CHOOSE m \in 0..N : Unchanged(seen, m) /\ \A k \in 0..m-1 : ~Unchanged(seen, k)
  IN AfterSweeps(seen)[last]

\* The loop computes the least fixpoint, whatever the order of the contract:
\* it skips every item that can never run, however far down a chain, and no
\* item without a lost dependency (propagateSkips).
SkipsExact == phase = "skips" => Propagated(ext) = SkippedNow(ext)
=============================================================================
