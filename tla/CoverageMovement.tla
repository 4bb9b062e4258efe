-------------------------- MODULE CoverageMovement --------------------------
(***************************************************************************)
(* Movement of a card's coverage against its recorded floor, and what the  *)
(* baseline-health report and its refresh plan make of one ledger entry.   *)
(***************************************************************************)
EXTENDS CardEvidence

Ordinal(level) ==
  CASE level = "present" -> 2
    [] level = "weak"    -> 1
    [] OTHER             -> 0

IsWorsened(floor, now) ==
  \E slot \in Slot : Ordinal(now[slot]) < Ordinal(floor[slot])

IsImproved(floor, now) ==
  /\ \E slot \in Slot : Ordinal(now[slot]) > Ordinal(floor[slot])
  /\ ~IsWorsened(floor, now)

-----------------------------------------------------------------------------
(* The health of one entry.                                                *)

Bucket ==
  {"active_unchanged", "active_improved", "active_worsened", "resolved",
   "review_due", "snapshot_missing_or_invalid",
   "duplicate_or_conflicting_entry", "suppression_overlap",
   "identity_unmatched"}

\* Mutant: a gain in one slot makes up for a loss in another.
ActiveBucketByGain(floor, now) ==
  CASE \E slot \in Slot : Ordinal(now[slot]) > Ordinal(floor[slot]) -> "active_improved"
    [] IsWorsened(floor, now) -> "active_worsened"
    [] OTHER                  -> "active_unchanged"

\* The bucket of a card that is still there and has a floor.
ActiveBucket(floor, now) ==
  CASE IsWorsened(floor, now) -> "active_worsened"
    [] IsImproved(floor, now) -> "active_improved"
    [] OTHER                  -> "active_unchanged"

\* What refresh --dry-run proposes for a bucket.
ActionFor(bucket) ==
  CASE bucket = "active_unchanged" -> "keep"
    [] bucket = "active_improved"  -> "update_snapshot"
    [] bucket = "resolved"         -> "mark_resolved"
    [] bucket = "review_due"       -> "advance_review_after"
    [] OTHER                       -> "conflict"

\* Mutant: the plan does not know that the scan could not run.
PlanActionBlind(bucket, scanned) == ActionFor(bucket)

\* An entry whose card was not looked for is not confirmed gone.
PlanAction(bucket, scanned) ==
  IF bucket = "resolved" /\ ~scanned THEN "conflict" ELSE ActionFor(bucket)

AutoEligible(action) == action \in {"keep", "update_snapshot"}

\* Mutant: what the refresh plan can take care of needs no attention.
HealthyIfPlanned(bucket) == ActionFor(bucket) # "conflict"

Healthy(bucket) == bucket \in {"active_unchanged", "resolved"}

=============================================================================
