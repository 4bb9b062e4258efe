---------------------------- MODULE BaseMovement ----------------------------
(***************************************************************************)
(* Base and head movement: what became of every subject between a base and *)
(* a head analysis.  A subject is a card identity without its counter, so  *)
(* that several cards may have it.                                         *)
(***************************************************************************)
EXTENDS Naturals, FiniteSets

CONSTANTS
  Key,        \* keys of obligations
  Verdict     \* what a witness may have found

NoWitness == [present |-> FALSE]

\* What the comparison looks at.  discharged has the card's obligations as
\* its domain.
CardEvidence ==
  [contract : BOOLEAN, discharged : UNION {[ks -> BOOLEAN] : ks \in SUBSET Key},
   witness : {NoWitness} \cup [present : {TRUE}, verdict : Verdict],
   reached : BOOLEAN]

Movement ==
  {"introduced", "worsened", "improved", "resolved", "inherited", "unknown"}

-----------------------------------------------------------------------------
(* compare_evidence: one loss outweighs every gain.                        *)

Lost(before, after) ==
  \/ before.contract /\ ~after.contract
  \/ \E k \in DOMAIN before.discharged :
       before.discharged[k] /\ ~after.discharged[k]
  \/ before.witness.present /\ ~after.witness.present
  \/ before.reached /\ ~after.reached

\* Another verdict is new knowledge.
Gained(before, after) ==
  \/ Lost(after, before)
  \/ before.witness.present /\ after.witness.present
       /\ before.witness.verdict # after.witness.verdict

CompareEvidence(before, after) ==
  IF Lost(before, after)        THEN "worsened"
  ELSE IF Gained(before, after) THEN "improved"
  ELSE "inherited"

CompareSubject(before, after) ==
  IF DOMAIN before.discharged # DOMAIN after.discharged THEN "unknown"
  ELSE CompareEvidence(before, after)

-----------------------------------------------------------------------------
(* evaluate_base_head_movement, for one subject.  A side has the evidence  *)
(* of each of its cards of the subject, and says whether it is complete    *)
(* and covered the subject's file.                                         *)

\* Mutant: a capped scan is trusted.
LicensesCapped(side) == side.covers

\* Absence proves something only on a complete side that saw the file.
Licenses(side) == side.complete /\ side.covers

MovementOf(base, head) ==
  CASE Cardinality(base.cards) = 1 /\ Cardinality(head.cards) = 1 ->
         CompareSubject(CHOOSE c \in base.cards : TRUE,
                        CHOOSE c \in head.cards : TRUE)
    [] base.cards = {} /\ Cardinality(head.cards) = 1 /\ Licenses(base) ->
         "introduced"
    [] Cardinality(base.cards) = 1 /\ head.cards = {} /\ Licenses(head) ->
         "resolved"
    [] OTHER -> "unknown"

\* apply_no_resolved_rule, for a head that is scoped to a diff.
NoResolved(movement) == IF movement = "resolved" THEN "unknown" ELSE movement

=============================================================================
