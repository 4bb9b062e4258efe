-------------------------- MODULE MCWitnessReceipts --------------------------
(***************************************************************************)
(* Witness receipts for TLC.  Two commits: the subject of card c1 is the   *)
(* same in both and changes with an uncommitted edit of m1, card c2 is     *)
(* new in m2.                                                              *)
(***************************************************************************)
EXTENDS WitnessReceipts, TLC

CONSTANTS c1, c2, m1, m2, s1, s2, s3, routed, other

Commands == Permutations(Proc)

OneCard  == {c1}
TwoCards == {c1, c2}

ReviewOfCard(card, at) ==
  CASE card = c1 /\ at = [head |-> m1, dirty |-> TRUE] -> s2
    [] card = c1                                       -> s1
    [] card = c2 /\ at.head = m1                       -> NoSubject
    [] OTHER                                           -> s3

Reviews == [at \in Tree |-> [card \in Card |-> ReviewOfCard(card, at)]]

\* An FFI card: a sanitizer first, human review as the last route.
FfiRoutes ==
  [card \in Card |-> <<[tool |-> "asan", command |-> routed],
                       [tool |-> HumanReview, command |-> NoCommand]>>]

=============================================================================
