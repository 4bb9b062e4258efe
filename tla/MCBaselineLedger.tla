-------------------------- MODULE MCBaselineLedger --------------------------
(***************************************************************************)
(* The baseline for TLC: two cards in two files.  Evidence of a card moves *)
(* between a contract without guard, a guard without contract, and a test  *)
(* that reaches a guarded seam.                                            *)
(***************************************************************************)
EXTENDS BaselineLedger, TLC

Evid(contract, guard, reach) ==
  [family |-> "pointer", contract |-> contract, guard |-> guard,
   reach |-> reach, witness |-> "none", routes |-> {"tool"},
   repairable |-> TRUE]

Weakened == {Evid(TRUE, FALSE, "unreached"), Evid(FALSE, TRUE, "unreached")}
Reached  == {Evid(TRUE, TRUE, "unreached"), Evid(TRUE, TRUE, "owner_reached")}

TwoFiles == [i \in Id |-> IF i = 1 THEN "core/lib.rs" ELSE "unsafe-core/lib.rs"]

\* The slug of the first file is found in the identities of the second.
Slugs == [f \in File |-> IF f = "core/lib.rs" THEN <<"core", "lib", "rs">>
                         ELSE <<"unsafe", "core", "lib", "rs">>]

AppFront == [i \in Id |-> <<"UR", "app">>]
SeamBack == [i \in Id |-> <<"read", "operation", "c1">>]

=============================================================================
