--------------------------- MODULE LspSnapshotCell ---------------------------
(***************************************************************************)
(* What the LSP backend promises to those who use its analysis: one cell   *)
(* whose content may be used only while it is `live`.  A request for a new *)
(* generation ends that at once, and only the newest generation may be     *)
(* installed.                                                              *)
(***************************************************************************)
EXTENDS Naturals

VARIABLES
  latest,   \* the newest generation anybody has begun
  cell,     \* the generation whose result is stored, 0 when there is none
  live      \* the stored result may be used

vars == <<latest, cell, live>>

TypeOK ==
  /\ latest \in Nat
  /\ cell \in Nat
  /\ live \in BOOLEAN

Init ==
  /\ latest = 0
  /\ cell = 0
  /\ live = FALSE

\* A refresh begins or a document changes: nothing stored is live any more.
Supersede ==
  /\ latest' = latest + 1
  /\ live' = FALSE
  /\ UNCHANGED cell

\* The newest generation delivers its result.
Install ==
  /\ cell' = latest
  /\ live' = TRUE
  /\ UNCHANGED latest

\* The newest generation fails: the old result is kept, not live.
Fail ==
  /\ live' = FALSE
  /\ UNCHANGED <<latest, cell>>

\* A changed document drops the stored result.
Drop ==
  /\ cell' = 0
  /\ live' = FALSE
  /\ UNCHANGED latest

Next == Supersede \/ Install \/ Fail \/ Drop

Spec == Init /\ [][Next]_vars

\* The stored result is live only if it is the newest generation's.
LiveIsLatest == live => cell = latest

=============================================================================
