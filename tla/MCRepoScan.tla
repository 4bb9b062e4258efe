----------------------------- MODULE MCRepoScan -----------------------------
(***************************************************************************)
(* Repository scans for TLC.                                               *)
(***************************************************************************)
EXTENDS RepoScan, TLC

=============================================================================
