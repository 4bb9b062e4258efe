---------------------------- MODULE MCLspBackend ----------------------------
(***************************************************************************)
(* The LSP backend for TLC.  Handlers are interchangeable, and so are      *)
(* documents.                                                              *)
(***************************************************************************)
EXTENDS LspBackend, TLC

Handlers == Permutations(Tasks)

HandlersAndDocuments == Permutations(Tasks) \cup Permutations(Uri)

=============================================================================
