--------------------------- MODULE MCWorkspaceFiles ---------------------------
(***************************************************************************)
(* Two contents of the imported directory, two imports at a time, a schema  *)
(* of two versions, two restores and two crashes.                          *)
(***************************************************************************)
EXTENDS WorkspaceFiles, TLC

Symmetry == Permutations(Imports) \cup Permutations(Sources)
===============================================================================
