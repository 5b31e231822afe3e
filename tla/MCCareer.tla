-------------------------------- MODULE MCCareer --------------------------------
(***************************************************************************)
(* Two tabs, one organization and three facts: two suggestions of a run and *)
(* one of the user, or a correction.                                         *)
(***************************************************************************)
EXTENDS Career, TLC

Symmetry == Permutations(OpenTabs)
===============================================================================
