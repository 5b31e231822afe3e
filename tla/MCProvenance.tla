------------------------------ MODULE MCProvenance ------------------------------
(***************************************************************************)
(* A workspace that starts with one verified fact.  The other identities   *)
(* are interchangeable, and no run checks liveness.                        *)
(***************************************************************************)
EXTENDS Provenance, TLC

CONSTANTS start

MCGiven == {start}

Symmetry ==
  Permutations(Handlers) \cup Permutations(Facts \ Given) \cup Permutations(Evidence)
    \cup Permutations(Evaluations)
=============================================================================
