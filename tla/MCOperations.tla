----------------------------- MODULE MCOperations -----------------------------
(***************************************************************************)
(* Two requests at a time on two operations: one that commands name, and   *)
(* one that is drawn by an evaluation or started by an agent.              *)
(***************************************************************************)
EXTENDS Operations, TLC

CONSTANTS named, drawn, onNamed, again, alone

\* Two commands that evaluate on the named operation, one that draws its own.
MCNames == [k \in {onNamed, again, alone} |-> IF k = alone THEN NoOperation ELSE named]

Symmetry == Permutations(Handlers)
===============================================================================
