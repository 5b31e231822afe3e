--------------------------- MODULE MCNativeChildren ---------------------------
(***************************************************************************)
(* Two operations of one child session: a start and a follow-up, with a    *)
(* report, a cancellation, a deletion, a user's request or a failure       *)
(* anywhere.                                                               *)
(***************************************************************************)
EXTENDS NativeChildren, TLC

Symmetry == Permutations(Operations)
===============================================================================
