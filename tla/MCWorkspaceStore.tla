--------------------------- MODULE MCWorkspaceStore ---------------------------
(***************************************************************************)
(* Two requests at a time on a workspace row and a uniquely indexed slot:  *)
(* a command that inserts the slot, one that updates the row, and one that *)
(* does both, as the creation of a rubric does.                            *)
(***************************************************************************)
EXTENDS WorkspaceStore

CONSTANTS c1, c2, slot, profile, k1, k2, k3, saveNew, change, both

MCPlan ==
  [s \in {saveNew, change, both} |->
     CASE s = saveNew -> <<[action |-> "insert", row |-> slot]>>
       [] s = change  -> <<[action |-> "update", row |-> slot]>>
       [] s = both    -> <<[action |-> "insert", row |-> profile],
                           [action |-> "update", row |-> slot]>>]
=============================================================================
