-------------------------------- MODULE MCInbox --------------------------------
(***************************************************************************)
(* Two tabs and two discoveries on two addresses, which name one            *)
(* requisition, and two texts; the second criteria are paused.              *)
(***************************************************************************)
EXTENDS Inbox, TLC

CONSTANTS requisition, u1, u2

MCRequisitionOf == [u \in {u1, u2} |-> requisition]

Symmetry == Permutations(Tabs) \cup Permutations(Discoveries) \cup Permutations(Urls)
              \cup Permutations(Contents)
===============================================================================
