------------------------------ MODULE MCApprovals ------------------------------
(***************************************************************************)
(* Two handlers, two approvals, a comparison, a draft and an application   *)
(* that may be prepared or withdrawn.                                      *)
(***************************************************************************)
EXTENDS Approvals, TLC

CONSTANTS comparison, draft, application

MCKindOf ==
  [t \in {comparison, draft, application} |->
     CASE t = comparison  -> "comparison.accept"
       [] t = draft       -> "artifact.review"
       [] t = application -> "application.transition"]

Symmetry == Permutations(Handlers) \cup Permutations(Approvals)
=============================================================================
