SPECIFICATION Spec
CONSTANTS
  comparison = comparison
  draft = draft
  application = application
  Handlers = {h1, h2}
  Approvals = {a1, a2}
  Targets = {comparison, draft, application}
  KindOf <- MCKindOf
  NoApproval = NoApproval
  Requested = {"preparing", "withdrawn"}
  Lifetime = 1
  MaxTime = 1
INVARIANTS TypeOK ConsumedOnce EffectIsTheApprovedOne OneEffectPerRevision
PROPERTIES ApprovalsFollowTheirGraph ListedIsAcceptedInTime
CHECK_DEADLOCK FALSE
SYMMETRY Symmetry
