SPECIFICATION FairSpec
CONSTANTS
  c1 = c1
  c2 = c2
  slot = slot
  profile = profile
  k1 = k1
  k2 = k2
  k3 = k3
  saveNew = saveNew
  change = change
  both = both
  Callers = {c1, c2}
  Rows = {slot, profile}
  Keys = {k1, k2, k3}
  Shapes = {saveNew, change, both}
  Plan <- MCPlan
  NoCommand = NoCommand
  NoRequest = NoRequest
  MaxRevision = 2
  MaxCrashes = 1
INVARIANTS TypeOK TrailIsHistory SuccessIsOnRecord
PROPERTIES ImplementsLedger TicketsAreServed
CHECK_DEADLOCK FALSE
