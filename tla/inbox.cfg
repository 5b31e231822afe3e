SPECIFICATION Spec
CONSTANTS
  Tabs = {t1, t2}
  Discoveries = {d1, d2}
  Criteria = {k1, k2}
  Paused = {k2}
  u1 = u1
  u2 = u2
  Urls = {u1, u2}
  requisition = requisition
  Contents = {c1, c2}
  RequisitionOf <- MCRequisitionOf
  Unknown = Unknown
  Leads = {l1, l2}
  Opportunities = {o1, o2}
  Nothing = Nothing
  MaxLeads = 1
  MaxWorkspaceLeads = 2
  MaxOffers = 2
  MaxRequests = 2
SYMMETRY Symmetry
INVARIANTS TypeOK DecisionIsOnSeenContent OneOpportunityPerLead
CHECK_DEADLOCK FALSE
