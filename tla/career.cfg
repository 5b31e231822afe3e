SPECIFICATION CareerSpec
CONSTANTS
  OpenTabs = {t1, t2}
  Organizations = {o1}
  Nobody = Nobody
  MaxFacts = 3
  Wishes = 1
  MaxDeeds = 3
SYMMETRY Symmetry
INVARIANTS CareerTypeOK VerifiedWasReviewed CompleteMeansDecided
CHECK_DEADLOCK FALSE
