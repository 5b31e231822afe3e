SPECIFICATION FairSpec
CONSTANTS
  Requests = {r1, r2}
  Searches = {search}
  Sources = {source}
  Operations = {o1, o2}
  Items = {i1}
  Handlers = {h1}
  NoOperation = NoOperation
  Nobody = Nobody
  MaxOffers = 1
  MaxCalls = 4
  MaxDisturbances = 1
  MaxSessions = 1
  Discovering = {r1}
INVARIANTS TypeOK AnswerIsSettled OneOrganizationAtATime
PROPERTIES RunsEnd
CHECK_DEADLOCK FALSE
