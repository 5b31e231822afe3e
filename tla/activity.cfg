SPECIFICATION FairSpec
CONSTANTS
  Requests = {r1}
  Deliveries = {c1}
  None = None
  Window = 3
  PollLimit = 2
  MaxEvents = 4
  MaxDisturbances = 1
INVARIANTS ActivityTypeOK
PROPERTIES StreamInOrder Converges
CHECK_DEADLOCK FALSE
