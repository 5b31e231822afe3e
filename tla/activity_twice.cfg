SPECIFICATION ActivitySpec
CONSTANTS
  Requests = {r1}
  Deliveries = {c1}
  None = None
  Window = 3
  PollLimit = 2
  MaxEvents = 5
  MaxDisturbances = 1
INVARIANTS DeliveredOnce
CHECK_DEADLOCK FALSE
