SPECIFICATION Spec
CONSTANTS
  Operations = {o1, o2}
  Children = {c1}
  NoOperation = NoOperation
  NoChild = NoChild
  MaxConcurrent = 2
  MaxDisturbances = 0
INVARIANTS EndedIsSettled
CHECK_DEADLOCK FALSE
