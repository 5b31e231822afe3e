SPECIFICATION Spec
CONSTANTS
  Operations = {o1, o2}
  Children = {c1}
  NoOperation = NoOperation
  NoChild = NoChild
  MaxConcurrent = 2
  MaxDisturbances = 1
SYMMETRY Symmetry
INVARIANTS TypeOK SuccessIsACompletion
PROPERTY InterruptsAreForOpenWork
CHECK_DEADLOCK FALSE
