SPECIFICATION FairSpec
CONSTANTS
  named = named
  drawn = drawn
  onNamed = onNamed
  again = again
  alone = alone
  Handlers = {h1, h2}
  Operations = {named, drawn}
  Evaluations = {e1, e2}
  Keys = {onNamed, again, alone}
  Names <- MCNames
  NoOperation = NoOperation
  NotAdmitted = NotAdmitted
  MaxRevision = 3
  MaxCrashes = 1
INVARIANTS TypeOK SettledTogether
PROPERTIES NeverTakenBack InterruptedAreSettled
CHECK_DEADLOCK FALSE
