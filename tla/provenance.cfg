SPECIFICATION Spec
CONSTANTS
  start = start
  Handlers = {h1, h2}
  Facts = {start, f2, f3}
  Evidence = {v1}
  Evaluations = {e1}
  Comparisons = {c1}
  Artifacts = {a1}
  Given <- MCGiven
  NoFact = NoFact
  Compared = 1
INVARIANTS TypeOK OneSuccessor OutputsAreGrounded
PROPERTIES StaleIsFinal CorrectionReachesWhatItMet
CHECK_DEADLOCK FALSE
SYMMETRY Symmetry
