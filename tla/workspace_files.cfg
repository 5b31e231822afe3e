SPECIFICATION Spec
CONSTANTS
  Sources = {s1, s2}
  Imports = {h1, h2}
  None = None
  Latest = 2
  MaxPreviews = 1
  MaxCrashes = 2
  MaxRestores = 2
  MaxEdits = 1
  MaxApplies = 3
  MaxStarts = 3
SYMMETRY Symmetry
INVARIANTS TypeOK RecordsHaveTheirBytes ImportsAreDurable ImportIsWhatWasReviewed
CHECK_DEADLOCK FALSE
