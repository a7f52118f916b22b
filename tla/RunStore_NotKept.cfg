\* What the code does not keep: each of these is violated, checked one at a time.
CONSTANTS
  Proc = {p1, p2}
  Initializers = {p1, p2}
  Key = {k1, k2, k3}
  Payload = {v1}
  None = None
  TornWrites = FALSE
  MaxCrashes = 0
SPECIFICATION Spec
SYMMETRY Symmetry
PROPERTIES
  ReadsNeverFail
  ConflictMeansNotApplied
CHECK_DEADLOCK FALSE
