\* What the code does not keep: each of these is violated, checked one at a time.
CONSTANTS
  q3 = q3
  q4 = q4
  l1 = l1
  l2 = l2
  Members = {q3, q4}
  Published = {q3, q4}
  Lessons = {l1}
  Earlier = {}
  MaxFamily = 2
  MaxRevisions = 2
  NoFile = noFile
  Missing = missing
SYMMETRY BatchSymmetry
SPECIFICATION Spec
INVARIANTS
  ResultOfManifest
  ClosingIsPossible
  SealedCanBind
  SealedWasValidated
PROPERTIES
  ResultStands
CHECK_DEADLOCK FALSE
