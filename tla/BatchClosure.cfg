\* Two questions of one batch, one lesson, a family of two versions.
CONSTANTS
  q3 = q3
  q4 = q4
  l1 = l1
  l2 = l2
  Members = {q3, q4}
  Published = {q3, q4}
  Lessons = {l1}
  Earlier = {}
  MaxFamily = 1
  MaxRevisions = 2
  NoFile = noFile
  Missing = missing
SYMMETRY BatchSymmetry
SPECIFICATION Spec
INVARIANTS
  PromotedOnTwoQuestions
  CompletedIsSealed
  FinishedIsConcluded
PROPERTIES
  TraceStands
CHECK_DEADLOCK FALSE
