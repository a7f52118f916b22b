\* What the code does not keep: each of these is violated, checked one at a time.
CONSTANTS
  w1 = w1
  w2 = w2
  c1 = c1
  c2 = c2
  Requests = {r1, r2}
  Contents = {c1, c2}
  Requesters = {p1}
  Workers = {w1, w2}
  Importers = {i1}
  Fences = {f1, f2}
  MaxEvidence = 2
  NoFile = noFile
SYMMETRY LabSymmetry
SPECIFICATION LabSpec
INVARIANTS
  CheckedIsBound
  PlannedReceiptsStand
  PromotionIdempotent
CHECK_DEADLOCK FALSE
