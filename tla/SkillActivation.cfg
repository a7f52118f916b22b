\* Two questions of a batch with one Teacher each, batches that supersede each other, a Brief
\* that is rewritten, a promotion, and a process that dies.
CONSTANTS
  Questions = {q3, q4}
  Batches = {b1, b2}
  Rosters = {{q3, q4}}
  Attempts = {a1}
  Teachers = 1
  MaxGeneration = 2
  MaxBriefs = 2
  MaxResolutions = 4
  MaxCrashes = 1
  NoFile = noFile
SPECIFICATION ActivationSpec
SYMMETRY SkillSymmetry
INVARIANTS
  BatchOneVersion
  BundlesWhole
  FrozenFromItsBrief
PROPERTIES
  AttemptStands
CHECK_DEADLOCK FALSE
