\* What the code does not keep: each of these is violated, checked one at a time.
CONSTANTS
  Questions = {q3, q4}
  Batches = {b1, b2}
  Rosters = {{q3, q4}}
  Attempts = {a1}
  Teachers = 1
  MaxGeneration = 2
  MaxBriefs = 2
  MaxResolutions = 4
  MaxCrashes = 1
  NoFile = noFile
SPECIFICATION ActivationSpec
SYMMETRY SkillSymmetry
INVARIANTS
  InputSetBinds
  ArchiveComplete
  RosterUsable
CHECK_DEADLOCK FALSE
