\* Two questions of one batch, two Teachers, and every class of run state.
CONSTANTS
  Question = {3, 4}
  Thread = {t1, t2}
  Worker = {}
  External = {x1}
  RunWait = runWait
  None = None
  TTL = 2
  SlotLimit = 2
  Batch = {3, 4}
  ExploredRuns = {"WORKING", "FINISHED", "DEFERRED", "BLOCKED", "ABANDONED", "UNREADABLE"}
  MaxGeneration = 2
SPECIFICATION Spec
SYMMETRY Symmetry
INVARIANTS SlotsBounded OneLeasePerOwner BatchReconciled
PROPERTIES LeaseNeverRevives TickFillsSlots TickSettles
