\* One question, two workers that race, fail, time out and stop anywhere, three grants,
\* and every class of run state.
CONSTANTS
  Question = {3}
  Thread = {t1}
  Worker = {w1, w2}
  External = {x1}
  RunWait = runWait
  None = None
  TTL = 2
  SlotLimit = 1
  Batch = {}
  ExploredRuns = {"WORKING", "FINISHED", "DEFERRED", "BLOCKED", "ABANDONED", "UNREADABLE"}
  MaxGeneration = 3
SPECIFICATION DispatchSpec
SYMMETRY Symmetry
INVARIANTS OneMessagePerGrant SentWasDelivered
PROPERTIES StrandedStaysStranded
