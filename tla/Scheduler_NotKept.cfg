\* Properties the program does not keep, checked one at a time: one run directory
\* cannot be read while its Teacher keeps its lease alive, and a question awaits
\* publication while its Teacher is gone.
CONSTANTS
  Question = {3, 4}
  Thread = {t1, t2}
  Worker = {}
  External = {}
  RunWait = runWait
  None = None
  TTL = 2
  SlotLimit = 2
  Batch = {}
  ExploredRuns = {"WORKING", "FINISHED", "UNREADABLE"}
  MaxGeneration = 1
SPECIFICATION Spec
INVARIANT ExpiredCanBeReleased
PROPERTY TickExpiresLeases
