\* One process at a time, killed at any step and started again.
CONSTANTS
  Proc = {p1}
  Initializers = {p1}
  Key = {k1, k2, k3}
  Payload = {v1}
  None = None
  TornWrites = FALSE
  MaxCrashes = 3
SPECIFICATION FairSpec
INVARIANT Rebuildable
PROPERTIES LagRepaired
