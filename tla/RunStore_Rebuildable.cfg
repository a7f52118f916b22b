\* Two processes read, repair and commit; one of them created the run.
CONSTANTS
  Proc = {p1, p2}
  Initializers = {p1}
  Key = {k1, k2, k3}
  Payload = {v1}
  None = None
  TornWrites = FALSE
  MaxCrashes = 0
SPECIFICATION Spec
INVARIANT Rebuildable
