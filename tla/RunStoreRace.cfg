\* Two processes, each free to read without the lock while the other commits.
CONSTANTS
  Proc = {p1, p2}
  Initializers = {p1, p2}
  Key = {k1, k2, k3}
  Payload = {v1, v2}
  None = None
  TornWrites = FALSE
  MaxCrashes = 1
SPECIFICATION Spec
SYMMETRY Symmetry
PROPERTY LogSpec
