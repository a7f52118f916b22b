\* One process; a crash may leave half a line in the journal.
CONSTANTS
  Proc = {p1}
  Initializers = {p1}
  Key = {k1, k2, k3}
  Payload = {v1}
  None = None
  TornWrites = TRUE
  MaxCrashes = 1
SPECIFICATION Spec
PROPERTY ReadsNeverFail
