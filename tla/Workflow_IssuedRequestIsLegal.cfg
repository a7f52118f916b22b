SPECIFICATION Spec
CONSTANTS
    Self = q1
    Runs = {q1}
    Revisions = {r1, r2}
    Sessions = {s1, s2}
    Threads = {t1}
    Procs = {cli}
    Outcomes = {"LOW", "TIMEOUT"}
    MaxRequests = 5
    MaxAttempts = 5
    MaxDeltas = 0
    Protocols = {"linear"}
    Unused = Unused
    None = None
INVARIANT
    IssuedRequestIsLegal
CHECK_DEADLOCK FALSE
