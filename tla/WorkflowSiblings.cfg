SPECIFICATION Spec
CONSTANTS
    Self = q1
    Runs = {q1, q2}
    Revisions = {r1, r2}
    Sessions = {s1, s2, s3}
    Threads = {t1, t2}
    Procs = {supervisor, cli}
    Outcomes = {"LOW", "HIGH", "INCOMPLETE"}
    MaxRequests = 1
    MaxAttempts = 4
    MaxDeltas = 0
    Protocols = {"linear", "persistent"}
    Unused = Unused
    None = None
SYMMETRY Symmetry
INVARIANTS
    VerdictsEarned
    SessionIsReserved
    ThreadCarriesNothingOver
CHECK_DEADLOCK FALSE
