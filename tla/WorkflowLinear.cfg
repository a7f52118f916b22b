SPECIFICATION Spec
CONSTANTS
    Self = q1
    Runs = {q1}
    Revisions = {r1, r2}
    Sessions = {s1, s2}
    Threads = {t1}
    Procs = {supervisor, cli}
    Outcomes = {"LOW", "HIGH", "TIMEOUT"}
    MaxRequests = 4
    MaxAttempts = 4
    MaxDeltas = 1
    Protocols = {"linear"}
    Unused = Unused
    None = None
SYMMETRY Symmetry
INVARIANTS
    VerdictsEarned
    HistoryStaysInSession
    ExecutionCountedOnce
    ClosureIsCurrent
PROPERTIES
    LedgerOnlyGrows
CHECK_DEADLOCK FALSE
