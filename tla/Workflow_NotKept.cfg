\* What the code does not keep: each of these is violated, checked one at a time.
SPECIFICATION Spec
CONSTANTS
    Self = q1
    Runs = {q1}
    Revisions = {r1, r2}
    Sessions = {s1, s2}
    Threads = {t1}
    Procs = {supervisor, cli}
    Outcomes = {"LOW", "HIGH", "TIMEOUT"}
    MaxRequests = 4
    MaxAttempts = 4
    MaxDeltas = 0
    Protocols = {"linear"}
    Unused = Unused
    None = None
INVARIANTS
    SettledCanReconcile
    SupersededSessionIsClosed
    FinalizedSessionIsClosed
    ReceiptsAreTheRounds
    RoundsAreLedgered
    SessionIsCurrent
    EvidenceIsCurrent
CHECK_DEADLOCK FALSE
