\* One question, a supervisor that dies anywhere, two requests and three workers.
SPECIFICATION Spec
CONSTANTS
    Questions = {q1}
    Probers = {p1}
    Rounds = {1, 2, 3, 4, 5, 6}
    Stages = {"PLATFORM", "MODEL_CONNECTION", "VERIFIER"}
    RetryBudget = 1
    MaxFailures = 2
    MaxRequests = 2
    MaxWorkers = 3
    None = None
INVARIANTS
    RetriesBounded
    LaunchedOnce
    FinishedOnScience
PROPERTIES
    SessionsSpec
    HintedSessionContinues
CHECK_DEADLOCK FALSE
