\* What the code does not keep: each of these is violated, checked one at a time.
SPECIFICATION Spec
CONSTANTS
    Questions = {q1}
    Probers = {p1}
    Rounds = {1, 2, 3, 4, 5, 6}
    Stages = {"PLATFORM", "MODEL_CONNECTION", "VERIFIER"}
    RetryBudget = 1
    MaxFailures = 3
    MaxRequests = 2
    MaxWorkers = 3
    None = None
INVARIANTS
  AttemptIdempotent
  HalfOpenIsOwned
PROPERTIES
  LostMeansGone
  RetryOnlyBeforeScience
CHECK_DEADLOCK FALSE
