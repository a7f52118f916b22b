\* Three requests, one of them runtime-owned, two workers and two slots.
SPECIFICATION Spec
CONSTANTS
    Requests = {q1, q2, q3}
    RuntimeOwned = {q3}
    Workers = {w1, w2}
    MaxActive = 2
    MaxClaims = 3
    Absent = Absent
    None = None
SYMMETRY Symmetry
INVARIANTS
    SlotsBounded
    ExecutionHoldsSlot
PROPERTIES
    EligibleStaysEligible
    ReceiptWrittenOnce
CHECK_DEADLOCK FALSE
