\* One runtime-owned request and one worker that nobody disturbs.
SPECIFICATION QuietSpec
CONSTANTS
    Requests = {q3}
    RuntimeOwned = {q3}
    Workers = {w1}
    MaxActive = 1
    MaxClaims = 2
    Absent = Absent
    None = None
PROPERTIES
    RuntimeRequestRedeemed
CHECK_DEADLOCK FALSE
