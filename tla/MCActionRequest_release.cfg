SPECIFICATION FairSpec
CONSTANTS
    Requests = {r1, r2}
    Slots = 1
    NoRequest = NoRequest
INVARIANTS Truthful Evidence
PROPERTY Released
CHECK_DEADLOCK FALSE
