SPECIFICATION Spec
CONSTANTS
    Phones = {p1, p2}
    Requests = {r1, r2}
    Operations = {"add", "resend"}
    Limit = 2
    MaxAttempts = 1
    MaxContacts = 2
    MaxCodes = 3
SYMMETRY Symmetry
CHECK_DEADLOCK FALSE
INVARIANTS
    OneLiveCode
