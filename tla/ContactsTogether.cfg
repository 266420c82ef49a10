SPECIFICATION Spec
CONSTANTS
    Phones = {p1, p2}
    Requests = {r1, r2}
    Operations = {"add", "delete", "primary", "dispatch"}
    Limit = 1
    MaxAttempts = 1
    MaxContacts = 3
    MaxCodes = 3
SYMMETRY Symmetry
CHECK_DEADLOCK FALSE
INVARIANTS
    OvershootBounded
