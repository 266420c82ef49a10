SPECIFICATION Spec
CONSTANTS
    Phones = {p1, p2, p3}
    Requests = {r1, r2}
    Operations = {"add"}
    Limit = 2
    MaxAttempts = 1
    MaxContacts = 3
    MaxCodes = 3
SYMMETRY Symmetry
CHECK_DEADLOCK FALSE
INVARIANTS
    WithinLimit
