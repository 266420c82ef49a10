SPECIFICATION Spec
CONSTANTS
    Phones = {p1, p2}
    Requests = {r1}
    Operations = {"add", "verify", "update"}
    Limit = 2
    MaxAttempts = 1
    MaxContacts = 2
    MaxCodes = 2
SYMMETRY Symmetry
CHECK_DEADLOCK FALSE
INVARIANTS
    VerifiedNumberConfirmed
