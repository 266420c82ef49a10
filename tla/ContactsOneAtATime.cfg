SPECIFICATION Spec
CONSTANTS
    Phones = {p1, p2}
    Requests = {r1}
    Operations = {"add", "resend", "verify", "update", "primary", "delete"}
    Limit = 2
    MaxAttempts = 1
    MaxContacts = 3
    MaxCodes = 3
SYMMETRY Symmetry
CHECK_DEADLOCK FALSE
INVARIANTS
    TypeOK
    WithinLimit
    AtMostOnePrimary
    OneLiveCode
    GuessesBounded
    CodesVerifyOnce
