SPECIFICATION Spec
CONSTANTS
    Phones = {p1, p2}
    NewPhones = {p3}
    Requests = {r1, r2}
    Operations = {"register", "resend", "forgot", "verify", "reset", "profile", "delete"}
    MaxAttempts = 2
    MaxCodes = 2
SYMMETRY Symmetry
CHECK_DEADLOCK FALSE
INVARIANTS
    TypeOK
    OneLiveCodePerHandler
    AcceptedOncePerHandler
    GrantedByRegisteredNumber
    GuessesBounded
PROPERTIES
    SpentStaysSpent
