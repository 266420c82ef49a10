SPECIFICATION Spec
CONSTANTS
    Phones = {p1}
    NewPhones = {p2}
    Requests = {r1}
    Operations = {"register", "forgot", "delete"}
    MaxAttempts = 1
    MaxCodes = 3
CHECK_DEADLOCK FALSE
PROPERTIES
    RegistrationStartsClean
