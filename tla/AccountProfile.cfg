SPECIFICATION Spec
CONSTANTS
    Phones = {p1, p2}
    NewPhones = {p1, p2}
    Requests = {r1}
    Operations = {"register", "verify", "profile"}
    MaxAttempts = 1
    MaxCodes = 2
CHECK_DEADLOCK FALSE
INVARIANTS
    GrantedByPresentNumber
    NumberInUseOnce
    FoundByItsNumber
