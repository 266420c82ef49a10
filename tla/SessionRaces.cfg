SPECIFICATION Spec
CONSTANTS
    Requests = {r1, r2, r3}
    MaxIssues = 3
    Presented = {"access", "refresh"}
    MayFail = TRUE
SYMMETRY Symmetry
INVARIANTS
    OneSuccessor
    OneLivePerLine
    LogoutEndsTheLine
