SPECIFICATION Spec
CONSTANTS
    Requests = {r1}
    MaxIssues = 2
    Presented = {"access", "refresh", "sos"}
    MayFail = FALSE
INVARIANTS
    OnlyLoginsBeginLines
