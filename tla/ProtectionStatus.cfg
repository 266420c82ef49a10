SPECIFICATION Spec
CONSTANTS
    Requests = {r1, r2}
    Operations = {"toggle", "status"}
    MayFail = TRUE
    MayRestart = TRUE
INVARIANTS
    StatusTellsTheTruth
    ArmedIsNeverMissed
