SPECIFICATION Spec
CONSTANTS
    Requests = {r1, r2, r3}
    Operations = {"toggle", "update", "status", "predict"}
    MayFail = TRUE
    MayRestart = TRUE
SYMMETRY Symmetry
INVARIANTS
    DisarmedRaisesNothing
    ArmedMissedOnlyUnread
